-------------------------- MODULE EventTableProofs --------------------------
(***************************************************************************)
(* Proofs about the event table, for every batch size and any number of    *)
(* events, streams, records and copies: what one application thread is     *)
(* told of its own events and copies is true.                              *)
(***************************************************************************)
EXTENDS EventTable, SequenceTheorems, TLAPS

\* The application has one thread that makes CUDA calls.  With two, cuEventQuery of one may
\* ask the server about a record that the other has noted and not yet sent.
OneThread == \A t, u \in Thread : t = u

Record == 1 .. MaxRecord
Copy == 1 .. MaxCopy
Label == {"idle", "seq", "noted", "copying", "loaded", "collected", "asked", "answer", "complete",
          "answered", "destroying", "destroyed"}
Row == [event : Event \cup {NoEvent}, recorded : Nat, completed : Nat]
Place == [stream : Stream \cup {"none"}, pos : Nat]

\* Requests.
RecordMsg == [k : {"record"}, e : Event, s : Stream, r : Record]
CopyMsg == [k : {"copy"}, s : Stream, n : Copy]
Asked == [e : Event, r : Nat]
QueryMsg == [k : {"query"}, e : Event, r : Nat, others : SUBSET Asked]
SyncMsg == [k : {"sync"}, e : Event]
DestroyMsg == [k : {"destroy"}, e : Event]
Msg == RecordMsg \cup CopyMsg \cup QueryMsg \cup SyncMsg \cup DestroyMsg

\* The thread waits for the answer.
Waits(m) == m.k \in {"query", "sync", "destroy"}

Types ==
  /\ slots \in [Slot -> Row] /\ recordSeq \in 0 .. MaxRecord /\ issued \in 0 .. MaxCopy /\ drained \in Nat
  /\ pc \in [Thread -> Label] /\ loc = [t \in Thread |-> loc[t]] /\ q \in [Thread -> Seq(Msg)]
  /\ sub \in [Stream -> Nat] /\ fin \in [Stream -> Nat]
  /\ recAt \in [Record -> Place] /\ copyAt \in [Copy -> Place]
  /\ at \in [Event -> Nat] /\ delivered \in [Copy -> {"no", "stale", "final"}]
  /\ lastRec \in [Thread -> [Event -> Nat]] /\ before \in [Thread -> [Event -> SUBSET Copy]]

\* The thread's locals, by where it is.
Locals(t) ==
  /\ pc[t] \in {"seq", "noted"} => loc[t] \in RecordMsg
  /\ pc[t] = "copying" => loc[t] \in CopyMsg
  /\ pc[t] = "loaded" => loc[t] \in [k : {"query"}, e : Event, pending : BOOLEAN]
  /\ pc[t] = "collected" => loc[t] \in QueryMsg
  /\ pc[t] = "asked" => loc[t] \in SyncMsg \cup [k : {"query"}, e : Event, sample : Nat]
  /\ pc[t] \in {"answer", "complete"} =>
       loc[t] \in [k : {"query"}, e : Event, sample : Nat, ok : SUBSET Asked]
  /\ pc[t] = "answered" => loc[t].e \in Event
  /\ pc[t] \in {"destroying", "destroyed"} => loc[t] \in DestroyMsg

\* What is on its way to the server.
Msgs(t) == {q[t][i] : i \in 1 .. Len(q[t])}
Records(t, e) == {m \in Msgs(t) : m.k = "record" /\ m.e = e}

\* Records leave in the order of their numbers, and nothing follows a request that is
\* waited for.
Sorted(t) == \A i, j \in 1 .. Len(q[t]) :
  i < j /\ q[t][i].k = "record" /\ q[t][j].k = "record" => q[t][i].r < q[t][j].r
Closing(t) == \A i \in 1 .. Len(q[t]) : Waits(q[t][i]) => i = Len(q[t])

\* A request that is waited for has its thread waiting.
Waiting(t) ==
  \A m \in Msgs(t) : Waits(m) =>
    /\ pc[t] = (IF m.k = "destroy" THEN "destroying" ELSE "asked")
    /\ loc[t].k = m.k /\ loc[t].e = m.e

\* Sequence numbers are handed out in order and used once.
Numbers(t) ==
  /\ \A m \in Msgs(t) : m.k = "record" => m.r <= recordSeq /\ recAt[m.r] = None
  /\ \A r \in Record : r > recordSeq => recAt[r] = None
  /\ \A e \in Event : lastRec[t][e] <= recordSeq
  /\ pc[t] \in {"seq", "noted"} =>
       /\ loc[t].r = recordSeq /\ recAt[recordSeq] = None
       /\ \A m \in Msgs(t) : m.k = "record" => m.r < recordSeq
       /\ \A e \in Event : lastRec[t][e] < recordSeq

\* The latest record of an event is the last one of it under way, or else the one the
\* server knows.
Latest(t) ==
  /\ \A e \in Event : \A m \in Records(t, e) : m.r <= lastRec[t][e]
  /\ \A e \in Event : Records(t, e) # {} => \E m \in Records(t, e) : m.r = lastRec[t][e]
  /\ \A e \in Event : Records(t, e) = {} /\ ~(pc[t] = "destroyed" /\ loc[t].e = e)
                        => at[e] = lastRec[t][e]
  /\ pc[t] = "destroyed" => at[loc[t].e] = 0 /\ Msgs(t) = {}

\* An event has one slot, whose result never runs ahead of its record.
Table ==
  /\ \A i, j \in Slot : slots[i].event = slots[j].event /\ slots[i].event # NoEvent => i = j
  /\ \A i \in Slot : slots[i].event # NoEvent => /\ slots[i].recorded \in Record
                                                 /\ slots[i].completed <= slots[i].recorded
  /\ CompletionHonest

\* The table knows the latest record, and the one that is about to be sent.
Known(t) ==
  \A i \in Slot : slots[i].event # NoEvent =>
    IF pc[t] = "noted" /\ loc[t].e = slots[i].event
      THEN slots[i].recorded = loc[t].r
      ELSE slots[i].recorded = lastRec[t][slots[i].event]

\* The latest record of e, if there is one, is done.
Settled(t, e) == lastRec[t][e] # 0 => RecordDone(lastRec[t][e])
Current(t, a) == a.r # 0 => a.r = lastRec[t][a.e]
Batched(m) == {[e |-> m.e, r |-> m.r]} \cup m.others

\* Queries ask about latest records, and answers say which of them are done.
Answers(t) ==
  /\ pc[t] = "collected" => \A a \in Batched(loc[t]) : Current(t, a)
  /\ \A m \in Msgs(t) : m.k = "query" => \A a \in Batched(m) : Current(t, a)
  /\ pc[t] \in {"answer", "complete"} => \A a \in loc[t].ok : Current(t, a) /\ Settled(t, a.e)
  /\ pc[t] \in {"complete", "answered"} => Settled(t, loc[t].e)

\* A copy that was counted is about to be sent, under way, or at the server.
Counted(t) ==
  /\ \A n \in 1 .. issued : \/ copyAt[n] # None
                            \/ pc[t] = "copying" /\ loc[t].n = n
                            \/ \E m \in Msgs(t) : m.k = "copy" /\ m.n = n
  /\ \A m \in Msgs(t) : m.k = "copy" => m.n <= issued
  /\ pc[t] = "copying" => loc[t].n <= issued
  /\ \A n \in Copy : copyAt[n] # None => n <= issued
  /\ \A e \in Event : \A n \in before[t][e] : n <= issued

\* Every copy was sent to the client.
AllSent == \A n \in 1 .. issued : delivered[n] # "no"

\* What the thread has found out about the copies still holds.
Found(t) ==
  /\ pc[t] = "loaded" => loc[t].pending \/ issued = drained
  /\ pc[t] = "asked" /\ loc[t].k = "query" => loc[t].sample = issued
  /\ pc[t] \in {"answer", "complete"} => loc[t].sample = issued
  /\ pc[t] = "answer" /\ (\E a \in loc[t].ok : a.e = loc[t].e) => AllSent
  /\ pc[t] \in {"complete", "answered"} => AllSent

Drained == drained <= issued /\ \A n \in 1 .. drained : delivered[n] # "no"

Local(t) ==
  /\ Locals(t) /\ Sorted(t) /\ Closing(t) /\ Waiting(t) /\ Numbers(t) /\ Latest(t) /\ Known(t)
  /\ Answers(t) /\ Counted(t) /\ Found(t)

IInv == Types /\ Table /\ Drained /\ \A t \in Thread : Local(t)

\* What the kinds of requests hold.
LEMMA Kinds ==
  ASSUME NEW m \in Msg
  PROVE  /\ m.k \in {"record", "copy", "query", "sync", "destroy"}
         /\ m.k = "record" => m \in RecordMsg /\ m.e \in Event /\ m.s \in Stream /\ m.r \in Record
         /\ m.k = "copy" => m \in CopyMsg /\ m.s \in Stream /\ m.n \in Copy
         /\ m.k = "query" => m \in QueryMsg /\ m.e \in Event /\ m.r \in Nat /\ m.others \subseteq Asked
         /\ m.k = "sync" => m \in SyncMsg /\ m.e \in Event
         /\ m.k = "destroy" => m \in DestroyMsg /\ m.e \in Event
<1>1. CASE m \in RecordMsg
  BY <1>1 DEF RecordMsg
<1>2. CASE m \in CopyMsg
  BY <1>2 DEF CopyMsg
<1>3. CASE m \in QueryMsg
  BY <1>3 DEF QueryMsg
<1>4. CASE m \in SyncMsg
  BY <1>4 DEF SyncMsg
<1>5. CASE m \in DestroyMsg
  BY <1>5 DEF DestroyMsg
<1> QED
  BY <1>1, <1>2, <1>3, <1>4, <1>5 DEF Msg

\* Requests under way are well formed.
LEMMA Sizes ==
  ASSUME Types, NEW t \in Thread
  PROVE  \A x \in Msgs(t) : (x.k = "record" => x.r \in Record) /\ (x.k = "copy" => x.n \in Copy)
<1> SUFFICES ASSUME NEW x \in Msgs(t)
             PROVE  (x.k = "record" => x.r \in Record) /\ (x.k = "copy" => x.n \in Copy)
  OBVIOUS
<1>1. x \in Msg
  BY DEF Types, Msgs
<1> QED
  BY <1>1, Kinds

\* A thread goes to another place.
LEMMA StepTo ==
  ASSUME Types, NEW t \in Thread, NEW label \in Label, NEW l, Step(t, label, l)
  PROVE  /\ pc' \in [Thread -> Label] /\ loc' = [u \in Thread |-> loc'[u]]
         /\ pc'[t] = label /\ loc'[t] = l
  BY DEF Types, Step

\* A queue nobody touches.
LEMMA QueueSame ==
  ASSUME NEW t \in Thread, Sorted(t), Closing(t), UNCHANGED q
  PROVE  /\ Msgs(t)' = Msgs(t) /\ Sorted(t)' /\ Closing(t)'
         /\ \A e \in Event : Records(t, e)' = Records(t, e)
  BY DEF Msgs, Records, Sorted, Closing

\* A request is appended to those of a thread that waits for none.
LEMMA QueueSend ==
  ASSUME Types, NEW t \in Thread, NEW m \in Msg, Send(t, m), Sorted(t), Closing(t),
         \A x \in Msgs(t) : ~Waits(x),
         m.k = "record" => \A x \in Msgs(t) : x.k = "record" => x.r < m.r
  PROVE  /\ q' \in [Thread -> Seq(Msg)] /\ Msgs(t)' = Msgs(t) \cup {m}
         /\ Sorted(t)' /\ Closing(t)'
<1>1. q[t] \in Seq(Msg) /\ q' \in [Thread -> Seq(Msg)] /\ q'[t] = Append(q[t], m)
  BY DEF Types, Send
<1>2. /\ Len(q[t]) \in Nat /\ Len(q'[t]) = Len(q[t]) + 1 /\ q'[t][Len(q[t]) + 1] = m
      /\ \A i \in 1 .. Len(q[t]) : q'[t][i] = q[t][i]
  BY <1>1
<1>3. \A i \in 1 .. Len(q[t]) : q[t][i] \in Msgs(t)
  BY DEF Msgs
<1>4. Msgs(t)' = Msgs(t) \cup {m}
  <2>1. \A x \in Msgs(t)' : x \in Msgs(t) \cup {m}
    BY <1>2 DEF Msgs
  <2>2. \A x \in Msgs(t) : x \in Msgs(t)'
    BY <1>2 DEF Msgs
  <2>3. m \in Msgs(t)'
    BY <1>2 DEF Msgs
  <2> QED
    BY <2>1, <2>2, <2>3
<1>5. Closing(t)'
  BY <1>2, <1>3 DEF Closing
<1>6. Sorted(t)'
  <2> SUFFICES ASSUME NEW i \in 1 .. Len(q'[t]), NEW j \in 1 .. Len(q'[t]), i < j,
                      q'[t][i].k = "record", q'[t][j].k = "record"
               PROVE  q'[t][i].r < q'[t][j].r
    BY DEF Sorted
  <2>1. i \in 1 .. Len(q[t]) /\ (j \in 1 .. Len(q[t]) \/ j = Len(q[t]) + 1)
    BY <1>2
  <2> QED
    BY <1>2, <1>3, <2>1 DEF Sorted
<1> QED
  BY <1>1, <1>4, <1>5, <1>6

\* The server takes the oldest request.
LEMMA QueuePop ==
  ASSUME Types, NEW t \in Thread, q[t] # <<>>, Pop(t), Sorted(t), Closing(t)
  PROVE  /\ q' \in [Thread -> Seq(Msg)] /\ Head(q[t]) \in Msg /\ Head(q[t]) \in Msgs(t)
         /\ \A x \in Msgs(t)' : x \in Msgs(t)
         /\ \A x \in Msgs(t) : x = Head(q[t]) \/ x \in Msgs(t)'
         /\ Sorted(t)' /\ Closing(t)'
         /\ Waits(Head(q[t])) => Msgs(t)' = {} /\ \A x \in Msgs(t) : x = Head(q[t])
         /\ Head(q[t]).k = "record" => \A x \in Msgs(t)' : x.k = "record" => Head(q[t]).r < x.r
<1>1. q[t] \in Seq(Msg) /\ q' \in [Thread -> Seq(Msg)] /\ q'[t] = Tail(q[t])
  BY DEF Types, Pop
<1>2. PICK n \in Nat : n = Len(q[t]) /\ n >= 1
  <2>1. Len(q[t]) \in Nat
    BY <1>1
  <2>2. Len(q[t]) # 0
    BY <1>1, EmptySeq
  <2> QED
    BY <2>1, <2>2
<1>3. Len(q'[t]) = n - 1 /\ \A i \in 1 .. n - 1 : q'[t][i] = q[t][i + 1]
  BY <1>1, <1>2
<1>4. Head(q[t]) = q[t][1] /\ Head(q[t]) \in Msg
  BY <1>1, <1>2
<1>5. Head(q[t]) \in Msgs(t)
  BY <1>2, <1>4 DEF Msgs
<1>6. ASSUME NEW x \in Msgs(t)'
      PROVE  x \in Msgs(t)
  <2>1. PICK i \in 1 .. n - 1 : x = q'[t][i]
    BY <1>3, <1>6 DEF Msgs
  <2>2. x = q[t][i + 1] /\ i + 1 \in 1 .. Len(q[t])
    BY <1>2, <1>3, <2>1
  <2> QED
    BY <2>2 DEF Msgs
<1>7. ASSUME NEW x \in Msgs(t)
      PROVE  x = Head(q[t]) \/ x \in Msgs(t)'
  <2>1. PICK i \in 1 .. n : x = q[t][i]
    BY <1>2, <1>7 DEF Msgs
  <2>2. CASE i = 1
    BY <1>4, <2>1, <2>2
  <2>3. CASE i # 1
    <3>1. i - 1 \in 1 .. Len(q'[t]) /\ q'[t][i - 1] = x
      BY <1>2, <1>3, <2>1, <2>3
    <3> QED
      BY <3>1 DEF Msgs
  <2> QED
    BY <2>2, <2>3
<1>8. Sorted(t)'
  <2> SUFFICES ASSUME NEW i \in 1 .. Len(q'[t]), NEW j \in 1 .. Len(q'[t]), i < j,
                      q'[t][i].k = "record", q'[t][j].k = "record"
               PROVE  q'[t][i].r < q'[t][j].r
    BY DEF Sorted
  <2>1. /\ i + 1 \in 1 .. Len(q[t]) /\ j + 1 \in 1 .. Len(q[t]) /\ i + 1 < j + 1
        /\ q'[t][i] = q[t][i + 1] /\ q'[t][j] = q[t][j + 1]
    BY <1>2, <1>3
  <2> QED
    BY <2>1 DEF Sorted
<1>9. Closing(t)'
  <2> SUFFICES ASSUME NEW i \in 1 .. Len(q'[t]), Waits(q'[t][i])
               PROVE  i = Len(q'[t])
    BY DEF Closing
  <2>1. i + 1 \in 1 .. Len(q[t]) /\ q'[t][i] = q[t][i + 1]
    BY <1>2, <1>3
  <2>2. i + 1 = Len(q[t])
    BY <2>1 DEF Closing
  <2> QED
    BY <1>2, <1>3, <2>1, <2>2
<1>10. ASSUME Waits(Head(q[t]))
       PROVE  Msgs(t)' = {} /\ \A x \in Msgs(t) : x = Head(q[t])
  <2>1. 1 \in 1 .. Len(q[t]) /\ Waits(q[t][1])
    BY <1>2, <1>4, <1>10 DEF Waits
  <2>2. n = 1
    BY <1>2, <2>1 DEF Closing
  <2>3. Msgs(t)' = {}
    BY <1>3, <2>2 DEF Msgs
  <2> QED
    BY <1>7, <2>3
<1>11. ASSUME Head(q[t]).k = "record", NEW x \in Msgs(t)', x.k = "record"
       PROVE  Head(q[t]).r < x.r
  <2>1. PICK i \in 1 .. n - 1 : x = q'[t][i]
    BY <1>3, <1>11 DEF Msgs
  <2>2. x = q[t][i + 1] /\ i + 1 \in 1 .. Len(q[t]) /\ 1 < i + 1 /\ 1 \in 1 .. Len(q[t])
    BY <1>2, <1>3, <2>1
  <2> QED
    BY <1>4, <1>11, <2>2 DEF Sorted
<1> QED
  BY <1>1, <1>5, <1>6, <1>7, <1>8, <1>9, <1>10, <1>11

\* cuEventRecord takes the next number.
LEMMA RecordSeqInv ==
  ASSUME OneThread, IInv, NEW t \in Thread, NEW e \in Event, NEW s \in Stream, RecordSeq(t, e, s)
  PROVE  IInv'
<1>1. /\ Types /\ Table /\ Drained /\ Locals(t) /\ Sorted(t) /\ Closing(t) /\ Waiting(t) /\ Numbers(t)
      /\ Latest(t) /\ Known(t) /\ Answers(t) /\ Counted(t) /\ Found(t)
      /\ \A x \in Msgs(t) : (x.k = "record" => x.r \in Record) /\ (x.k = "copy" => x.n \in Copy)
  BY Sizes DEF IInv, Local
<1>2. /\ pc[t] = "idle" /\ recordSeq < MaxRecord /\ recordSeq' = recordSeq + 1
      /\ UNCHANGED <<slots, issued, drained, q, server, lastRec, before>>
      /\ Step(t, "seq", [k |-> "record", e |-> e, s |-> s, r |-> recordSeq + 1])
  BY DEF RecordSeq
<1>3. UNCHANGED <<sub, fin, recAt, copyAt, at, delivered>> /\ recordSeq' \in Record /\ MaxRecord \in Nat
  BY <1>1, <1>2, EventAssumption DEF server, Types, Record
<1>4. /\ pc' \in [Thread -> Label] /\ loc' = [u \in Thread |-> loc'[u]] /\ pc'[t] = "seq"
      /\ loc'[t] = [k |-> "record", e |-> e, s |-> s, r |-> recordSeq + 1]
  BY <1>1, <1>2, StepTo DEF Label
<1>5. /\ Msgs(t)' = Msgs(t) /\ Sorted(t)' /\ Closing(t)'
      /\ \A y \in Event : Records(t, y)' = Records(t, y)
  BY <1>1, <1>2, <1>3, <1>4, QueueSame
<1>6. \A r : RecordDone(r)' <=> RecordDone(r)
  BY <1>1, <1>2, <1>3, <1>4 DEF RecordDone, Finished
<1>7. Types'
  BY <1>1, <1>2, <1>3, <1>4, <1>5, <1>6 DEF Types
<1>8. Table'
  BY <1>1, <1>2, <1>6 DEF Table, CompletionHonest
<1>9. Drained'
  BY <1>1, <1>2, <1>3 DEF Drained
<1>10. Locals(t)'
  BY <1>1, <1>2, <1>3, <1>4 DEF Locals, RecordMsg
<1>11. Waiting(t)'
  BY <1>1, <1>2, <1>5 DEF Waiting
<1>12. Numbers(t)'
  BY <1>1, <1>2, <1>3, <1>4, <1>5 DEF Numbers, Types, Record
<1>13. Latest(t)'
  BY <1>1, <1>2, <1>3, <1>4, <1>5, <1>6 DEF Latest
<1>14. Known(t)'
  BY <1>1, <1>2, <1>4 DEF Known
<1>15. Answers(t)'
  BY <1>1, <1>2, <1>4, <1>5 DEF Answers, Settled, Current
<1>16. Counted(t)'
  BY <1>1, <1>2, <1>3, <1>4, <1>5 DEF Counted
<1>17. Found(t)'
  BY <1>1, <1>4 DEF Found, AllSent
<1> QED
  BY <1>5, <1>7, <1>8, <1>9, <1>10, <1>11, <1>12, <1>13, <1>14, <1>15, <1>16, <1>17 DEF IInv, Local, OneThread

\* The table notes the record.
LEMMA RecordNoteInv ==
  ASSUME OneThread, IInv, NEW t \in Thread, RecordNote(t)
  PROVE  IInv'
<1>1. /\ Types /\ Table /\ Drained /\ Locals(t) /\ Sorted(t) /\ Closing(t) /\ Waiting(t) /\ Numbers(t)
      /\ Latest(t) /\ Known(t) /\ Answers(t) /\ Counted(t) /\ Found(t)
      /\ \A x \in Msgs(t) : (x.k = "record" => x.r \in Record) /\ (x.k = "copy" => x.n \in Copy)
  BY Sizes DEF IInv, Local
<1>2. /\ pc[t] = "seq" /\ Step(t, "noted", loc[t])
      /\ UNCHANGED <<recordSeq, issued, drained, q, server, lastRec, before>>
  BY DEF RecordNote
<1>3. loc[t] \in RecordMsg /\ loc[t].e \in Event /\ loc[t].s \in Stream /\ loc[t].r \in Record /\ loc[t].k = "record"
  BY <1>1, <1>2 DEF Locals, RecordMsg
<1>4. UNCHANGED <<sub, fin, recAt, copyAt, at, delivered>>
  BY <1>2 DEF server
<1>5. /\ pc' \in [Thread -> Label] /\ loc' = [u \in Thread |-> loc'[u]] /\ pc'[t] = "noted"
      /\ loc'[t] = loc[t]
  BY <1>1, <1>2, StepTo DEF Label
<1>6. /\ slots' \in [Slot -> Row]
      /\ \A i \in Slot : \/ slots'[i] = slots[i] /\ slots[i].event # loc[t].e
                         \/ /\ slots'[i].event = loc[t].e /\ slots'[i].recorded = loc[t].r
                            /\ slots[i].event = loc[t].e => slots'[i].completed = slots[i].completed
                            /\ slots[i].event # loc[t].e => slots'[i].completed = 0
      /\ \A i, j \in Slot : slots'[i].event = loc[t].e /\ slots'[j].event = loc[t].e => i = j
  <2> DEFINE mine == {i \in Slot : slots[i].event = loc[t].e}
  <2>1. loc[t].e # NoEvent /\ loc[t].r \in Nat
    BY <1>3, EventAssumption DEF NoEvent, Record
  <2>2. CASE mine # {}
    <3>1. PICK v \in Slot : slots[v].event = loc[t].e /\ slots' = [slots EXCEPT ![v].recorded = loc[t].r]
      BY <2>2 DEF RecordNote
    <3>2. \A i \in Slot \ {v} : slots'[i] = slots[i] /\ slots[i].event # loc[t].e
      BY <1>1, <2>1, <3>1 DEF Table, Types
    <3>3. PICK y : y = [slots[v] EXCEPT !.recorded = loc[t].r]
      OBVIOUS
    <3>4. slots[v] \in Row
      BY <1>1 DEF Types
    <3>5. /\ y \in Row /\ y.event = loc[t].e /\ y.recorded = loc[t].r /\ y.completed = slots[v].completed
      BY <2>1, <3>1, <3>3, <3>4 DEF Row
    <3>6. slots' = [slots EXCEPT ![v] = y]
      BY <1>1, <3>1, <3>3 DEF Types, Row
    <3>7. slots'[v] = y /\ slots' \in [Slot -> Row]
      BY <1>1, <3>5, <3>6 DEF Types
    <3> QED
      BY <3>1, <3>2, <3>5, <3>7
  <2>3. CASE mine = {}
    <3>1. PICK v, y : /\ y = [event |-> loc[t].e, recorded |-> loc[t].r, completed |-> 0]
                      /\ slots' = [slots EXCEPT ![v] = y]
      BY <2>3 DEF RecordNote
    <3>2. y \in Row /\ y.event = loc[t].e /\ y.recorded = loc[t].r /\ y.completed = 0
      BY <1>3, <2>1, <3>1 DEF Row
    <3>3. /\ slots' \in [Slot -> Row] /\ \A i \in Slot : i # v => slots'[i] = slots[i]
          /\ v \in Slot => slots'[v] = y
      BY <1>1, <3>1, <3>2 DEF Types
    <3>4. \A i \in Slot : slots[i].event # loc[t].e
      BY <2>3
    <3> QED
      BY <3>2, <3>3, <3>4
  <2> QED
    BY <2>2, <2>3
<1>7. /\ Msgs(t)' = Msgs(t) /\ Sorted(t)' /\ Closing(t)'
      /\ \A y \in Event : Records(t, y)' = Records(t, y)
  BY <1>1, <1>2, QueueSame
<1>8. \A r : RecordDone(r)' <=> RecordDone(r)
  BY <1>1, <1>4 DEF RecordDone, Finished
<1>9. Types'
  BY <1>1, <1>2, <1>4, <1>5, <1>6 DEF Types
<1>10. Table'
  <2>1. \A i, j \in Slot : slots'[i].event = slots'[j].event /\ slots'[i].event # NoEvent => i = j
    BY <1>1, <1>6 DEF Table
  <2>2. ASSUME NEW i \in Slot, slots[i].event = loc[t].e
        PROVE  slots[i].completed < loc[t].r /\ slots[i].completed \in Nat
    <3>1. slots[i].event # NoEvent
      BY <1>3, <2>2, EventAssumption DEF NoEvent
    <3>2. slots[i].recorded = lastRec[t][loc[t].e] /\ slots[i].completed <= slots[i].recorded
      BY <1>1, <1>2, <2>2, <3>1 DEF Known, Table
    <3>3. lastRec[t][loc[t].e] < loc[t].r
      BY <1>1, <1>2, <1>3 DEF Numbers
    <3>4. slots[i].completed \in Nat /\ slots[i].recorded \in Nat /\ loc[t].r \in Nat
      BY <1>1, <1>3 DEF Types, Row, Record
    <3> QED
      BY <3>2, <3>3, <3>4
  <2>3. \A i \in Slot : slots'[i].event # NoEvent => /\ slots'[i].recorded \in Record
                                                    /\ slots'[i].completed <= slots'[i].recorded
    <3> SUFFICES ASSUME NEW i \in Slot, slots'[i].event # NoEvent
                 PROVE  slots'[i].recorded \in Record /\ slots'[i].completed <= slots'[i].recorded
      OBVIOUS
    <3>1. CASE slots'[i] = slots[i]
      BY <1>1, <3>1 DEF Table
    <3>2. CASE slots'[i] # slots[i]
      BY <1>3, <1>6, <2>2, <3>2 DEF Record
    <3> QED
      BY <3>1, <3>2
  <2>4. CompletionHonest'
    <3> SUFFICES ASSUME NEW i \in Slot, slots'[i].event # NoEvent, slots'[i].recorded = slots'[i].completed
                 PROVE  RecordDone(slots[i].recorded)'
      BY DEF CompletionHonest
    <3>1. CASE slots'[i] = slots[i]
      BY <1>1, <1>8, <3>1 DEF Table, CompletionHonest
    <3>2. CASE slots'[i] # slots[i]
      BY <1>3, <1>6, <2>2, <3>2 DEF Record
    <3> QED
      BY <3>1, <3>2
  <2> QED
    BY <2>1, <2>3, <2>4 DEF Table
<1>11. Drained'
  BY <1>1, <1>2, <1>4 DEF Drained
<1>12. Locals(t)'
  BY <1>1, <1>3, <1>5 DEF Locals, RecordMsg
<1>13. Waiting(t)'
  BY <1>1, <1>2, <1>7 DEF Waiting
<1>14. Numbers(t)'
  BY <1>1, <1>2, <1>4, <1>5, <1>7 DEF Numbers
<1>15. Latest(t)'
  BY <1>1, <1>2, <1>4, <1>5, <1>7 DEF Latest
<1>16. Known(t)'
  BY <1>1, <1>2, <1>5, <1>6 DEF Known
<1>17. Answers(t)'
  BY <1>1, <1>2, <1>5, <1>7 DEF Answers, Settled, Current
<1>18. Counted(t)'
  BY <1>1, <1>2, <1>4, <1>5, <1>7 DEF Counted
<1>19. Found(t)'
  BY <1>1, <1>5 DEF Found, AllSent
<1> QED
  BY <1>7, <1>9, <1>10, <1>11, <1>12, <1>13, <1>14, <1>15, <1>16, <1>17, <1>18, <1>19 DEF IInv, Local, OneThread

\* The record is sent.
LEMMA RecordSendInv ==
  ASSUME OneThread, IInv, NEW t \in Thread, RecordSend(t)
  PROVE  IInv'
<1>1. /\ Types /\ Table /\ Drained /\ Locals(t) /\ Sorted(t) /\ Closing(t) /\ Waiting(t) /\ Numbers(t)
      /\ Latest(t) /\ Known(t) /\ Answers(t) /\ Counted(t) /\ Found(t)
      /\ \A x \in Msgs(t) : (x.k = "record" => x.r \in Record) /\ (x.k = "copy" => x.n \in Copy)
  BY Sizes DEF IInv, Local
<1>2. /\ pc[t] = "noted" /\ Send(t, loc[t]) /\ Step(t, "idle", Idle) /\ UNCHANGED <<table, server>>
  BY DEF RecordSend
<1>3. PICK ev : ev = loc[t].e
  OBVIOUS
<1>4. loc[t] \in RecordMsg /\ ev \in Event /\ loc[t].s \in Stream /\ loc[t].r \in Record /\ loc[t].k = "record"
  BY <1>1, <1>2, <1>3 DEF Locals, RecordMsg
<1>5. UNCHANGED <<slots, recordSeq, issued, drained, sub, fin, recAt, copyAt, at, delivered>>
  BY <1>2 DEF table, server
<1>6. pc' \in [Thread -> Label] /\ loc' = [u \in Thread |-> loc'[u]] /\ pc'[t] = "idle"
  BY <1>1, <1>2, StepTo DEF Label
<1>7. /\ q' \in [Thread -> Seq(Msg)] /\ Msgs(t)' = Msgs(t) \cup {loc[t]} /\ Sorted(t)' /\ Closing(t)'
      /\ \A m \in Msgs(t) : ~Waits(m)
  <2>1. \A m \in Msgs(t) : ~Waits(m)
    BY <1>1, <1>2 DEF Waiting
  <2>2. loc[t] \in Msg
    BY <1>4 DEF Msg
  <2>3. \A m \in Msgs(t) : m.k = "record" => m.r < loc[t].r
    BY <1>1, <1>2 DEF Numbers
  <2> QED
    BY <1>1, <1>2, <2>1, <2>2, <2>3, QueueSend
<1>8. /\ lastRec' \in [Thread -> [Event -> Nat]] /\ lastRec'[t][ev] = loc[t].r
      /\ \A e \in Event : e # ev => lastRec'[t][e] = lastRec[t][e]
  BY <1>1, <1>3, <1>4 DEF RecordSend, Types, Record
<1>9. /\ before' \in [Thread -> [Event -> SUBSET Copy]]
      /\ \A e \in Event : \A n \in before'[t][e] : n <= issued
  <2> DEFINE B == {n \in 1..MaxCopy : \E i \in 1..Len(q[t]) :
                      q[t][i] = [k |-> "copy", s |-> loc[t].s, n |-> n]}
                  \cup {n \in 1..MaxCopy : copyAt[n].stream = loc[t].s}
  <2>1. ASSUME NEW n \in B
        PROVE  n \in Copy /\ n <= issued
    <3>1. CASE \E i \in 1..Len(q[t]) : q[t][i] = [k |-> "copy", s |-> loc[t].s, n |-> n]
      <4>1. PICK m : m \in Msgs(t) /\ m = [k |-> "copy", s |-> loc[t].s, n |-> n]
        BY <3>1 DEF Msgs
      <4> QED
        BY <1>1, <4>1 DEF Counted, Copy
    <3>2. CASE n \in Copy /\ copyAt[n].stream = loc[t].s
      <4>1. copyAt[n] # None
        BY <1>4, <3>2, EventAssumption DEF None
      <4> QED
        BY <1>1, <3>2, <4>1 DEF Counted
    <3> QED
      BY <3>1, <3>2 DEF Copy
  <2>2. before' = [before EXCEPT ![t][ev] = B]
    BY <1>3 DEF RecordSend
  <2>3. B \in SUBSET Copy
    BY <2>1
  <2> HIDE DEF B
  <2>4. /\ before' \in [Thread -> [Event -> SUBSET Copy]] /\ before'[t][ev] = B
        /\ \A e \in Event : e # ev => before'[t][e] = before[t][e]
    BY <1>1, <1>4, <2>2, <2>3 DEF Types
  <2> QED
    BY <1>1, <2>1, <2>4 DEF Counted
<1>10. /\ Records(t, ev)' = Records(t, ev) \cup {loc[t]}
      /\ \A e \in Event : e # ev => Records(t, e)' = Records(t, e)
  BY <1>3, <1>4, <1>7 DEF Records
<1>11. \A r : RecordDone(r)' <=> RecordDone(r)
  BY <1>1, <1>5 DEF RecordDone, Finished
<1>12. Types'
  BY <1>1, <1>5, <1>6, <1>7, <1>8, <1>9 DEF Types
<1>13. Table'
  BY <1>1, <1>5, <1>11 DEF Table, CompletionHonest
<1>14. Drained'
  BY <1>1, <1>5 DEF Drained
<1>15. Locals(t)'
  BY <1>1, <1>6 DEF Locals
<1>16. Waiting(t)'
  BY <1>1, <1>4, <1>7 DEF Waiting, Waits
<1>17. Numbers(t)'
  <2>1. \A m \in Msgs(t)' : m.k = "record" => m.r <= recordSeq /\ recAt[m.r] = None
    BY <1>1, <1>2, <1>4, <1>7, <1>8 DEF Numbers
  <2>2. ASSUME NEW e \in Event
        PROVE  lastRec'[t][e] <= recordSeq
    <3>1. CASE e = ev
      BY <1>1, <1>2, <1>4, <1>8, <3>1 DEF Numbers, Record
    <3>2. CASE e # ev
      BY <1>1, <1>8, <3>2 DEF Numbers
    <3> QED
      BY <3>1, <3>2
  <2> QED
    BY <1>1, <1>5, <1>6, <2>1, <2>2 DEF Numbers
<1>18. Latest(t)'
  <2>1. ASSUME NEW e \in Event
        PROVE  /\ \A m \in Records(t, e)' : m.r <= lastRec'[t][e]
               /\ Records(t, e)' # {} => \E m \in Records(t, e)' : m.r = lastRec'[t][e]
               /\ Records(t, e)' = {} => at'[e] = lastRec'[t][e]
    <3>1. CASE e # ev
      BY <1>1, <1>3, <1>5, <1>8, <1>10, <3>1 DEF Latest
    <3>2. CASE e = ev
      <4>1. \A m \in Records(t, e) : m.r < loc[t].r /\ m.r \in Nat
        <5> SUFFICES ASSUME NEW m \in Records(t, e)
                     PROVE  m.r < loc[t].r /\ m.r \in Nat
          OBVIOUS
        <5>1. m \in Msgs(t) /\ m.k = "record"
          BY DEF Records
        <5>2. m \in Msg
          BY <1>1, <5>1 DEF Types, Msgs
        <5> QED
          BY <1>1, <1>2, <5>1, <5>2, Kinds DEF Numbers, Record
      <4> QED
        BY <1>4, <1>8, <1>10, <3>2, <4>1 DEF Record
    <3> QED
      BY <3>1, <3>2
  <2> QED
    BY <1>6, <2>1 DEF Latest
<1>19. Known(t)'
  <2> SUFFICES ASSUME NEW i \in Slot, slots[i].event # NoEvent
               PROVE  slots[i].recorded = lastRec'[t][slots[i].event]
    BY <1>5, <1>6 DEF Known
  <2>1. slots[i].event \in Event
    BY <1>1 DEF Types, Row
  <2>2. CASE slots[i].event = ev
    BY <1>1, <1>2, <1>3, <1>8, <2>2 DEF Known
  <2>3. CASE slots[i].event # ev
    BY <1>1, <1>3, <1>8, <2>1, <2>3 DEF Known
  <2> QED
    BY <2>2, <2>3
<1>20. Answers(t)'
  BY <1>1, <1>4, <1>6, <1>7 DEF Answers, Settled, Current, Waits
<1>21. Counted(t)'
  BY <1>1, <1>2, <1>4, <1>5, <1>6, <1>7, <1>9 DEF Counted
<1>22. Found(t)'
  BY <1>1, <1>6 DEF Found, AllSent
<1> QED
  BY <1>7, <1>12, <1>13, <1>14, <1>15, <1>16, <1>17, <1>18, <1>19, <1>20, <1>21, <1>22 DEF IInv, Local, OneThread

\* A copy is counted.
LEMMA CopyNoteInv ==
  ASSUME OneThread, IInv, NEW t \in Thread, NEW s \in Stream, CopyNote(t, s)
  PROVE  IInv'
<1>1. /\ Types /\ Table /\ Drained /\ Locals(t) /\ Sorted(t) /\ Closing(t) /\ Waiting(t) /\ Numbers(t)
      /\ Latest(t) /\ Known(t) /\ Answers(t) /\ Counted(t) /\ Found(t)
      /\ \A x \in Msgs(t) : (x.k = "record" => x.r \in Record) /\ (x.k = "copy" => x.n \in Copy)
  BY Sizes DEF IInv, Local
<1>2. /\ pc[t] = "idle" /\ issued < MaxCopy /\ issued' = issued + 1
      /\ UNCHANGED <<slots, recordSeq, drained, q, server, lastRec, before>>
      /\ Step(t, "copying", [k |-> "copy", s |-> s, n |-> issued + 1])
  BY DEF CopyNote
<1>3. UNCHANGED <<sub, fin, recAt, copyAt, at, delivered>> /\ issued' \in Copy /\ MaxCopy \in Nat
  BY <1>1, <1>2, EventAssumption DEF server, Types, Copy
<1>4. /\ pc' \in [Thread -> Label] /\ loc' = [u \in Thread |-> loc'[u]] /\ pc'[t] = "copying"
      /\ loc'[t] = [k |-> "copy", s |-> s, n |-> issued + 1]
  BY <1>1, <1>2, StepTo DEF Label
<1>5. /\ Msgs(t)' = Msgs(t) /\ Sorted(t)' /\ Closing(t)'
      /\ \A y \in Event : Records(t, y)' = Records(t, y)
  BY <1>1, <1>2, <1>3, <1>4, QueueSame
<1>6. \A r : RecordDone(r)' <=> RecordDone(r)
  BY <1>1, <1>2, <1>3, <1>4 DEF RecordDone, Finished
<1>7. Types'
  BY <1>1, <1>2, <1>3, <1>4 DEF Types
<1>8. Table'
  BY <1>1, <1>2, <1>6 DEF Table, CompletionHonest
<1>9. Drained'
  BY <1>1, <1>2, <1>3 DEF Drained, Types
<1>10. Locals(t)'
  BY <1>1, <1>2, <1>3, <1>4 DEF Locals, CopyMsg
<1>11. Waiting(t)'
  BY <1>1, <1>2, <1>5 DEF Waiting
<1>12. Numbers(t)'
  BY <1>1, <1>2, <1>3, <1>4, <1>5 DEF Numbers
<1>13. Latest(t)'
  BY <1>1, <1>2, <1>3, <1>4, <1>5 DEF Latest
<1>14. Known(t)'
  BY <1>1, <1>2, <1>4 DEF Known
<1>15. Answers(t)'
  BY <1>1, <1>2, <1>4, <1>5 DEF Answers, Settled, Current
<1>16. Counted(t)'
  <2>1. \A n \in 1 .. issued' : n \in 1 .. issued \/ n = issued + 1
    BY <1>1, <1>2 DEF Types
  <2>2. \A n \in Nat : n <= issued => n <= issued'
    BY <1>1, <1>2 DEF Types
  <2>3. \A n \in 1 .. issued' : \/ copyAt[n] # None
                                \/ pc'[t] = "copying" /\ loc'[t].n = n
                                \/ \E m \in Msgs(t) : m.k = "copy" /\ m.n = n
    BY <1>1, <1>2, <1>4, <2>1 DEF Counted
  <2>4. \A m \in Msgs(t) : m.k = "copy" => m.n \in Copy
    <3> SUFFICES ASSUME NEW m \in Msgs(t), m.k = "copy"
                 PROVE  m.n \in Copy
      OBVIOUS
    <3>1. m \in Msg
      BY <1>1 DEF Types, Msgs
    <3> QED
      BY <3>1, Kinds
  <2>5. \A e \in Event : \A n \in before[t][e] : n \in Nat
    BY <1>1 DEF Types, Copy
  <2> QED
    BY <1>1, <1>2, <1>3, <1>4, <1>5, <2>2, <2>3, <2>5 DEF Counted, Copy
<1>17. Found(t)'
  BY <1>4 DEF Found
<1> QED
  BY <1>5, <1>7, <1>8, <1>9, <1>10, <1>11, <1>12, <1>13, <1>14, <1>15, <1>16, <1>17 DEF IInv, Local, OneThread

\* The copy is sent.
LEMMA CopySendInv ==
  ASSUME OneThread, IInv, NEW t \in Thread, CopySend(t)
  PROVE  IInv'
<1>1. /\ Types /\ Table /\ Drained /\ Locals(t) /\ Sorted(t) /\ Closing(t) /\ Waiting(t) /\ Numbers(t)
      /\ Latest(t) /\ Known(t) /\ Answers(t) /\ Counted(t) /\ Found(t)
      /\ \A x \in Msgs(t) : (x.k = "record" => x.r \in Record) /\ (x.k = "copy" => x.n \in Copy)
  BY Sizes DEF IInv, Local
<1>2. /\ pc[t] = "copying" /\ Send(t, loc[t]) /\ Step(t, "idle", Idle)
      /\ UNCHANGED <<table, server, lastRec, before>>
  BY DEF CopySend
<1>3. loc[t] \in CopyMsg /\ loc[t].s \in Stream /\ loc[t].n \in Copy /\ loc[t].k = "copy"
  BY <1>1, <1>2 DEF Locals, CopyMsg
<1>4. UNCHANGED <<slots, recordSeq, issued, drained, sub, fin, recAt, copyAt, at, delivered>>
  BY <1>2 DEF table, server
<1>5. pc' \in [Thread -> Label] /\ loc' = [u \in Thread |-> loc'[u]] /\ pc'[t] = "idle"
  BY <1>1, <1>2, StepTo DEF Label
<1>6. /\ q' \in [Thread -> Seq(Msg)] /\ Msgs(t)' = Msgs(t) \cup {loc[t]} /\ Sorted(t)' /\ Closing(t)'
      /\ \A x \in Msgs(t) : ~Waits(x)
  <2>1. \A x \in Msgs(t) : ~Waits(x)
    BY <1>1, <1>2 DEF Waiting
  <2>2. loc[t] \in Msg
    BY <1>3 DEF Msg
  <2> QED
    BY <1>1, <1>2, <1>3, <2>1, <2>2, QueueSend
<1>7. \A e \in Event : Records(t, e)' = Records(t, e)
  BY <1>3, <1>6 DEF Records
<1>8. \A r : RecordDone(r)' <=> RecordDone(r)
  BY <1>1, <1>4 DEF RecordDone, Finished
<1>9. Types'
  BY <1>1, <1>2, <1>4, <1>5, <1>6 DEF Types
<1>10. Table'
  BY <1>1, <1>4, <1>8 DEF Table, CompletionHonest
<1>11. Drained'
  BY <1>1, <1>4 DEF Drained
<1>12. Locals(t)'
  BY <1>1, <1>5 DEF Locals
<1>13. Waiting(t)'
  BY <1>1, <1>3, <1>6 DEF Waiting, Waits
<1>14. Numbers(t)'
  BY <1>1, <1>2, <1>3, <1>4, <1>5, <1>6 DEF Numbers
<1>15. Latest(t)'
  BY <1>1, <1>2, <1>4, <1>5, <1>7 DEF Latest
<1>16. Known(t)'
  BY <1>1, <1>2, <1>4, <1>5 DEF Known
<1>17. Answers(t)'
  BY <1>1, <1>3, <1>5, <1>6 DEF Answers, Settled, Current, Waits
<1>18. Counted(t)'
  BY <1>1, <1>2, <1>3, <1>4, <1>5, <1>6 DEF Counted
<1>19. Found(t)'
  BY <1>1, <1>5 DEF Found, AllSent
<1> QED
  BY <1>6, <1>9, <1>10, <1>11, <1>12, <1>13, <1>14, <1>15, <1>16, <1>17, <1>18, <1>19 DEF IInv, Local, OneThread

\* cuEventQuery compares the copy counters.
LEMMA QueryLoadInv ==
  ASSUME OneThread, IInv, NEW t \in Thread, NEW e \in Event, QueryLoad(t, e)
  PROVE  IInv'
<1>1. /\ Types /\ Table /\ Drained /\ Locals(t) /\ Sorted(t) /\ Closing(t) /\ Waiting(t) /\ Numbers(t)
      /\ Latest(t) /\ Known(t) /\ Answers(t) /\ Counted(t) /\ Found(t)
      /\ \A x \in Msgs(t) : (x.k = "record" => x.r \in Record) /\ (x.k = "copy" => x.n \in Copy)
  BY Sizes DEF IInv, Local
<1>2. /\ pc[t] = "idle" /\ UNCHANGED <<table, q, server, lastRec, before>>
      /\ Step(t, "loaded", [k |-> "query", e |-> e, pending |-> issued # drained])
  BY DEF QueryLoad
<1>3. UNCHANGED <<slots, recordSeq, issued, drained, sub, fin, recAt, copyAt, at, delivered>>
  BY <1>2 DEF table, server
<1>4. /\ pc' \in [Thread -> Label] /\ loc' = [u \in Thread |-> loc'[u]] /\ pc'[t] = "loaded"
      /\ loc'[t] = [k |-> "query", e |-> e, pending |-> issued # drained]
  BY <1>1, <1>2, StepTo DEF Label
<1>5. /\ Msgs(t)' = Msgs(t) /\ Sorted(t)' /\ Closing(t)'
      /\ \A y \in Event : Records(t, y)' = Records(t, y)
  BY <1>1, <1>2, <1>3, <1>4, QueueSame
<1>6. \A r : RecordDone(r)' <=> RecordDone(r)
  BY <1>1, <1>2, <1>3, <1>4 DEF RecordDone, Finished
<1>7. Types'
  BY <1>1, <1>2, <1>3, <1>4 DEF Types
<1>8. Table'
  BY <1>1, <1>3, <1>6 DEF Table, CompletionHonest
<1>9. Drained'
  BY <1>1, <1>3 DEF Drained
<1>10. Locals(t)'
  BY <1>1, <1>4 DEF Locals
<1>11. Waiting(t)'
  BY <1>1, <1>2, <1>5 DEF Waiting
<1>12. Numbers(t)'
  BY <1>1, <1>2, <1>3, <1>4, <1>5 DEF Numbers
<1>13. Latest(t)'
  BY <1>1, <1>2, <1>3, <1>4, <1>5 DEF Latest
<1>14. Known(t)'
  BY <1>1, <1>2, <1>3, <1>4 DEF Known
<1>15. Answers(t)'
  BY <1>1, <1>2, <1>4, <1>5 DEF Answers, Settled, Current
<1>16. Counted(t)'
  BY <1>1, <1>2, <1>3, <1>4, <1>5 DEF Counted
<1>17. Found(t)'
  <2>1. loc'[t].pending = (issued # drained)
    BY <1>4
  <2>2. loc'[t].pending \/ issued' = drained'
    BY <1>3, <2>1
  <2> QED
    BY <1>4, <2>2 DEF Found
<1> QED
  BY <1>5, <1>7, <1>8, <1>9, <1>10, <1>11, <1>12, <1>13, <1>14, <1>15, <1>16, <1>17 DEF IInv, Local, OneThread

\* A completed event is answered at once, or the batch is put together.
LEMMA QueryCollectInv ==
  ASSUME OneThread, IInv, NEW t \in Thread, QueryCollect(t)
  PROVE  IInv'
<1>1. /\ Types /\ Table /\ Drained /\ Locals(t) /\ Sorted(t) /\ Closing(t) /\ Waiting(t) /\ Numbers(t)
      /\ Latest(t) /\ Known(t) /\ Answers(t) /\ Counted(t) /\ Found(t)
      /\ \A x \in Msgs(t) : (x.k = "record" => x.r \in Record) /\ (x.k = "copy" => x.n \in Copy)
  BY Sizes DEF IInv, Local
<1>2. pc[t] = "loaded" /\ UNCHANGED <<table, q, server, lastRec, before>>
  BY DEF QueryCollect
<1>3. UNCHANGED <<slots, recordSeq, issued, drained, sub, fin, recAt, copyAt, at, delivered>>
  BY <1>2 DEF table, server
<1>4. loc[t].e \in Event
  BY <1>1, <1>2 DEF Locals
<1>5. /\ pc' \in [Thread -> Label] /\ loc' = [u \in Thread |-> loc'[u]]
      /\ \/ pc'[t] = "answered" /\ loc'[t].e = loc[t].e /\ ~loc[t].pending /\ Settled(t, loc[t].e)
         \/ pc'[t] = "collected" /\ loc'[t] \in QueryMsg /\ \A a \in Batched(loc'[t]) : Current(t, a)
  <2>1. PICK e, mine, r, others :
          /\ e = loc[t].e /\ mine = {i \in Slot : slots[i].event = e}
          /\ r = (IF mine = {} THEN 0 ELSE slots[CHOOSE i \in mine : TRUE].recorded)
          /\ others = {[e |-> slots[i].event, r |-> slots[i].recorded] : i \in Companions(e)}
          /\ IF (\E i \in mine : slots[i].recorded = slots[i].completed) /\ ~loc[t].pending
               THEN Step(t, "answered", [k |-> "query", e |-> e])
               ELSE Step(t, "collected", [k |-> "query", e |-> e, r |-> r, others |-> others])
    BY DEF QueryCollect
  <2>2. \A i \in Slot : slots[i].event # NoEvent =>
          slots[i].recorded = lastRec[t][slots[i].event] /\ slots[i].event \in Event /\ slots[i].recorded \in Nat
    BY <1>1, <1>2 DEF Known, Types, Row
  <2>3. e \in Event /\ e # NoEvent
    BY <1>4, <2>1, EventAssumption DEF NoEvent
  <2>4. CASE (\E i \in mine : slots[i].recorded = slots[i].completed) /\ ~loc[t].pending
    <3>1. PICK i \in Slot : slots[i].event = e /\ slots[i].recorded = slots[i].completed
      BY <2>1, <2>4
    <3>2. RecordDone(slots[i].recorded)
      BY <1>1, <2>3, <3>1 DEF Table, CompletionHonest
    <3>3. Settled(t, e)
      BY <2>2, <2>3, <3>1, <3>2 DEF Settled
    <3>4. Step(t, "answered", [k |-> "query", e |-> e])
      BY <2>1, <2>4
    <3> QED
      BY <1>1, <2>1, <2>4, <3>3, <3>4, StepTo DEF Label
  <2>5. CASE ~((\E i \in mine : slots[i].recorded = slots[i].completed) /\ ~loc[t].pending)
    <3>1. r = 0 \/ (r = lastRec[t][e] /\ r \in Nat)
      BY <2>1, <2>2, <2>3
    <3>2. \A a \in others : a \in Asked /\ Current(t, a)
      <4> SUFFICES ASSUME NEW a \in others
                   PROVE  a \in Asked /\ Current(t, a)
        OBVIOUS
      <4>1. PICK i \in Slot : slots[i].event # NoEvent /\ a = [e |-> slots[i].event, r |-> slots[i].recorded]
        BY <2>1 DEF Companions, Outstanding
      <4> QED
        BY <2>2, <4>1 DEF Asked, Current
    <3>3. PICK l : l = [k |-> "query", e |-> e, r |-> r, others |-> others]
      OBVIOUS
    <3>4. Step(t, "collected", l)
      BY <2>1, <2>5, <3>3
    <3>5. l \in QueryMsg /\ l.e = e /\ l.r = r /\ l.others = others
      BY <2>3, <3>1, <3>2, <3>3 DEF QueryMsg
    <3>6. \A a \in Batched(l) : Current(t, a)
      BY <3>1, <3>2, <3>5 DEF Batched, Current
    <3> QED
      BY <1>1, <3>4, <3>5, <3>6, StepTo DEF Label
  <2> QED
    BY <2>4, <2>5
<1>6. /\ Msgs(t)' = Msgs(t) /\ Sorted(t)' /\ Closing(t)'
      /\ \A y \in Event : Records(t, y)' = Records(t, y)
  BY <1>1, <1>2, <1>3, <1>4, <1>5, QueueSame
<1>7. \A r : RecordDone(r)' <=> RecordDone(r)
  BY <1>1, <1>2, <1>3, <1>4, <1>5 DEF RecordDone, Finished
<1>8. Types'
  BY <1>1, <1>2, <1>3, <1>5 DEF Types
<1>9. Table'
  BY <1>1, <1>3, <1>7 DEF Table, CompletionHonest
<1>10. Drained'
  BY <1>1, <1>3 DEF Drained
<1>11. Locals(t)'
  BY <1>1, <1>4, <1>5 DEF Locals
<1>12. Waiting(t)'
  BY <1>1, <1>2, <1>6 DEF Waiting
<1>13. Numbers(t)'
  BY <1>1, <1>2, <1>3, <1>5, <1>6 DEF Numbers
<1>14. Latest(t)'
  BY <1>1, <1>2, <1>3, <1>5, <1>6 DEF Latest
<1>15. Known(t)'
  BY <1>1, <1>2, <1>3, <1>5 DEF Known
<1>16. Answers(t)'
  BY <1>1, <1>2, <1>5, <1>6, <1>7 DEF Answers, Settled, Current
<1>17. Counted(t)'
  BY <1>1, <1>2, <1>3, <1>5, <1>6 DEF Counted
<1>18. Found(t)'
  BY <1>1, <1>2, <1>3, <1>5 DEF Found, AllSent, Drained
<1> QED
  BY <1>6, <1>8, <1>9, <1>10, <1>11, <1>12, <1>13, <1>14, <1>15, <1>16, <1>17, <1>18 DEF IInv, Local, OneThread

\* The query is sent.
LEMMA QuerySendInv ==
  ASSUME OneThread, IInv, NEW t \in Thread, QuerySend(t)
  PROVE  IInv'
<1>1. /\ Types /\ Table /\ Drained /\ Locals(t) /\ Sorted(t) /\ Closing(t) /\ Waiting(t) /\ Numbers(t)
      /\ Latest(t) /\ Known(t) /\ Answers(t) /\ Counted(t) /\ Found(t)
      /\ \A x \in Msgs(t) : (x.k = "record" => x.r \in Record) /\ (x.k = "copy" => x.n \in Copy)
  BY Sizes DEF IInv, Local
<1>2. /\ pc[t] = "collected" /\ Send(t, loc[t]) /\ UNCHANGED <<table, server, lastRec, before>>
      /\ Step(t, "asked", [k |-> "query", e |-> loc[t].e, sample |-> issued])
  BY DEF QuerySend
<1>3. loc[t] \in QueryMsg /\ loc[t].e \in Event /\ loc[t].k = "query"
  BY <1>1, <1>2 DEF Locals, QueryMsg
<1>4. UNCHANGED <<slots, recordSeq, issued, drained, sub, fin, recAt, copyAt, at, delivered>> /\ issued \in Nat
  BY <1>1, <1>2 DEF table, server, Types
<1>5. /\ pc' \in [Thread -> Label] /\ loc' = [u \in Thread |-> loc'[u]] /\ pc'[t] = "asked"
      /\ loc'[t] = [k |-> "query", e |-> loc[t].e, sample |-> issued]
  BY <1>1, <1>2, StepTo DEF Label
<1>6. /\ q' \in [Thread -> Seq(Msg)] /\ Msgs(t)' = Msgs(t) \cup {loc[t]} /\ Sorted(t)' /\ Closing(t)'
      /\ \A x \in Msgs(t) : ~Waits(x)
  <2>1. \A x \in Msgs(t) : ~Waits(x)
    BY <1>1, <1>2 DEF Waiting
  <2>2. loc[t] \in Msg
    BY <1>3 DEF Msg
  <2> QED
    BY <1>1, <1>2, <1>3, <2>1, <2>2, QueueSend
<1>7. \A e \in Event : Records(t, e)' = Records(t, e)
  BY <1>3, <1>6 DEF Records
<1>8. \A r : RecordDone(r)' <=> RecordDone(r)
  BY <1>1, <1>4 DEF RecordDone, Finished
<1>9. Types'
  BY <1>1, <1>2, <1>4, <1>5, <1>6 DEF Types
<1>10. Table'
  BY <1>1, <1>4, <1>8 DEF Table, CompletionHonest
<1>11. Drained'
  BY <1>1, <1>4 DEF Drained
<1>12. Locals(t)'
  BY <1>1, <1>3, <1>4, <1>5 DEF Locals
<1>13. Waiting(t)'
  BY <1>1, <1>3, <1>5, <1>6 DEF Waiting, Waits
<1>14. Numbers(t)'
  BY <1>1, <1>2, <1>3, <1>4, <1>5, <1>6 DEF Numbers
<1>15. Latest(t)'
  BY <1>1, <1>2, <1>4, <1>5, <1>7 DEF Latest
<1>16. Known(t)'
  BY <1>1, <1>2, <1>4, <1>5 DEF Known
<1>17. Answers(t)'
  BY <1>1, <1>2, <1>5, <1>6 DEF Answers, Settled, Current, Waits
<1>18. Counted(t)'
  BY <1>1, <1>2, <1>3, <1>4, <1>5, <1>6 DEF Counted
<1>19. Found(t)'
  BY <1>1, <1>4, <1>5 DEF Found, AllSent
<1> QED
  BY <1>6, <1>9, <1>10, <1>11, <1>12, <1>13, <1>14, <1>15, <1>16, <1>17, <1>18, <1>19 DEF IInv, Local, OneThread

\* cuEventSynchronize is sent.
LEMMA SyncSendInv ==
  ASSUME OneThread, IInv, NEW t \in Thread, NEW e \in Event, SyncSend(t, e)
  PROVE  IInv'
<1>1. /\ Types /\ Table /\ Drained /\ Locals(t) /\ Sorted(t) /\ Closing(t) /\ Waiting(t) /\ Numbers(t)
      /\ Latest(t) /\ Known(t) /\ Answers(t) /\ Counted(t) /\ Found(t)
      /\ \A x \in Msgs(t) : (x.k = "record" => x.r \in Record) /\ (x.k = "copy" => x.n \in Copy)
  BY Sizes DEF IInv, Local
<1>2. /\ pc[t] = "idle" /\ Send(t, [k |-> "sync", e |-> e]) /\ UNCHANGED <<table, server, lastRec, before>>
      /\ Step(t, "asked", [k |-> "sync", e |-> e])
  BY DEF SyncSend
<1>3. PICK m : m = [k |-> "sync", e |-> e]
  OBVIOUS
<1>4. m \in SyncMsg /\ m.e = e /\ m.k = "sync" /\ m \in Msg
  BY <1>3 DEF SyncMsg, Msg
<1>5. UNCHANGED <<slots, recordSeq, issued, drained, sub, fin, recAt, copyAt, at, delivered>>
  BY <1>2 DEF table, server
<1>6. /\ pc' \in [Thread -> Label] /\ loc' = [u \in Thread |-> loc'[u]] /\ pc'[t] = "asked"
      /\ loc'[t] = m
  BY <1>1, <1>2, <1>3, StepTo DEF Label
<1>7. /\ q' \in [Thread -> Seq(Msg)] /\ Msgs(t)' = Msgs(t) \cup {m} /\ Sorted(t)' /\ Closing(t)'
      /\ \A x \in Msgs(t) : ~Waits(x)
  <2>1. \A x \in Msgs(t) : ~Waits(x)
    BY <1>1, <1>2 DEF Waiting
  <2> QED
    BY <1>1, <1>2, <1>3, <1>4, <2>1, QueueSend
<1>8. \A x \in Event : Records(t, x)' = Records(t, x)
  BY <1>4, <1>7 DEF Records
<1>9. \A r : RecordDone(r)' <=> RecordDone(r)
  BY <1>1, <1>5 DEF RecordDone, Finished
<1>10. Types'
  BY <1>1, <1>2, <1>5, <1>6, <1>7 DEF Types
<1>11. Table'
  BY <1>1, <1>5, <1>9 DEF Table, CompletionHonest
<1>12. Drained'
  BY <1>1, <1>5 DEF Drained
<1>13. Locals(t)'
  BY <1>1, <1>4, <1>6 DEF Locals
<1>14. Waiting(t)'
  BY <1>1, <1>4, <1>6, <1>7 DEF Waiting, Waits
<1>15. Numbers(t)'
  BY <1>1, <1>2, <1>4, <1>5, <1>6, <1>7 DEF Numbers
<1>16. Latest(t)'
  BY <1>1, <1>2, <1>5, <1>6, <1>8 DEF Latest
<1>17. Known(t)'
  BY <1>1, <1>2, <1>5, <1>6 DEF Known
<1>18. Answers(t)'
  BY <1>1, <1>4, <1>6, <1>7 DEF Answers, Settled, Current, Waits
<1>19. Counted(t)'
  BY <1>1, <1>2, <1>4, <1>5, <1>6, <1>7 DEF Counted
<1>20. Found(t)'
  BY <1>1, <1>4, <1>6 DEF Found, AllSent
<1> QED
  BY <1>7, <1>10, <1>11, <1>12, <1>13, <1>14, <1>15, <1>16, <1>17, <1>18, <1>19, <1>20 DEF IInv, Local, OneThread

\* cuEventDestroy is sent.
LEMMA DestroySendInv ==
  ASSUME OneThread, IInv, NEW t \in Thread, NEW e \in Event, DestroySend(t, e)
  PROVE  IInv'
<1>1. /\ Types /\ Table /\ Drained /\ Locals(t) /\ Sorted(t) /\ Closing(t) /\ Waiting(t) /\ Numbers(t)
      /\ Latest(t) /\ Known(t) /\ Answers(t) /\ Counted(t) /\ Found(t)
      /\ \A x \in Msgs(t) : (x.k = "record" => x.r \in Record) /\ (x.k = "copy" => x.n \in Copy)
  BY Sizes DEF IInv, Local
<1>2. /\ pc[t] = "idle" /\ Send(t, [k |-> "destroy", e |-> e]) /\ UNCHANGED <<table, server, lastRec, before>>
      /\ Step(t, "destroying", [k |-> "destroy", e |-> e])
  BY DEF DestroySend
<1>3. PICK m : m = [k |-> "destroy", e |-> e]
  OBVIOUS
<1>4. m \in DestroyMsg /\ m.e = e /\ m.k = "destroy" /\ m \in Msg
  BY <1>3 DEF DestroyMsg, Msg
<1>5. UNCHANGED <<slots, recordSeq, issued, drained, sub, fin, recAt, copyAt, at, delivered>>
  BY <1>2 DEF table, server
<1>6. /\ pc' \in [Thread -> Label] /\ loc' = [u \in Thread |-> loc'[u]] /\ pc'[t] = "destroying"
      /\ loc'[t] = m
  BY <1>1, <1>2, <1>3, StepTo DEF Label
<1>7. /\ q' \in [Thread -> Seq(Msg)] /\ Msgs(t)' = Msgs(t) \cup {m} /\ Sorted(t)' /\ Closing(t)'
      /\ \A x \in Msgs(t) : ~Waits(x)
  <2>1. \A x \in Msgs(t) : ~Waits(x)
    BY <1>1, <1>2 DEF Waiting
  <2> QED
    BY <1>1, <1>2, <1>3, <1>4, <2>1, QueueSend
<1>8. \A x \in Event : Records(t, x)' = Records(t, x)
  BY <1>4, <1>7 DEF Records
<1>9. \A r : RecordDone(r)' <=> RecordDone(r)
  BY <1>1, <1>5 DEF RecordDone, Finished
<1>10. Types'
  BY <1>1, <1>2, <1>5, <1>6, <1>7 DEF Types
<1>11. Table'
  BY <1>1, <1>5, <1>9 DEF Table, CompletionHonest
<1>12. Drained'
  BY <1>1, <1>5 DEF Drained
<1>13. Locals(t)'
  BY <1>1, <1>4, <1>6 DEF Locals
<1>14. Waiting(t)'
  BY <1>1, <1>4, <1>6, <1>7 DEF Waiting, Waits
<1>15. Numbers(t)'
  BY <1>1, <1>2, <1>4, <1>5, <1>6, <1>7 DEF Numbers
<1>16. Latest(t)'
  BY <1>1, <1>2, <1>5, <1>6, <1>8 DEF Latest
<1>17. Known(t)'
  BY <1>1, <1>2, <1>5, <1>6 DEF Known
<1>18. Answers(t)'
  BY <1>1, <1>4, <1>6, <1>7 DEF Answers, Settled, Current, Waits
<1>19. Counted(t)'
  BY <1>1, <1>2, <1>4, <1>5, <1>6, <1>7 DEF Counted
<1>20. Found(t)'
  BY <1>1, <1>6 DEF Found, AllSent
<1> QED
  BY <1>7, <1>10, <1>11, <1>12, <1>13, <1>14, <1>15, <1>16, <1>17, <1>18, <1>19, <1>20 DEF IInv, Local, OneThread

\* The results are noted in the table.
LEMMA QueryNoteInv ==
  ASSUME OneThread, IInv, NEW t \in Thread, QueryNote(t)
  PROVE  IInv'
<1>1. /\ Types /\ Table /\ Drained /\ Locals(t) /\ Sorted(t) /\ Closing(t) /\ Waiting(t) /\ Numbers(t)
      /\ Latest(t) /\ Known(t) /\ Answers(t) /\ Counted(t) /\ Found(t)
      /\ \A x \in Msgs(t) : (x.k = "record" => x.r \in Record) /\ (x.k = "copy" => x.n \in Copy)
  BY Sizes DEF IInv, Local
<1>2. pc[t] = "answer" /\ UNCHANGED <<recordSeq, issued, drained, q, server, lastRec, before>>
  BY DEF QueryNote
<1>3. UNCHANGED <<sub, fin, recAt, copyAt, at, delivered>>
  BY <1>2 DEF server
<1>4. loc[t] \in [k : {"query"}, e : Event, sample : Nat, ok : SUBSET Asked] /\ loc[t].e \in Event
  BY <1>1, <1>2 DEF Locals
<1>5. /\ pc' \in [Thread -> Label] /\ loc' = [u \in Thread |-> loc'[u]]
      /\ \/ pc'[t] = "complete" /\ loc'[t] = loc[t] /\ \E a \in loc[t].ok : a.e = loc[t].e
         \/ pc'[t] = "idle"
  BY <1>1, StepTo DEF QueryNote, Label
<1>6. /\ slots' \in [Slot -> Row]
      /\ \A i \in Slot : \/ slots'[i] = slots[i]
                         \/ /\ slots'[i].event = slots[i].event /\ slots'[i].recorded = slots[i].recorded
                            /\ slots'[i].completed = slots[i].recorded
                            /\ \E a \in loc[t].ok : a.r # 0 /\ a.e = slots[i].event /\ a.r = slots[i].recorded
  <2> SUFFICES ASSUME NEW i \in Slot
               PROVE  /\ slots'[i] \in Row
                      /\ \/ slots'[i] = slots[i]
                         \/ /\ slots'[i].event = slots[i].event /\ slots'[i].recorded = slots[i].recorded
                            /\ slots'[i].completed = slots[i].recorded
                            /\ \E a \in loc[t].ok : a.r # 0 /\ a.e = slots[i].event /\ a.r = slots[i].recorded
    BY DEF QueryNote
  <2>1. slots[i] \in Row
    BY <1>1 DEF Types
  <2>2. PICK y : y = [slots[i] EXCEPT !.completed = slots[i].recorded]
    OBVIOUS
  <2>3. /\ y \in Row /\ y.event = slots[i].event /\ y.recorded = slots[i].recorded
        /\ y.completed = slots[i].recorded
    BY <2>1, <2>2 DEF Row
  <2>4. CASE \E a \in loc[t].ok : a.r # 0 /\ a.e = slots[i].event /\ a.r = slots[i].recorded
    BY <2>2, <2>3, <2>4 DEF QueryNote
  <2>5. CASE ~\E a \in loc[t].ok : a.r # 0 /\ a.e = slots[i].event /\ a.r = slots[i].recorded
    BY <2>1, <2>5 DEF QueryNote
  <2> QED
    BY <2>4, <2>5
<1>7. /\ Msgs(t)' = Msgs(t) /\ Sorted(t)' /\ Closing(t)'
      /\ \A y \in Event : Records(t, y)' = Records(t, y)
  BY <1>1, <1>2, QueueSame
<1>8. \A r : RecordDone(r)' <=> RecordDone(r)
  BY <1>1, <1>3 DEF RecordDone, Finished
<1>9. Types'
  BY <1>1, <1>2, <1>3, <1>5, <1>6 DEF Types
<1>10. Table'
  <2>1. \A i \in Slot : slots'[i].event = slots[i].event /\ slots'[i].recorded = slots[i].recorded
    BY <1>6
  <2>2. \A i, j \in Slot : slots'[i].event = slots'[j].event /\ slots'[i].event # NoEvent => i = j
    BY <1>1, <2>1 DEF Table
  <2>3. \A i \in Slot : slots'[i].event # NoEvent => /\ slots'[i].recorded \in Record
                                                    /\ slots'[i].completed <= slots'[i].recorded
    BY <1>1, <1>6 DEF Table, Record
  <2>4. CompletionHonest'
    <3> SUFFICES ASSUME NEW i \in Slot, slots'[i].event # NoEvent, slots'[i].recorded = slots'[i].completed
                 PROVE  RecordDone(slots[i].recorded)'
      BY DEF CompletionHonest
    <3>1. CASE slots'[i] = slots[i]
      BY <1>1, <1>8, <3>1 DEF Table, CompletionHonest
    <3>2. CASE slots'[i] # slots[i]
      <4>1. PICK a \in loc[t].ok : a.r # 0 /\ a.e = slots[i].event /\ a.r = slots[i].recorded
        BY <1>6, <3>2
      <4>2. Current(t, a) /\ Settled(t, a.e)
        BY <1>1, <1>2 DEF Answers
      <4>3. RecordDone(slots[i].recorded)
        BY <4>1, <4>2 DEF Current, Settled
      <4> QED
        BY <1>8, <2>1, <4>3
    <3> QED
      BY <3>1, <3>2
  <2> QED
    BY <2>2, <2>3, <2>4 DEF Table
<1>11. Drained'
  BY <1>1, <1>2, <1>3 DEF Drained
<1>12. Locals(t)'
  BY <1>1, <1>4, <1>5 DEF Locals
<1>13. Waiting(t)'
  BY <1>1, <1>2, <1>7 DEF Waiting
<1>14. Numbers(t)'
  BY <1>1, <1>2, <1>3, <1>5, <1>7 DEF Numbers
<1>15. Latest(t)'
  BY <1>1, <1>2, <1>3, <1>5, <1>7 DEF Latest
<1>16. Known(t)'
  <2>1. \A i \in Slot : slots'[i].event = slots[i].event /\ slots'[i].recorded = slots[i].recorded
    BY <1>6
  <2> QED
    BY <1>1, <1>2, <1>5, <2>1 DEF Known
<1>17. Answers(t)'
  BY <1>1, <1>2, <1>5, <1>7, <1>8 DEF Answers, Settled, Current
<1>18. Counted(t)'
  BY <1>1, <1>2, <1>3, <1>5, <1>7 DEF Counted
<1>19. Found(t)'
  BY <1>1, <1>2, <1>3, <1>5 DEF Found, AllSent
<1> QED
  BY <1>7, <1>9, <1>10, <1>11, <1>12, <1>13, <1>14, <1>15, <1>16, <1>17, <1>18, <1>19 DEF IInv, Local, OneThread

\* The copies of the sample count as drained.
LEMMA QueryDrainedInv ==
  ASSUME OneThread, IInv, NEW t \in Thread, QueryDrained(t)
  PROVE  IInv'
<1>1. /\ Types /\ Table /\ Drained /\ Locals(t) /\ Sorted(t) /\ Closing(t) /\ Waiting(t) /\ Numbers(t)
      /\ Latest(t) /\ Known(t) /\ Answers(t) /\ Counted(t) /\ Found(t)
      /\ \A x \in Msgs(t) : (x.k = "record" => x.r \in Record) /\ (x.k = "copy" => x.n \in Copy)
  BY Sizes DEF IInv, Local
<1>2. /\ pc[t] = "complete" /\ drained' = loc[t].sample
      /\ UNCHANGED <<slots, recordSeq, issued, q, server, lastRec, before>>
      /\ Step(t, "answered", [k |-> "query", e |-> loc[t].e])
  BY DEF QueryDrained
<1>3. UNCHANGED <<sub, fin, recAt, copyAt, at, delivered>> /\ issued \in Nat
  BY <1>1, <1>2 DEF server, Types
<1>4. loc[t].e \in Event /\ loc[t].sample = issued
  BY <1>1, <1>2 DEF Locals, Found
<1>5. /\ pc' \in [Thread -> Label] /\ loc' = [u \in Thread |-> loc'[u]] /\ pc'[t] = "answered"
      /\ loc'[t] = [k |-> "query", e |-> loc[t].e]
  BY <1>1, <1>2, StepTo DEF Label
<1>6. /\ Msgs(t)' = Msgs(t) /\ Sorted(t)' /\ Closing(t)'
      /\ \A y \in Event : Records(t, y)' = Records(t, y)
  BY <1>1, <1>2, <1>3, <1>4, <1>5, QueueSame
<1>7. \A r : RecordDone(r)' <=> RecordDone(r)
  BY <1>1, <1>2, <1>3, <1>4, <1>5 DEF RecordDone, Finished
<1>8. Types'
  BY <1>1, <1>2, <1>3, <1>4, <1>5 DEF Types
<1>9. Table'
  BY <1>1, <1>2, <1>7 DEF Table, CompletionHonest
<1>10. Drained'
  BY <1>1, <1>2, <1>3 DEF Drained, Found, AllSent
<1>11. Locals(t)'
  BY <1>1, <1>4, <1>5 DEF Locals
<1>12. Waiting(t)'
  BY <1>1, <1>2, <1>6 DEF Waiting
<1>13. Numbers(t)'
  BY <1>1, <1>2, <1>3, <1>5, <1>6 DEF Numbers
<1>14. Latest(t)'
  BY <1>1, <1>2, <1>3, <1>5, <1>6 DEF Latest
<1>15. Known(t)'
  BY <1>1, <1>2, <1>5 DEF Known
<1>16. Answers(t)'
  BY <1>1, <1>2, <1>5, <1>6, <1>7 DEF Answers, Settled, Current
<1>17. Counted(t)'
  BY <1>1, <1>2, <1>3, <1>5, <1>6 DEF Counted
<1>18. Found(t)'
  BY <1>1, <1>2, <1>3, <1>5 DEF Found, AllSent
<1> QED
  BY <1>6, <1>8, <1>9, <1>10, <1>11, <1>12, <1>13, <1>14, <1>15, <1>16, <1>17, <1>18 DEF IInv, Local, OneThread

\* The call returns.
LEMMA ReturnInv ==
  ASSUME OneThread, IInv, NEW t \in Thread, Return(t)
  PROVE  IInv'
<1>1. /\ Types /\ Table /\ Drained /\ Locals(t) /\ Sorted(t) /\ Closing(t) /\ Waiting(t) /\ Numbers(t)
      /\ Latest(t) /\ Known(t) /\ Answers(t) /\ Counted(t) /\ Found(t)
      /\ \A x \in Msgs(t) : (x.k = "record" => x.r \in Record) /\ (x.k = "copy" => x.n \in Copy)
  BY Sizes DEF IInv, Local
<1>2. pc[t] = "answered" /\ UNCHANGED <<table, q, server, lastRec, before>> /\ Step(t, "idle", Idle)
  BY DEF Return
<1>3. UNCHANGED <<slots, recordSeq, issued, drained, sub, fin, recAt, copyAt, at, delivered>>
  BY <1>2 DEF table, server
<1>4. pc' \in [Thread -> Label] /\ loc' = [u \in Thread |-> loc'[u]] /\ pc'[t] = "idle"
  BY <1>1, <1>2, StepTo DEF Label
<1>5. /\ Msgs(t)' = Msgs(t) /\ Sorted(t)' /\ Closing(t)'
      /\ \A y \in Event : Records(t, y)' = Records(t, y)
  BY <1>1, <1>2, <1>3, <1>4, QueueSame
<1>6. \A r : RecordDone(r)' <=> RecordDone(r)
  BY <1>1, <1>2, <1>3, <1>4 DEF RecordDone, Finished
<1>7. Types'
  BY <1>1, <1>2, <1>3, <1>4 DEF Types
<1>8. Table'
  BY <1>1, <1>3, <1>6 DEF Table, CompletionHonest
<1>9. Drained'
  BY <1>1, <1>3 DEF Drained
<1>10. Locals(t)'
  BY <1>1, <1>4 DEF Locals
<1>11. Waiting(t)'
  BY <1>1, <1>2, <1>5 DEF Waiting
<1>12. Numbers(t)'
  BY <1>1, <1>2, <1>3, <1>4, <1>5 DEF Numbers
<1>13. Latest(t)'
  BY <1>1, <1>2, <1>3, <1>4, <1>5 DEF Latest
<1>14. Known(t)'
  BY <1>1, <1>2, <1>3, <1>4 DEF Known
<1>15. Answers(t)'
  BY <1>1, <1>2, <1>4, <1>5 DEF Answers, Settled, Current
<1>16. Counted(t)'
  BY <1>1, <1>2, <1>3, <1>4, <1>5 DEF Counted
<1>17. Found(t)'
  BY <1>1, <1>4 DEF Found, AllSent
<1> QED
  BY <1>5, <1>7, <1>8, <1>9, <1>10, <1>11, <1>12, <1>13, <1>14, <1>15, <1>16, <1>17 DEF IInv, Local, OneThread

\* The table and the history forget a destroyed event.
LEMMA DestroyNoteInv ==
  ASSUME OneThread, IInv, NEW t \in Thread, DestroyNote(t)
  PROVE  IInv'
<1>1. /\ Types /\ Table /\ Drained /\ Locals(t) /\ Sorted(t) /\ Closing(t) /\ Waiting(t) /\ Numbers(t)
      /\ Latest(t) /\ Known(t) /\ Answers(t) /\ Counted(t) /\ Found(t)
      /\ \A x \in Msgs(t) : (x.k = "record" => x.r \in Record) /\ (x.k = "copy" => x.n \in Copy)
  BY Sizes DEF IInv, Local
<1>2. /\ pc[t] = "destroyed" /\ Step(t, "idle", Idle)
      /\ UNCHANGED <<recordSeq, issued, drained, q, server>>
  BY DEF DestroyNote
<1>3. UNCHANGED <<sub, fin, recAt, copyAt, at, delivered>>
  BY <1>2 DEF server
<1>4. PICK ev : ev = loc[t].e
  OBVIOUS
<1>5. ev \in Event
  BY <1>1, <1>2, <1>4 DEF Locals, DestroyMsg
<1>6. pc' \in [Thread -> Label] /\ loc' = [u \in Thread |-> loc'[u]] /\ pc'[t] = "idle"
  BY <1>1, <1>2, StepTo DEF Label
<1>7. /\ lastRec' \in [Thread -> [Event -> Nat]] /\ lastRec'[t][ev] = 0
      /\ \A e \in Event : e # ev => lastRec'[t][e] = lastRec[t][e]
  BY <1>1, <1>4, <1>5 DEF DestroyNote, Types
<1>8. /\ before' \in [Thread -> [Event -> SUBSET Copy]] /\ before'[t][ev] = {}
      /\ \A e \in Event : e # ev => before'[t][e] = before[t][e]
  BY <1>1, <1>4, <1>5 DEF DestroyNote, Types
<1>9. /\ slots' \in [Slot -> Row]
      /\ \A i \in Slot : \/ slots'[i] = slots[i] /\ slots[i].event # ev
                         \/ slots'[i].event = NoEvent
  BY <1>1, <1>4 DEF DestroyNote, Types, EmptySlot, Row, NoEvent
<1>10. /\ Msgs(t)' = Msgs(t) /\ Sorted(t)' /\ Closing(t)'
      /\ \A y \in Event : Records(t, y)' = Records(t, y)
  BY <1>1, <1>2, QueueSame
<1>11. \A r : RecordDone(r)' <=> RecordDone(r)
  BY <1>1, <1>3 DEF RecordDone, Finished
<1>12. Types'
  BY <1>1, <1>2, <1>3, <1>6, <1>7, <1>8, <1>9 DEF Types
<1>13. Table'
  BY <1>1, <1>2, <1>4, <1>6, <1>7, <1>8, <1>9, <1>11 DEF Table, CompletionHonest, NoEvent
<1>14. Drained'
  BY <1>1, <1>2, <1>3 DEF Drained
<1>15. Locals(t)'
  BY <1>1, <1>6 DEF Locals
<1>16. Waiting(t)'
  BY <1>1, <1>2, <1>10 DEF Waiting
<1>17. Numbers(t)'
  <2>1. ASSUME NEW e \in Event
        PROVE  lastRec'[t][e] <= recordSeq
    <3>1. CASE e = ev
      BY <1>1, <1>7, <3>1 DEF Types
    <3>2. CASE e # ev
      BY <1>1, <1>7, <3>2 DEF Numbers
    <3> QED
      BY <3>1, <3>2
  <2> QED
    BY <1>1, <1>2, <1>3, <1>6, <1>10, <2>1 DEF Numbers
<1>18. Latest(t)'
  <2>1. /\ at[ev] = 0 /\ Msgs(t) = {} /\ \A e \in Event : e # ev => at[e] = lastRec[t][e]
        /\ \A e \in Event : Records(t, e) = {}
    BY <1>1, <1>2, <1>4 DEF Latest, Records
  <2>2. ASSUME NEW e \in Event
        PROVE  at[e] = lastRec'[t][e]
    BY <1>7, <2>1
  <2> QED
    BY <1>3, <1>6, <1>10, <2>1, <2>2 DEF Latest
<1>19. Known(t)'
  <2> SUFFICES ASSUME NEW i \in Slot, slots'[i].event # NoEvent
               PROVE  slots'[i].recorded = lastRec'[t][slots'[i].event]
    BY <1>6 DEF Known
  <2>1. slots'[i] = slots[i] /\ slots[i].event # ev
    BY <1>9
  <2>2. slots[i].event \in Event
    BY <1>1, <2>1 DEF Types, Row, NoEvent
  <2>3. slots[i].recorded = lastRec[t][slots[i].event]
    BY <1>1, <1>2, <2>1 DEF Known
  <2> QED
    BY <1>7, <2>1, <2>2, <2>3
<1>20. Answers(t)'
  <2>1. Msgs(t) = {}
    BY <1>1, <1>2 DEF Latest
  <2> QED
    BY <1>6, <1>10, <2>1 DEF Answers
<1>21. Counted(t)'
  BY <1>1, <1>2, <1>3, <1>6, <1>8, <1>10 DEF Counted
<1>22. Found(t)'
  BY <1>1, <1>6 DEF Found, AllSent
<1> QED
  BY <1>10, <1>12, <1>13, <1>14, <1>15, <1>16, <1>17, <1>18, <1>19, <1>20, <1>21, <1>22 DEF IInv, Local, OneThread

\* The server records the event on the stream.
LEMMA ServeRecordInv ==
  ASSUME OneThread, IInv, NEW t \in Thread, ServeRecord(t)
  PROVE  IInv'
<1>1. /\ Types /\ Table /\ Drained /\ Locals(t) /\ Sorted(t) /\ Closing(t) /\ Waiting(t) /\ Numbers(t)
      /\ Latest(t) /\ Known(t) /\ Answers(t) /\ Counted(t) /\ Found(t)
      /\ \A x \in Msgs(t) : (x.k = "record" => x.r \in Record) /\ (x.k = "copy" => x.n \in Copy)
  BY Sizes DEF IInv, Local
<1>2. q[t] # <<>> /\ Head(q[t]).k = "record" /\ Pop(t) /\ UNCHANGED <<table, pc, loc, fin, copyAt, delivered, lastRec, before>>
  BY DEF ServeRecord
<1>3. UNCHANGED <<slots, recordSeq, issued, drained>>
  BY <1>2 DEF table
<1>4. PICK m : m = Head(q[t])
  OBVIOUS
<1>5. /\ q' \in [Thread -> Seq(Msg)] /\ m \in Msg /\ m \in Msgs(t)
      /\ \A x \in Msgs(t)' : x \in Msgs(t)
      /\ \A x \in Msgs(t) : x = m \/ x \in Msgs(t)'
      /\ Sorted(t)' /\ Closing(t)'
      /\ Waits(m) => Msgs(t)' = {} /\ \A x \in Msgs(t) : x = m
      /\ m.k = "record" => \A x \in Msgs(t)' : x.k = "record" => m.r < x.r
  BY <1>1, <1>2, <1>4, QueuePop
<1>6. m.e \in Event /\ m.s \in Stream /\ m.r \in Record /\ m.k = "record"
  BY <1>2, <1>4, <1>5, Kinds
<1>7. PICK z : z = [stream |-> m.s, pos |-> sub[m.s] + 1]
  OBVIOUS
<1>8. z \in Place /\ z # None
  BY <1>1, <1>6, <1>7, EventAssumption DEF Types, Place, None
<1>9. /\ sub' = [sub EXCEPT ![m.s] = @ + 1] /\ recAt' = [recAt EXCEPT ![m.r] = z]
      /\ at' = [at EXCEPT ![m.e] = m.r]
  BY <1>4, <1>7 DEF ServeRecord
<1>10. /\ sub' \in [Stream -> Nat] /\ recAt' \in [Record -> Place] /\ at' \in [Event -> Nat]
      /\ recAt'[m.r] = z /\ \A r \in Record : r # m.r => recAt'[r] = recAt[r]
  BY <1>1, <1>6, <1>8, <1>9 DEF Types, Record
<1>11. /\ recAt[m.r] = None /\ m.r <= recordSeq
      /\ \A x \in Msgs(t)' : x.k = "record" => x.r # m.r /\ x.r \in Record
  <2>1. recAt[m.r] = None /\ m.r <= recordSeq
    BY <1>1, <1>5, <1>6 DEF Numbers
  <2>2. ASSUME NEW x \in Msgs(t)', x.k = "record"
        PROVE  x.r # m.r /\ x.r \in Record
    <3>1. x \in Msg
      BY <1>1, <1>5, <2>2 DEF Types, Msgs
    <3>2. x.r \in Record /\ m.r < x.r
      BY <1>5, <1>6, <2>2, <3>1, Kinds
    <3> QED
      BY <1>6, <3>2 DEF Record
  <2> QED
    BY <2>1, <2>2
<1>12. \A r \in Record : RecordDone(r) => RecordDone(r)'
  <2> SUFFICES ASSUME NEW r \in Record, RecordDone(r)
               PROVE  RecordDone(r)'
    OBVIOUS
  <2>1. r # m.r
    BY <1>11 DEF RecordDone
  <2> QED
    BY <1>2, <1>10, <2>1 DEF RecordDone, Finished
<1>13. at'[m.e] = m.r /\ \A e \in Event : e # m.e => at'[e] = at[e]
  BY <1>1, <1>6, <1>9 DEF Types
<1>14. Types'
  BY <1>1, <1>2, <1>3, <1>5, <1>10 DEF Types
<1>15. Table'
  BY <1>1, <1>3, <1>12 DEF Table, CompletionHonest
<1>16. Drained'
  BY <1>1, <1>2, <1>3 DEF Drained
<1>17. Locals(t)'
  BY <1>1, <1>2 DEF Locals
<1>18. Waiting(t)'
  BY <1>1, <1>2, <1>5 DEF Waiting
<1>19. Numbers(t)'
  <2>1. \A x \in Msgs(t)' : x.k = "record" => x.r <= recordSeq /\ recAt'[x.r] = None
    BY <1>1, <1>5, <1>10, <1>11 DEF Numbers
  <2>2. \A r \in Record : r > recordSeq => recAt'[r] = None
    BY <1>1, <1>6, <1>10, <1>11 DEF Numbers, Types, Record
  <2>3. pc[t] \in {"seq", "noted"} => recAt'[recordSeq] = None
    <3> SUFFICES ASSUME pc[t] \in {"seq", "noted"}
                 PROVE  recAt'[recordSeq] = None
      OBVIOUS
    <3>1. m.r < recordSeq /\ recAt[recordSeq] = None
      BY <1>1, <1>5, <1>6 DEF Numbers
    <3>2. recordSeq \in Record
      BY <1>1, <1>6, <3>1 DEF Types, Record
    <3>3. recordSeq # m.r
      BY <1>6, <3>1, <3>2 DEF Record
    <3> QED
      BY <1>10, <3>1, <3>2, <3>3
  <2> QED
    BY <1>1, <1>2, <1>3, <1>5, <2>1, <2>2, <2>3 DEF Numbers
<1>20. Latest(t)'
  <2>1. pc[t] # "destroyed"
    BY <1>1, <1>5 DEF Latest
  <2>2. ASSUME NEW e \in Event
        PROVE  /\ \A x \in Records(t, e)' : x.r <= lastRec[t][e]
               /\ Records(t, e)' # {} => \E x \in Records(t, e)' : x.r = lastRec[t][e]
               /\ Records(t, e)' = {} => at'[e] = lastRec[t][e]
    <3>1. \A x \in Records(t, e)' : x \in Records(t, e)
      BY <1>5 DEF Records
    <3>2. \A x \in Records(t, e) : x = m \/ x \in Records(t, e)'
      BY <1>5 DEF Records
    <3>3. \A x \in Records(t, e) : x.r <= lastRec[t][e]
      BY <1>1 DEF Latest
    <3>4. Records(t, e) # {} => \E x \in Records(t, e) : x.r = lastRec[t][e]
      BY <1>1 DEF Latest
    <3>5. Records(t, e) = {} => at[e] = lastRec[t][e]
      BY <1>1, <2>1 DEF Latest
    <3>6. CASE e # m.e
      <4>1. Records(t, e)' = Records(t, e)
        BY <3>1, <3>2, <3>6 DEF Records
      <4> QED
        BY <1>13, <3>3, <3>4, <3>5, <3>6, <4>1
    <3>7. CASE e = m.e
      <4>1. m \in Records(t, e)
        BY <1>5, <1>6, <3>7 DEF Records
      <4>2. PICK y \in Records(t, e) : y.r = lastRec[t][e]
        BY <3>4, <4>1
      <4>3. CASE y = m
        <5>1. Records(t, e)' = {}
          <6> SUFFICES ASSUME NEW x \in Records(t, e)'
                       PROVE  FALSE
            OBVIOUS
          <6>1. x.r \in Record /\ m.r < x.r
            BY <1>5, <1>6, <1>11 DEF Records
          <6>2. x.r <= m.r
            BY <3>1, <3>3, <4>2, <4>3
          <6> QED
            BY <1>6, <6>1, <6>2 DEF Record
        <5> QED
          BY <1>13, <3>7, <4>2, <4>3, <5>1
      <4>4. CASE y # m
        BY <3>1, <3>2, <3>3, <4>2, <4>4
      <4> QED
        BY <4>3, <4>4
    <3> QED
      BY <3>6, <3>7
  <2> QED
    BY <1>2, <2>1, <2>2 DEF Latest
<1>21. Known(t)'
  BY <1>1, <1>2, <1>3 DEF Known
<1>22. Answers(t)'
  <2>1. \A e \in Event : lastRec[t][e] # 0 => lastRec[t][e] \in Record
    BY <1>1, EventAssumption DEF Numbers, Types, Record
  <2>2. \A e \in Event : Settled(t, e) => Settled(t, e)'
    BY <1>2, <1>12, <2>1 DEF Settled
  <2>3. \A a : Current(t, a) => Current(t, a)'
    BY <1>2 DEF Current
  <2>4. /\ pc[t] \in {"answer", "complete"} => \A a \in loc[t].ok : a.e \in Event
        /\ pc[t] \in {"complete", "answered"} => loc[t].e \in Event
    BY <1>1 DEF Locals, Asked
  <2> QED
    BY <1>1, <1>2, <1>5, <2>2, <2>3, <2>4 DEF Answers
<1>23. Counted(t)'
  <2>1. \A x \in Msgs(t) : x.k = "copy" => x \in Msgs(t)'
    BY <1>5, <1>6
  <2> QED
    BY <1>1, <1>2, <1>3, <1>5, <2>1 DEF Counted
<1>24. Found(t)'
  BY <1>1, <1>2, <1>3 DEF Found, AllSent
<1> QED
  BY <1>5, <1>14, <1>15, <1>16, <1>17, <1>18, <1>19, <1>20, <1>21, <1>22, <1>23, <1>24 DEF IInv, Local, OneThread

\* The server submits the copy.
LEMMA ServeCopyInv ==
  ASSUME OneThread, IInv, NEW t \in Thread, ServeCopy(t)
  PROVE  IInv'
<1>1. /\ Types /\ Table /\ Drained /\ Locals(t) /\ Sorted(t) /\ Closing(t) /\ Waiting(t) /\ Numbers(t)
      /\ Latest(t) /\ Known(t) /\ Answers(t) /\ Counted(t) /\ Found(t)
      /\ \A x \in Msgs(t) : (x.k = "record" => x.r \in Record) /\ (x.k = "copy" => x.n \in Copy)
  BY Sizes DEF IInv, Local
<1>2. q[t] # <<>> /\ Head(q[t]).k = "copy" /\ Pop(t) /\ UNCHANGED <<table, pc, loc, fin, recAt, at, delivered, lastRec, before>>
  BY DEF ServeCopy
<1>3. UNCHANGED <<slots, recordSeq, issued, drained>>
  BY <1>2 DEF table
<1>4. PICK m : m = Head(q[t])
  OBVIOUS
<1>5. /\ q' \in [Thread -> Seq(Msg)] /\ m \in Msg /\ m \in Msgs(t)
      /\ \A x \in Msgs(t)' : x \in Msgs(t)
      /\ \A x \in Msgs(t) : x = m \/ x \in Msgs(t)'
      /\ Sorted(t)' /\ Closing(t)'
      /\ Waits(m) => Msgs(t)' = {} /\ \A x \in Msgs(t) : x = m
      /\ m.k = "record" => \A x \in Msgs(t)' : x.k = "record" => m.r < x.r
  BY <1>1, <1>2, <1>4, QueuePop
<1>6. m.s \in Stream /\ m.n \in Copy /\ m.k = "copy"
  BY <1>2, <1>4, <1>5, Kinds
<1>7. PICK z : z = [stream |-> m.s, pos |-> sub[m.s] + 1]
  OBVIOUS
<1>8. z \in Place /\ z # None
  BY <1>1, <1>6, <1>7, EventAssumption DEF Types, Place, None
<1>9. sub' = [sub EXCEPT ![m.s] = @ + 1] /\ copyAt' = [copyAt EXCEPT ![m.n] = z]
  BY <1>4, <1>7 DEF ServeCopy
<1>10. /\ sub' \in [Stream -> Nat] /\ copyAt' \in [Copy -> Place]
      /\ copyAt'[m.n] = z /\ \A n \in Copy : n # m.n => copyAt'[n] = copyAt[n]
  BY <1>1, <1>6, <1>8, <1>9 DEF Types
<1>11. \A e \in Event : Records(t, e)' = Records(t, e)
  BY <1>5, <1>6 DEF Records
<1>12. \A r : RecordDone(r)' <=> RecordDone(r)
  BY <1>1, <1>2 DEF RecordDone, Finished
<1>13. Types'
  BY <1>1, <1>2, <1>3, <1>5, <1>10 DEF Types
<1>14. Table'
  BY <1>1, <1>3, <1>11, <1>12 DEF Table, CompletionHonest
<1>15. Drained'
  BY <1>1, <1>2, <1>3 DEF Drained
<1>16. Locals(t)'
  BY <1>1, <1>2 DEF Locals
<1>17. Waiting(t)'
  BY <1>1, <1>2, <1>5 DEF Waiting
<1>18. Numbers(t)'
  BY <1>1, <1>2, <1>3, <1>5 DEF Numbers
<1>19. Latest(t)'
  BY <1>1, <1>2, <1>5, <1>11 DEF Latest
<1>20. Known(t)'
  BY <1>1, <1>2, <1>3 DEF Known
<1>21. Answers(t)'
  BY <1>1, <1>2, <1>5, <1>12 DEF Answers, Settled, Current
<1>22. Counted(t)'
  <2>1. ASSUME NEW n \in 1 .. issued
        PROVE  \/ copyAt'[n] # None
               \/ pc[t] = "copying" /\ loc[t].n = n
               \/ \E x \in Msgs(t)' : x.k = "copy" /\ x.n = n
    <3>1. n \in Copy
      BY <1>1, EventAssumption DEF Types, Copy
    <3> QED
      BY <1>1, <1>5, <1>8, <1>10, <3>1 DEF Counted
  <2>2. \A n \in Copy : copyAt'[n] # None => n <= issued
    BY <1>1, <1>5, <1>6, <1>10 DEF Counted
  <2> QED
    BY <1>1, <1>2, <1>3, <1>5, <2>1, <2>2 DEF Counted
<1>23. Found(t)'
  BY <1>1, <1>2, <1>3 DEF Found, AllSent
<1> QED
  BY <1>5, <1>13, <1>14, <1>15, <1>16, <1>17, <1>18, <1>19, <1>20, <1>21, <1>22, <1>23 DEF IInv, Local, OneThread

\* The server answers for the batch and detaches the copies.
LEMMA ServeQueryInv ==
  ASSUME OneThread, IInv, NEW t \in Thread, ServeQuery(t)
  PROVE  IInv'
<1>1. /\ Types /\ Table /\ Drained /\ Locals(t) /\ Sorted(t) /\ Closing(t) /\ Waiting(t) /\ Numbers(t)
      /\ Latest(t) /\ Known(t) /\ Answers(t) /\ Counted(t) /\ Found(t)
      /\ \A x \in Msgs(t) : (x.k = "record" => x.r \in Record) /\ (x.k = "copy" => x.n \in Copy)
  BY Sizes DEF IInv, Local
<1>2. q[t] # <<>> /\ Head(q[t]).k = "query" /\ Pop(t) /\ UNCHANGED <<table, sub, fin, recAt, copyAt, at, lastRec, before>>
  BY DEF ServeQuery
<1>3. UNCHANGED <<slots, recordSeq, issued, drained>>
  BY <1>2 DEF table
<1>4. PICK m : m = Head(q[t])
  OBVIOUS
<1>5. /\ q' \in [Thread -> Seq(Msg)] /\ m \in Msg /\ m \in Msgs(t)
      /\ \A x \in Msgs(t)' : x \in Msgs(t)
      /\ \A x \in Msgs(t) : x = m \/ x \in Msgs(t)'
      /\ Sorted(t)' /\ Closing(t)'
      /\ Waits(m) => Msgs(t)' = {} /\ \A x \in Msgs(t) : x = m
      /\ m.k = "record" => \A x \in Msgs(t)' : x.k = "record" => m.r < x.r
  BY <1>1, <1>2, <1>4, QueuePop
<1>6. /\ m \in QueryMsg /\ m.e \in Event /\ m.r \in Nat /\ m.others \subseteq Asked /\ m.k = "query"
      /\ Msgs(t)' = {} /\ \A x \in Msgs(t) : x = m
  BY <1>2, <1>4, <1>5, Kinds DEF Waits
<1>7. /\ pc[t] = "asked" /\ loc[t].e = m.e /\ loc[t].k = "query" /\ loc[t].sample = issued /\ issued \in Nat
  BY <1>1, <1>5, <1>6 DEF Waiting, Waits, Found, Types
<1>8. PICK ok : ok = {a \in Batched(m) : EventDone(a.e)}
  OBVIOUS
<1>9. Step(t, "answer", [k |-> "query", e |-> m.e, sample |-> issued, ok |-> ok])
  BY <1>4, <1>7, <1>8 DEF ServeQuery, Batched
<1>10. /\ pc' \in [Thread -> Label] /\ loc' = [u \in Thread |-> loc'[u]] /\ pc'[t] = "answer"
      /\ loc'[t] = [k |-> "query", e |-> m.e, sample |-> issued, ok |-> ok]
  BY <1>1, <1>9, StepTo DEF Label
<1>11. /\ delivered' \in [Copy -> {"no", "stale", "final"}]
      /\ \A n \in Copy : delivered[n] # "no" => delivered'[n] # "no"
  <2>1. delivered' = Detached \/ delivered' = delivered
    BY DEF ServeQuery
  <2> QED
    BY <1>1, <2>1 DEF Detached, Types, Copy
<1>12. EventDone(m.e) => \A n \in 1 .. issued : delivered'[n] # "no"
  <2> SUFFICES ASSUME EventDone(m.e), NEW n \in 1 .. issued
               PROVE  delivered'[n] # "no"
    OBVIOUS
  <2>1. n \in Copy /\ copyAt[n] # None
    BY <1>1, <1>2, <1>5, <1>6, <1>7, EventAssumption DEF Counted, Types, Copy
  <2>2. delivered' = Detached
    BY <1>4 DEF ServeQuery
  <2> QED
    BY <1>1, <2>1, <2>2 DEF Detached, Types, Copy
<1>13. \A x \in Event : at[x] = lastRec[t][x]
  <2> SUFFICES ASSUME NEW x \in Event
               PROVE  at[x] = lastRec[t][x]
    OBVIOUS
  <2>1. Records(t, x) = {}
    BY <1>6 DEF Records
  <2> QED
    BY <1>1, <1>7, <2>1 DEF Latest
<1>14. ok \subseteq Asked /\ \A a \in ok : Current(t, a) /\ EventDone(a.e) /\ a.e \in Event
  <2>1. \A a \in Batched(m) : Current(t, a)
    BY <1>1, <1>5, <1>6 DEF Answers
  <2>2. Batched(m) \subseteq Asked
    BY <1>6 DEF Batched, Asked
  <2>3. \A a \in Asked : a.e \in Event
    BY DEF Asked
  <2> QED
    BY <1>8, <2>1, <2>2, <2>3
<1>15. \A r : RecordDone(r)' <=> RecordDone(r)
  BY <1>1, <1>2 DEF RecordDone, Finished
<1>16. Types'
  BY <1>1, <1>2, <1>3, <1>5, <1>10, <1>11 DEF Types
<1>17. Table'
  BY <1>1, <1>3, <1>15 DEF Table, CompletionHonest
<1>18. Drained'
  <2>1. \A n \in 1 .. drained : n \in Copy
    BY <1>1, EventAssumption DEF Drained, Types, Copy
  <2> QED
    BY <1>1, <1>3, <1>11, <2>1 DEF Drained
<1>19. Locals(t)'
  BY <1>6, <1>7, <1>10, <1>14 DEF Locals
<1>20. Waiting(t)'
  BY <1>6 DEF Waiting
<1>21. Numbers(t)'
  BY <1>1, <1>2, <1>3, <1>6, <1>10 DEF Numbers
<1>22. Latest(t)'
  <2>1. \A e \in Event : Records(t, e)' = {}
    BY <1>6 DEF Records
  <2> QED
    BY <1>2, <1>10, <1>13, <2>1 DEF Latest
<1>23. Known(t)'
  BY <1>1, <1>2, <1>3, <1>7, <1>10 DEF Known
<1>24. Answers(t)'
  <2>1. \A a \in ok : Current(t, a)' /\ Settled(t, a.e)'
    BY <1>2, <1>13, <1>14, <1>15 DEF EventDone, Current, Settled
  <2> QED
    BY <1>6, <1>10, <2>1 DEF Answers
<1>25. Counted(t)'
  <2>1. \A n \in 1 .. issued : copyAt[n] # None
    BY <1>1, <1>6, <1>7 DEF Counted
  <2> QED
    BY <1>1, <1>2, <1>3, <1>6, <1>10, <2>1 DEF Counted
<1>26. Found(t)'
  <2>1. (\E a \in ok : a.e = m.e) => \A n \in 1 .. issued : delivered'[n] # "no"
    BY <1>12, <1>14
  <2> QED
    BY <1>3, <1>10, <2>1 DEF Found, AllSent
<1> QED
  BY <1>5, <1>16, <1>17, <1>18, <1>19, <1>20, <1>21, <1>22, <1>23, <1>24, <1>25, <1>26 DEF IInv, Local, OneThread

\* The server waits for the event and detaches the copies.
LEMMA ServeSyncInv ==
  ASSUME OneThread, IInv, NEW t \in Thread, ServeSync(t)
  PROVE  IInv'
<1>1. /\ Types /\ Table /\ Drained /\ Locals(t) /\ Sorted(t) /\ Closing(t) /\ Waiting(t) /\ Numbers(t)
      /\ Latest(t) /\ Known(t) /\ Answers(t) /\ Counted(t) /\ Found(t)
      /\ \A x \in Msgs(t) : (x.k = "record" => x.r \in Record) /\ (x.k = "copy" => x.n \in Copy)
  BY Sizes DEF IInv, Local
<1>2. /\ q[t] # <<>> /\ Head(q[t]).k = "sync" /\ Pop(t) /\ UNCHANGED <<table, sub, fin, recAt, copyAt, at, lastRec, before>>
      /\ Step(t, "answered", loc[t]) /\ EventDone(Head(q[t]).e)
  BY DEF ServeSync
<1>3. UNCHANGED <<slots, recordSeq, issued, drained>>
  BY <1>2 DEF table
<1>4. PICK m : m = Head(q[t])
  OBVIOUS
<1>5. /\ q' \in [Thread -> Seq(Msg)] /\ m \in Msg /\ m \in Msgs(t)
      /\ \A x \in Msgs(t)' : x \in Msgs(t)
      /\ \A x \in Msgs(t) : x = m \/ x \in Msgs(t)'
      /\ Sorted(t)' /\ Closing(t)'
      /\ Waits(m) => Msgs(t)' = {} /\ \A x \in Msgs(t) : x = m
      /\ m.k = "record" => \A x \in Msgs(t)' : x.k = "record" => m.r < x.r
  BY <1>1, <1>2, <1>4, QueuePop
<1>6. m.e \in Event /\ m.k = "sync" /\ Msgs(t)' = {} /\ \A x \in Msgs(t) : x = m
  BY <1>2, <1>4, <1>5, Kinds DEF Waits
<1>7. pc[t] = "asked" /\ loc[t].e = m.e
  BY <1>1, <1>5, <1>6 DEF Waiting, Waits
<1>8. /\ pc' \in [Thread -> Label] /\ loc' = [u \in Thread |-> loc'[u]] /\ pc'[t] = "answered"
      /\ loc'[t] = loc[t]
  BY <1>1, <1>2, StepTo DEF Label
<1>9. /\ delivered' \in [Copy -> {"no", "stale", "final"}]
      /\ \A n \in Copy : delivered[n] # "no" => delivered'[n] # "no"
  <2>1. delivered' = Detached \/ delivered' = delivered
    BY DEF ServeSync
  <2> QED
    BY <1>1, <2>1 DEF Detached, Types, Copy
<1>10. \A n \in 1 .. issued : delivered'[n] # "no"
  <2> SUFFICES ASSUME NEW n \in 1 .. issued
               PROVE  delivered'[n] # "no"
    OBVIOUS
  <2>1. n \in Copy /\ copyAt[n] # None
    BY <1>1, <1>2, <1>5, <1>6, <1>7, EventAssumption DEF Counted, Types, Copy
  <2>2. delivered' = Detached
    BY DEF ServeSync
  <2> QED
    BY <1>1, <2>1, <2>2 DEF Detached, Types, Copy
<1>11. \A x \in Event : at[x] = lastRec[t][x]
  <2> SUFFICES ASSUME NEW x \in Event
               PROVE  at[x] = lastRec[t][x]
    OBVIOUS
  <2>1. Records(t, x) = {}
    BY <1>6 DEF Records
  <2> QED
    BY <1>1, <1>7, <2>1 DEF Latest
<1>12. \A r : RecordDone(r)' <=> RecordDone(r)
  BY <1>1, <1>2 DEF RecordDone, Finished
<1>13. Types'
  BY <1>1, <1>2, <1>3, <1>5, <1>8, <1>9 DEF Types
<1>14. Table'
  BY <1>1, <1>3, <1>11, <1>12 DEF Table, CompletionHonest
<1>15. Drained'
  <2>1. \A n \in 1 .. drained : n \in Copy
    BY <1>1, EventAssumption DEF Drained, Types, Copy
  <2> QED
    BY <1>1, <1>3, <1>9, <2>1 DEF Drained
<1>16. Locals(t)'
  BY <1>6, <1>7, <1>8 DEF Locals
<1>17. Waiting(t)'
  BY <1>6 DEF Waiting
<1>18. Numbers(t)'
  BY <1>1, <1>2, <1>3, <1>6, <1>8 DEF Numbers
<1>19. Latest(t)'
  <2>1. \A e \in Event : Records(t, e)' = {}
    BY <1>6 DEF Records
  <2> QED
    BY <1>2, <1>8, <1>11, <2>1 DEF Latest
<1>20. Known(t)'
  BY <1>1, <1>2, <1>3, <1>7, <1>8 DEF Known
<1>21. Answers(t)'
  <2>1. Settled(t, loc[t].e)'
    BY <1>2, <1>4, <1>6, <1>7, <1>8, <1>11, <1>12 DEF EventDone, Settled
  <2> QED
    BY <1>6, <1>8, <2>1 DEF Answers
<1>22. Counted(t)'
  <2>1. \A n \in 1 .. issued : copyAt[n] # None
    BY <1>1, <1>6, <1>7 DEF Counted
  <2> QED
    BY <1>1, <1>2, <1>3, <1>6, <1>8, <2>1 DEF Counted
<1>23. Found(t)'
  BY <1>3, <1>8, <1>10 DEF Found, AllSent
<1> QED
  BY <1>5, <1>13, <1>14, <1>15, <1>16, <1>17, <1>18, <1>19, <1>20, <1>21, <1>22, <1>23 DEF IInv, Local, OneThread

\* The server destroys the event.
LEMMA ServeDestroyInv ==
  ASSUME OneThread, IInv, NEW t \in Thread, ServeDestroy(t)
  PROVE  IInv'
<1>1. /\ Types /\ Table /\ Drained /\ Locals(t) /\ Sorted(t) /\ Closing(t) /\ Waiting(t) /\ Numbers(t)
      /\ Latest(t) /\ Known(t) /\ Answers(t) /\ Counted(t) /\ Found(t)
      /\ \A x \in Msgs(t) : (x.k = "record" => x.r \in Record) /\ (x.k = "copy" => x.n \in Copy)
  BY Sizes DEF IInv, Local
<1>2. /\ q[t] # <<>> /\ Head(q[t]).k = "destroy" /\ Pop(t) /\ Step(t, "destroyed", loc[t])
      /\ UNCHANGED <<table, sub, fin, recAt, copyAt, delivered, lastRec, before>>
  BY DEF ServeDestroy
<1>3. UNCHANGED <<slots, recordSeq, issued, drained>>
  BY <1>2 DEF table
<1>4. PICK m : m = Head(q[t])
  OBVIOUS
<1>5. /\ q' \in [Thread -> Seq(Msg)] /\ m \in Msg /\ m \in Msgs(t)
      /\ \A x \in Msgs(t)' : x \in Msgs(t)
      /\ \A x \in Msgs(t) : x = m \/ x \in Msgs(t)'
      /\ Sorted(t)' /\ Closing(t)'
      /\ Waits(m) => Msgs(t)' = {} /\ \A x \in Msgs(t) : x = m
      /\ m.k = "record" => \A x \in Msgs(t)' : x.k = "record" => m.r < x.r
  BY <1>1, <1>2, <1>4, QueuePop
<1>6. m.e \in Event /\ m.k = "destroy" /\ Msgs(t)' = {} /\ \A x \in Msgs(t) : x = m
  BY <1>2, <1>4, <1>5, Kinds DEF Waits
<1>7. pc[t] = "destroying" /\ loc[t].e = m.e
  BY <1>1, <1>5, <1>6 DEF Waiting, Waits
<1>8. /\ pc' \in [Thread -> Label] /\ loc' = [u \in Thread |-> loc'[u]] /\ pc'[t] = "destroyed"
      /\ loc'[t] = loc[t]
  BY <1>1, <1>2, StepTo DEF Label
<1>9. at' \in [Event -> Nat] /\ at'[m.e] = 0 /\ \A e \in Event : e # m.e => at'[e] = at[e]
  BY <1>1, <1>4, <1>6 DEF ServeDestroy, Types
<1>10. \A r : RecordDone(r)' <=> RecordDone(r)
  BY <1>1, <1>2 DEF RecordDone, Finished
<1>11. Types'
  BY <1>1, <1>2, <1>3, <1>5, <1>8, <1>9 DEF Types
<1>12. Table'
  BY <1>1, <1>3, <1>9, <1>10 DEF Table, CompletionHonest
<1>13. Drained'
  BY <1>1, <1>2, <1>3 DEF Drained
<1>14. Locals(t)'
  BY <1>1, <1>7, <1>8 DEF Locals
<1>15. Waiting(t)'
  BY <1>6 DEF Waiting
<1>16. Numbers(t)'
  BY <1>1, <1>2, <1>3, <1>6, <1>8 DEF Numbers
<1>17. Latest(t)'
  <2>1. \A e \in Event : Records(t, e)' = {} /\ Records(t, e) = {}
    BY <1>6 DEF Records
  <2>2. \A e \in Event : e # m.e => at'[e] = lastRec[t][e]
    BY <1>1, <1>7, <1>9, <2>1 DEF Latest
  <2> QED
    BY <1>2, <1>6, <1>7, <1>8, <1>9, <2>1, <2>2 DEF Latest
<1>18. Known(t)'
  BY <1>1, <1>2, <1>3, <1>7, <1>8 DEF Known
<1>19. Answers(t)'
  BY <1>1, <1>6, <1>8 DEF Answers, Settled, Current
<1>20. Counted(t)'
  <2>1. \A n \in 1 .. issued : copyAt[n] # None
    BY <1>1, <1>6, <1>7 DEF Counted
  <2> QED
    BY <1>1, <1>2, <1>3, <1>6, <1>8, <2>1 DEF Counted
<1>21. Found(t)'
  BY <1>1, <1>8 DEF Found, AllSent
<1> QED
  BY <1>5, <1>11, <1>12, <1>13, <1>14, <1>15, <1>16, <1>17, <1>18, <1>19, <1>20, <1>21 DEF IInv, Local, OneThread

\* A stream finishes an operation.
LEMMA GpuStepInv ==
  ASSUME IInv, NEW s \in Stream, GpuStep(s)
  PROVE  IInv'
<1>1. /\ UNCHANGED <<table, pc, loc, q, sub, recAt, copyAt, at, delivered, lastRec, before>>
      /\ fin' = [fin EXCEPT ![s] = @ + 1]
  BY DEF GpuStep
<1>2. UNCHANGED <<slots, recordSeq, issued, drained>> /\ Types /\ Table /\ Drained
  BY <1>1 DEF table, IInv
<1>3. fin' \in [Stream -> Nat] /\ \A x \in Stream : fin[x] \in Nat /\ fin'[x] >= fin[x]
  BY <1>1, <1>2 DEF Types
<1>4. ASSUME NEW r \in Record, RecordDone(r)
      PROVE  RecordDone(r)'
  <2>1. recAt[r] \in Place /\ recAt[r] # None /\ recAt[r].pos <= fin[recAt[r].stream]
    BY <1>2, <1>4 DEF RecordDone, Finished, Types
  <2>2. CASE recAt[r].stream \in Stream
    <3>1. recAt[r].pos <= fin'[recAt[r].stream]
      BY <1>3, <2>1, <2>2 DEF Place
    <3> QED
      BY <1>1, <2>1, <3>1 DEF RecordDone, Finished
  <2>3. CASE recAt[r].stream \notin Stream
    <3>1. fin'[recAt[r].stream] = fin[recAt[r].stream]
      BY <1>1, <1>2, <2>3 DEF Types
    <3> QED
      BY <1>1, <2>1, <3>1 DEF RecordDone, Finished
  <2> QED
    BY <2>2, <2>3
<1>5. Types'
  BY <1>1, <1>2, <1>3 DEF Types
<1>6. Table'
  BY <1>2, <1>4 DEF Table, CompletionHonest
<1>7. Drained'
  BY <1>1, <1>2 DEF Drained
<1>8. ASSUME NEW t \in Thread
      PROVE  Local(t)'
  <2>1. Local(t)
    BY DEF IInv
  <2>2. Msgs(t)' = Msgs(t) /\ Sorted(t)' /\ Closing(t)' /\ \A y \in Event : Records(t, y)' = Records(t, y)
    BY <1>1, <2>1, QueueSame DEF Local
  <2>3. Locals(t)' /\ Waiting(t)' /\ Numbers(t)' /\ Latest(t)' /\ Known(t)' /\ Counted(t)' /\ Found(t)'
    BY <1>1, <1>2, <2>1, <2>2 DEF Local, Locals, Waiting, Numbers, Latest, Known, Counted, Found, AllSent
  <2>4. \A e \in Event : lastRec[t][e] # 0 => lastRec[t][e] \in Record
    BY <1>2, <2>1, EventAssumption DEF Local, Numbers, Types, Record
  <2>5. \A e \in Event : Settled(t, e) => Settled(t, e)'
    BY <1>1, <1>4, <2>4 DEF Settled
  <2>6. \A a : Current(t, a) => Current(t, a)'
    BY <1>1 DEF Current
  <2>7. /\ pc[t] \in {"answer", "complete"} => \A a \in loc[t].ok : a.e \in Event
        /\ pc[t] \in {"complete", "answered"} => loc[t].e \in Event
    BY <2>1 DEF Local, Locals, Asked
  <2>8. Answers(t)'
    BY <1>1, <2>1, <2>2, <2>5, <2>6, <2>7 DEF Local, Answers
  <2> QED
    BY <2>2, <2>3, <2>8 DEF Local
<1> QED
  BY <1>5, <1>6, <1>7, <1>8 DEF IInv

\* Nothing happens.
LEMMA StutterInv ==
  ASSUME IInv, UNCHANGED vars
  PROVE  IInv'
<1>1. /\ UNCHANGED <<slots, recordSeq, issued, drained, pc, loc, q, lastRec, before>>
      /\ UNCHANGED <<sub, fin, recAt, copyAt, at, delivered>>
  BY DEF vars, table, server
<1>2. \A r : RecordDone(r)' <=> RecordDone(r)
  BY <1>1 DEF RecordDone, Finished
<1>3. Types' /\ Drained'
  BY <1>1 DEF IInv, Types, Drained
<1>4. Table'
  BY <1>1, <1>2 DEF IInv, Table, CompletionHonest
<1>5. ASSUME NEW t \in Thread
      PROVE  Local(t)'
  <2>1. Local(t)
    BY DEF IInv
  <2>2. Msgs(t)' = Msgs(t) /\ Sorted(t)' /\ Closing(t)' /\ \A y \in Event : Records(t, y)' = Records(t, y)
    BY <1>1, <2>1, QueueSame DEF Local
  <2>3. Locals(t)' /\ Waiting(t)' /\ Numbers(t)' /\ Latest(t)' /\ Known(t)' /\ Counted(t)' /\ Found(t)'
    BY <1>1, <2>1, <2>2 DEF Local, Locals, Waiting, Numbers, Latest, Known, Counted, Found, AllSent
  <2>4. Answers(t)'
    BY <1>1, <1>2, <2>1, <2>2 DEF Local, Answers, Settled, Current
  <2> QED
    BY <2>2, <2>3, <2>4 DEF Local
<1> QED
  BY <1>3, <1>4, <1>5 DEF IInv

\* Nothing has been recorded, copied or asked.
LEMMA InitInv == Init => IInv
<1> SUFFICES ASSUME Init
             PROVE  IInv
  OBVIOUS
<1>1. EmptySlot \in Row /\ None \in Place /\ EmptySlot.event = NoEvent
  BY DEF EmptySlot, Row, NoEvent, None, Place
<1>2. Types
  <2>1. recordSeq \in 0 .. MaxRecord /\ issued \in 0 .. MaxCopy /\ drained \in Nat
    BY EventAssumption DEF Init
  <2>2. slots \in [Slot -> Row] /\ recAt \in [Record -> Place] /\ copyAt \in [Copy -> Place]
    BY <1>1 DEF Init, Record, Copy
  <2>3. pc \in [Thread -> Label] /\ loc = [t \in Thread |-> loc[t]] /\ q \in [Thread -> Seq(Msg)]
    BY DEF Init, Label
  <2>4. /\ sub \in [Stream -> Nat] /\ fin \in [Stream -> Nat] /\ at \in [Event -> Nat]
        /\ delivered \in [Copy -> {"no", "stale", "final"}]
        /\ lastRec \in [Thread -> [Event -> Nat]] /\ before \in [Thread -> [Event -> SUBSET Copy]]
    BY DEF Init, Copy
  <2> QED
    BY <2>1, <2>2, <2>3, <2>4 DEF Types
<1>3. Table
  BY <1>1 DEF Init, Table, CompletionHonest
<1>4. Drained
  BY DEF Init, Drained
<1>5. ASSUME NEW t \in Thread
      PROVE  Local(t)
  <2>1. /\ pc[t] = "idle" /\ q[t] = <<>> /\ issued = 0 /\ recordSeq = 0
        /\ \A e \in Event : lastRec[t][e] = 0 /\ at[e] = 0 /\ before[t][e] = {}
        /\ \A r \in Record : recAt[r] = None
        /\ \A n \in Copy : copyAt[n] = None
    BY DEF Init, Record, Copy
  <2>2. Len(q[t]) = 0
    BY <2>1, EmptySeq
  <2>3. Msgs(t) = {} /\ Sorted(t) /\ Closing(t)
    BY <2>2 DEF Msgs, Sorted, Closing
  <2>4. \A e \in Event : Records(t, e) = {}
    BY <2>3 DEF Records
  <2>5. Locals(t) /\ Waiting(t) /\ Numbers(t) /\ Latest(t)
    BY <2>1, <2>3, <2>4 DEF Locals, Waiting, Numbers, Latest
  <2>6. Known(t)
    BY <1>1 DEF Init, Known
  <2>7. Answers(t) /\ Counted(t) /\ Found(t)
    BY <2>1, <2>3 DEF Answers, Counted, Found
  <2> QED
    BY <2>3, <2>5, <2>6, <2>7 DEF Local
<1> QED
  BY <1>2, <1>3, <1>4, <1>5 DEF IInv

\* The invariant holds throughout.
LEMMA Inductive ==
  ASSUME OneThread
  PROVE  Spec => []IInv
<1>1. IInv /\ [Next]_vars => IInv'
  <2> SUFFICES ASSUME IInv, [Next]_vars
               PROVE  IInv'
    OBVIOUS
  <2>1. ASSUME NEW t \in Thread, NEW e \in Event, NEW s \in Stream, RecordSeq(t, e, s)
        PROVE  IInv'
    BY <2>1, RecordSeqInv
  <2>2. ASSUME NEW t \in Thread, NEW s \in Stream, CopyNote(t, s)
        PROVE  IInv'
    BY <2>2, CopyNoteInv
  <2>3. ASSUME NEW t \in Thread, NEW e \in Event, QueryLoad(t, e) \/ SyncSend(t, e) \/ DestroySend(t, e)
        PROVE  IInv'
    BY <2>3, QueryLoadInv, SyncSendInv, DestroySendInv
  <2>4. ASSUME NEW t \in Thread,
               \/ RecordNote(t) \/ RecordSend(t) \/ CopySend(t) \/ QueryCollect(t) \/ QuerySend(t)
               \/ QueryNote(t) \/ QueryDrained(t) \/ Return(t) \/ DestroyNote(t)
        PROVE  IInv'
    BY <2>4, RecordNoteInv, RecordSendInv, CopySendInv, QueryCollectInv, QuerySendInv, QueryNoteInv,
       QueryDrainedInv, ReturnInv, DestroyNoteInv
  <2>5. ASSUME NEW t \in Thread,
               ServeRecord(t) \/ ServeCopy(t) \/ ServeQuery(t) \/ ServeSync(t) \/ ServeDestroy(t)
        PROVE  IInv'
    BY <2>5, ServeRecordInv, ServeCopyInv, ServeQueryInv, ServeSyncInv, ServeDestroyInv
  <2>6. CASE UNCHANGED vars
    BY <2>6, StutterInv
  <2> QED
    BY <2>1, <2>2, <2>3, <2>4, <2>5, <2>6, GpuStepInv DEF Next
<1> QED
  BY <1>1, InitInv, PTL DEF Spec

\* A slot marked complete names a record that the GPU has finished.
THEOREM CompletionTrue ==
  ASSUME OneThread
  PROVE  Spec => []CompletionHonest
<1>1. IInv => CompletionHonest
  BY DEF IInv, Table
<1> QED
  BY <1>1, Inductive, PTL

\* CUDA_SUCCESS for an event, from the table or from the server, means that the thread's
\* latest record of it is finished.
THEOREM AnswerTrue ==
  ASSUME OneThread
  PROVE  Spec => []AnswerHonest
<1>1. IInv => AnswerHonest
  BY DEF IInv, Local, Answers, Settled, AnswerHonest
<1> QED
  BY <1>1, Inductive, PTL

\* ... and that the copies issued on its stream before it have been sent to the client.
THEOREM CopiesSent ==
  ASSUME OneThread
  PROVE  Spec => []CopiesArrive
<1>1. ASSUME IInv, NEW t \in Thread, pc[t] = "answered", NEW n \in before[t][loc[t].e]
      PROVE  delivered[n] # "no"
  <2>1. Types /\ Locals(t) /\ Counted(t) /\ Found(t)
    BY <1>1 DEF IInv, Local
  <2>2. loc[t].e \in Event
    BY <1>1, <2>1 DEF Locals
  <2>3. n \in 1 .. MaxCopy /\ n <= issued /\ issued \in Nat
    BY <1>1, <2>1, <2>2, EventAssumption DEF Types, Counted, Copy
  <2> QED
    BY <1>1, <2>1, <2>3 DEF Found, AllSent
<1>2. IInv => CopiesArrive
  BY <1>1 DEF CopiesArrive
<1> QED
  BY <1>2, Inductive, PTL

\* When the two copy counters agree, every copy counted so far was drained.
THEOREM DrainTrue ==
  ASSUME OneThread
  PROVE  Spec => []DrainHonest
<1>1. IInv => DrainHonest
  BY DEF IInv, Drained, DrainHonest
<1> QED
  BY <1>1, Inductive, PTL
=============================================================================
