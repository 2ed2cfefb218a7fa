----------------------------- MODULE EventTable -----------------------------
(***************************************************************************)
(* The client's event table (events.cpp), which lets cuEventQuery answer   *)
(* without a round trip, with the client calls that feed it (client.cpp:   *)
(* cuEventRecord, cuEventQuery, cuMemcpyDtoHAsync, cuEventDestroy) and the *)
(* server handlers they reach (manual_server.cpp).                         *)
(*                                                                         *)
(* The connection is abstracted to what module RpcConn establishes: the    *)
(* requests of one thread are executed in the order it issued them, those  *)
(* of different threads in any order.  A stream executes what was          *)
(* submitted to it in order, at its own pace.                              *)
(***************************************************************************)
EXTENDS Integers, Sequences, FiniteSets

CONSTANTS
  Thread, Event, Stream,
  Batch,       \* kLupineEventQueryBatch: slots of the table, events of a query
  MaxRecord,   \* bound on record_seq
  MaxCopy      \* bound on device-to-host copies

ASSUME EventAssumption ==
  /\ Batch \in Nat \ {0} /\ MaxRecord \in Nat /\ MaxCopy \in Nat
  /\ "none" \notin Event \cup Stream

NoEvent == "none"
Slot == 1..Batch
EmptySlot == [event |-> NoEvent, recorded |-> 0, completed |-> 0]

VARIABLES
  slots, recordSeq, issued, drained,   \* lupine_event_table
  pc, loc,                             \* per thread: program point and locals
  q,                                   \* per thread: requests not yet executed
  sub, fin,                            \* per stream: operations submitted, finished
  recAt, copyAt,                       \* where a record or copy was submitted
  at,                                  \* per event: its latest record, as CUDA sees it
  delivered,                           \* copies whose bytes were sent: "stale" or "final"
  lastRec, before                      \* history: per thread and event, its latest
                                       \* record and the copies it had issued by then

table == <<slots, recordSeq, issued, drained>>
server == <<sub, fin, recAt, copyAt, at, delivered>>
vars == <<table, pc, loc, q, server, lastRec, before>>

None == [stream |-> "none", pos |-> 0]
Idle == [k |-> "idle"]

Init ==
  /\ slots = [i \in Slot |-> EmptySlot]
  /\ recordSeq = 0 /\ issued = 0 /\ drained = 0
  /\ pc = [t \in Thread |-> "idle"] /\ loc = [t \in Thread |-> Idle]
  /\ q = [t \in Thread |-> <<>>]
  /\ sub = [s \in Stream |-> 0] /\ fin = [s \in Stream |-> 0]
  /\ recAt = [r \in 1..MaxRecord |-> None] /\ copyAt = [n \in 1..MaxCopy |-> None]
  /\ at = [e \in Event |-> 0]
  /\ delivered = [n \in 1..MaxCopy |-> "no"]
  /\ lastRec = [t \in Thread |-> [e \in Event |-> 0]]
  /\ before = [t \in Thread |-> [e \in Event |-> {}]]

Step(t, label, l) == pc' = [pc EXCEPT ![t] = label] /\ loc' = [loc EXCEPT ![t] = l]
Send(t, m) == q' = [q EXCEPT ![t] = Append(@, m)]

----------------------------------------------------------------------------
(* cuEventRecord: note the record, then send it without awaiting an answer. *)

\* lupine_event_note_recorded takes its sequence number outside the lock.
RecordSeq(t, e, s) ==
  /\ pc[t] = "idle" /\ recordSeq < MaxRecord
  /\ recordSeq' = recordSeq + 1
  /\ Step(t, "seq", [k |-> "record", e |-> e, s |-> s, r |-> recordSeq + 1])
  /\ UNCHANGED <<slots, issued, drained, q, server, lastRec, before>>

\* The slot with the lowest sequence number, the first of them.
Victim == CHOOSE i \in Slot :
  \A j \in Slot : \/ slots[i].recorded < slots[j].recorded
                  \/ slots[i].recorded = slots[j].recorded /\ i <= j

\* Wrong: a record of an event that has a slot keeps the old sequence number.
RecordNoteKeeps(t) ==
  /\ pc[t] = "seq"
  /\ slots' = IF \E i \in Slot : slots[i].event = loc[t].e
                THEN slots
                ELSE [slots EXCEPT ![Victim] =
                        [event |-> loc[t].e, recorded |-> loc[t].r, completed |-> 0]]
  /\ Step(t, "noted", loc[t])
  /\ UNCHANGED <<recordSeq, issued, drained, q, server, lastRec, before>>

RecordNote(t) ==
  /\ pc[t] = "seq"
  /\ LET e == loc[t].e
         mine == {i \in Slot : slots[i].event = e}
     IN  slots' = IF mine # {}
                    THEN [slots EXCEPT ![CHOOSE i \in mine : TRUE].recorded = loc[t].r]
                    ELSE [slots EXCEPT ![Victim] =
                            [event |-> e, recorded |-> loc[t].r, completed |-> 0]]
  /\ Step(t, "noted", loc[t])
  /\ UNCHANGED <<recordSeq, issued, drained, q, server, lastRec, before>>

RecordSend(t) ==
  /\ pc[t] = "noted"
  /\ Send(t, loc[t])
  /\ lastRec' = [lastRec EXCEPT ![t][loc[t].e] = loc[t].r]
  /\ before' = [before EXCEPT ![t][loc[t].e] =
                  {n \in 1..MaxCopy : \E i \in 1..Len(q[t]) :
                      q[t][i] = [k |-> "copy", s |-> loc[t].s, n |-> n]}
                  \cup {n \in 1..MaxCopy : copyAt[n].stream = loc[t].s}]
  /\ Step(t, "idle", Idle)
  /\ UNCHANGED <<table, server>>

(* cuMemcpyDtoHAsync_v2: count the copy, then send it.                     *)

CopyNote(t, s) ==
  /\ pc[t] = "idle" /\ issued < MaxCopy
  /\ issued' = issued + 1
  /\ Step(t, "copying", [k |-> "copy", s |-> s, n |-> issued + 1])
  /\ UNCHANGED <<slots, recordSeq, drained, q, server, lastRec, before>>

CopySend(t) ==
  /\ pc[t] = "copying"
  /\ Send(t, loc[t])
  /\ Step(t, "idle", Idle)
  /\ UNCHANGED <<table, server, lastRec, before>>

----------------------------------------------------------------------------
(* cuEventQuery                                                            *)

\* The other outstanding events a query also asks about, in slot order, as far
\* as the batch has room (every event is on this one connection).
Outstanding(e) ==
  {i \in Slot : /\ slots[i].event \notin {NoEvent, e}
                /\ slots[i].recorded # slots[i].completed}
Companions(e) ==
  {i \in Outstanding(e) : Cardinality({j \in Outstanding(e) : j < i}) < Batch - 1}

\* Wrong: waiting copies are forgotten.
QueryLoadBlind(t, e) ==
  /\ pc[t] = "idle"
  /\ Step(t, "loaded", [k |-> "query", e |-> e, pending |-> FALSE])
  /\ UNCHANGED <<table, q, server, lastRec, before>>

\* lupine_event_collect_query_batch compares the two copy counters first, outside
\* the lock.
QueryLoad(t, e) ==
  /\ pc[t] = "idle"
  /\ Step(t, "loaded", [k |-> "query", e |-> e, pending |-> issued # drained])
  /\ UNCHANGED <<table, q, server, lastRec, before>>

\* Under the lock: a completed event is answered at once when no copy is waiting;
\* otherwise e and its companions make up the batch.
QueryCollect(t) ==
  /\ pc[t] = "loaded"
  /\ LET e == loc[t].e
         mine == {i \in Slot : slots[i].event = e}
         known == \E i \in mine : slots[i].recorded = slots[i].completed
         r == IF mine = {} THEN 0 ELSE slots[CHOOSE i \in mine : TRUE].recorded
         others == {[e |-> slots[i].event, r |-> slots[i].recorded] : i \in Companions(e)}
     IN  IF known /\ ~loc[t].pending
           THEN Step(t, "answered", [k |-> "query", e |-> e])
           ELSE Step(t, "collected", [k |-> "query", e |-> e, r |-> r, others |-> others])
  /\ UNCHANGED <<table, q, server, lastRec, before>>

\* The number of copies issued is sampled before the request is sent.
QuerySend(t) ==
  /\ pc[t] = "collected"
  /\ Send(t, loc[t])
  /\ Step(t, "asked", [k |-> "query", e |-> loc[t].e, sample |-> issued])
  /\ UNCHANGED <<table, server, lastRec, before>>

\* The answer: note what it says of every event of the batch.
QueryNote(t) ==
  /\ pc[t] = "answer"
  /\ slots' = [i \in Slot |->
                 IF \E a \in loc[t].ok : /\ a.r # 0
                                         /\ a.e = slots[i].event /\ a.r = slots[i].recorded
                   THEN [slots[i] EXCEPT !.completed = slots[i].recorded]
                   ELSE slots[i]]
  /\ IF \E a \in loc[t].ok : a.e = loc[t].e
       THEN Step(t, "complete", loc[t])
       ELSE Step(t, "idle", Idle)
  /\ UNCHANGED <<recordSeq, issued, drained, q, server, lastRec, before>>

\* On success the sampled copies count as drained.
QueryDrained(t) ==
  /\ pc[t] = "complete"
  /\ drained' = loc[t].sample
  /\ Step(t, "answered", [k |-> "query", e |-> loc[t].e])
  /\ UNCHANGED <<slots, recordSeq, issued, q, server, lastRec, before>>

(* cuEventSynchronize: a synchronous call that leaves the table alone.     *)

SyncSend(t, e) ==
  /\ pc[t] = "idle"
  /\ Send(t, [k |-> "sync", e |-> e])
  /\ Step(t, "asked", [k |-> "sync", e |-> e])
  /\ UNCHANGED <<table, server, lastRec, before>>

\* CUDA_SUCCESS is returned to the application.
Return(t) ==
  /\ pc[t] = "answered"
  /\ Step(t, "idle", Idle)
  /\ UNCHANGED <<table, q, server, lastRec, before>>

(* cuEventDestroy_v2 is a synchronous call; the handle may be used again.  *)

DestroySend(t, e) ==
  /\ pc[t] = "idle"
  /\ Send(t, [k |-> "destroy", e |-> e])
  /\ Step(t, "destroying", [k |-> "destroy", e |-> e])
  /\ UNCHANGED <<table, server, lastRec, before>>

\* lupine_event_note_destroyed
DestroyNote(t) ==
  /\ pc[t] = "destroyed"
  /\ slots' = [i \in Slot |-> IF slots[i].event = loc[t].e THEN EmptySlot ELSE slots[i]]
  /\ lastRec' = [lastRec EXCEPT ![t][loc[t].e] = 0]
  /\ before' = [before EXCEPT ![t][loc[t].e] = {}]
  /\ Step(t, "idle", Idle)
  /\ UNCHANGED <<recordSeq, issued, drained, q, server>>

----------------------------------------------------------------------------
(* The server: a lane's worker executes the oldest request of its thread.  *)

Finished(where) == where = None \/ where.pos <= fin[where.stream]
RecordDone(r) == recAt[r] # None /\ Finished(recAt[r])
\* cuEventQuery on the server: an event never recorded is complete.
EventDone(e) == at[e] # 0 => RecordDone(at[e])

Pop(t) == q' = [q EXCEPT ![t] = Tail(@)]

\* handle_manual_cuEventRecord
ServeRecord(t) ==
  /\ q[t] # <<>> /\ Head(q[t]).k = "record"
  /\ LET m == Head(q[t]) IN
       /\ sub' = [sub EXCEPT ![m.s] = @ + 1]
       /\ recAt' = [recAt EXCEPT ![m.r] = [stream |-> m.s, pos |-> sub[m.s] + 1]]
       /\ at' = [at EXCEPT ![m.e] = m.r]
  /\ Pop(t)
  /\ UNCHANGED <<table, pc, loc, fin, copyAt, delivered, lastRec, before>>

\* handle_manual_cuMemcpyDtoHAsync_v2: the copy waits in the pending list.
ServeCopy(t) ==
  /\ q[t] # <<>> /\ Head(q[t]).k = "copy"
  /\ LET m == Head(q[t]) IN
       /\ sub' = [sub EXCEPT ![m.s] = @ + 1]
       /\ copyAt' = [copyAt EXCEPT ![m.n] = [stream |-> m.s, pos |-> sub[m.s] + 1]]
  /\ Pop(t)
  /\ UNCHANGED <<table, pc, loc, fin, recAt, at, delivered, lastRec, before>>

\* lupine_detach_pending_dtoh_copies(conn, nullptr, true): the pending copies of
\* every stream are taken and their host buffers sent as they are now.
Detached ==
  [n \in 1..MaxCopy |->
     IF delivered[n] = "no" /\ copyAt[n] # None
       THEN IF Finished(copyAt[n]) THEN "final" ELSE "stale"
       ELSE delivered[n]]

\* Wrong: the answer for the event asked about is given for the whole batch.
ServeQueryAll(t) ==
  /\ q[t] # <<>> /\ Head(q[t]).k = "query"
  /\ LET m == Head(q[t])
         ok == IF EventDone(m.e) THEN {[e |-> m.e, r |-> m.r]} \cup m.others ELSE {}
     IN  /\ delivered' = IF EventDone(m.e) THEN Detached ELSE delivered
         /\ Step(t, "answer", [k |-> "query", e |-> m.e, sample |-> loc[t].sample, ok |-> ok])
  /\ Pop(t)
  /\ UNCHANGED <<table, sub, fin, recAt, copyAt, at, lastRec, before>>

\* Wrong: the pending copies are not detached.
ServeQueryKeeps(t) ==
  /\ q[t] # <<>> /\ Head(q[t]).k = "query"
  /\ LET m == Head(q[t])
         ok == {a \in {[e |-> m.e, r |-> m.r]} \cup m.others : EventDone(a.e)}
     IN  Step(t, "answer", [k |-> "query", e |-> m.e, sample |-> loc[t].sample, ok |-> ok])
  /\ Pop(t)
  /\ UNCHANGED <<table, server, lastRec, before>>

\* handle_manual_cuEventQuery: the whole batch is answered; copies are detached
\* when the event asked for is complete.  The handler looks at one event after the
\* other and then detaches; what finishes meanwhile only makes the first answers
\* more cautious, so one step shows every answer that could be wrong.
ServeQuery(t) ==
  /\ q[t] # <<>> /\ Head(q[t]).k = "query"
  /\ LET m == Head(q[t])
         ok == {a \in {[e |-> m.e, r |-> m.r]} \cup m.others : EventDone(a.e)}
     IN  /\ delivered' = IF EventDone(m.e) THEN Detached ELSE delivered
         /\ Step(t, "answer", [k |-> "query", e |-> m.e, sample |-> loc[t].sample, ok |-> ok])
  /\ Pop(t)
  /\ UNCHANGED <<table, sub, fin, recAt, copyAt, at, lastRec, before>>

\* handle_manual_cuEventSynchronize waits for the event, then detaches.
ServeSync(t) ==
  /\ q[t] # <<>> /\ Head(q[t]).k = "sync" /\ EventDone(Head(q[t]).e)
  /\ delivered' = Detached
  /\ Step(t, "answered", loc[t])
  /\ Pop(t)
  /\ UNCHANGED <<table, sub, fin, recAt, copyAt, at, lastRec, before>>

ServeDestroy(t) ==
  /\ q[t] # <<>> /\ Head(q[t]).k = "destroy"
  /\ at' = [at EXCEPT ![Head(q[t]).e] = 0]
  /\ Step(t, "destroyed", loc[t])
  /\ Pop(t)
  /\ UNCHANGED <<table, sub, fin, recAt, copyAt, delivered, lastRec, before>>

\* A stream finishes its next operation.
GpuStep(s) ==
  /\ fin[s] < sub[s]
  /\ fin' = [fin EXCEPT ![s] = @ + 1]
  /\ UNCHANGED <<table, pc, loc, q, sub, recAt, copyAt, at, delivered, lastRec, before>>

Next ==
  \/ \E t \in Thread :
       \/ \E e \in Event, s \in Stream : RecordSeq(t, e, s)
       \/ RecordNote(t) \/ RecordSend(t)
       \/ \E s \in Stream : CopyNote(t, s)
       \/ CopySend(t)
       \/ \E e \in Event : QueryLoad(t, e) \/ SyncSend(t, e) \/ DestroySend(t, e)
       \/ QueryCollect(t) \/ QuerySend(t) \/ QueryNote(t) \/ QueryDrained(t) \/ Return(t)
       \/ DestroyNote(t)
       \/ ServeRecord(t) \/ ServeCopy(t) \/ ServeQuery(t)
       \/ ServeSync(t) \/ ServeDestroy(t)
  \/ \E s \in Stream : GpuStep(s)

Spec == Init /\ [][Next]_vars

----------------------------------------------------------------------------
(* Properties.                                                             *)

\* The table's fields and the streams' counters stay in range; completed never
\* runs ahead of the sequence numbers handed out.
TypeOK ==
  /\ \A i \in Slot : /\ slots[i].event \in Event \cup {NoEvent}
                     /\ slots[i].recorded \in 0..recordSeq
                     /\ slots[i].completed \in 0..recordSeq
  /\ recordSeq \in 0..MaxRecord /\ issued \in 0..MaxCopy /\ drained \in 0..issued
  /\ \A s \in Stream : fin[s] \in 0..sub[s]
  /\ \A n \in 1..MaxCopy : delivered[n] \in {"no", "stale", "final"}

\* A slot marked complete names a record the GPU has finished: a result that
\* belongs to an earlier record never marks a later one done (events_test.cpp,
\* "A result carrying the stale sequence must not mark the new record done").
CompletionHonest ==
  \A i \in Slot : slots[i].event # NoEvent /\ slots[i].recorded = slots[i].completed
    => RecordDone(slots[i].recorded)

\* cuEventQuery and cuEventSynchronize return CUDA_SUCCESS only when the thread's
\* own latest record of the event is finished, whether the answer came from the
\* table or from the server.
AnswerHonest ==
  \A t \in Thread : pc[t] = "answered" /\ lastRec[t][loc[t].e] # 0
    => RecordDone(lastRec[t][loc[t].e])

\* After that CUDA_SUCCESS, the copies issued on the record's stream before the
\* record have been sent to the client: a query answered locally never leaves
\* one behind.
CopiesArrive ==
  \A t \in Thread : pc[t] = "answered" =>
    \A n \in before[t][loc[t].e] : delivered[n] # "no"

\* issued = drained, the test that makes a local answer legal, holds only when
\* every copy counted so far has been drained from the server (events.h: "a
\* locally answered query is legal only while no async copy is waiting to be
\* drained").
DrainHonest == issued = drained => \A n \in 1..issued : delivered[n] # "no"

\* The bytes the application finds after a successful query or synchronize are
\* those of the finished copy ("required synchronous results must never become
\* stale").  The code does not ensure it: success for ANY event detaches the
\* copies of every stream, finished or not.
CopiesFinal ==
  \A t \in Thread : pc[t] = "answered" =>
    \A n \in before[t][loc[t].e] : delivered[n] # "stale"
=============================================================================
