--------------------------- MODULE RpcConnProofs ---------------------------
(***************************************************************************)
(* Proofs about RpcConn, for any number of threads, callbacks and          *)
(* requests.                                                               *)
(*                                                                         *)
(* TypeOK is not inductive by itself: the server hands the op of an even   *)
(* frame to a lane, so it matters that the client only ever sends requests *)
(* with even and responses with odd ids (UpFrame), which in turn rests on  *)
(* whose frame the client's slot holds (ClientSlot).                       *)
(*                                                                         *)
(* The second half follows a request on its way: the thread that builds    *)
(* it, the pipe, the server's slot, the worker.  Ids increase along that   *)
(* way and nothing is lost on it (Ordering); the slot's frame has been     *)
(* handed to its lane (SlotLane); a response has its thread waiting        *)
(* (Responses); and callbacks go round in the order of their ids (Round).  *)
(* From these follow who owns the slots and the refinement of CallOrder.   *)
(*                                                                         *)
(* The last part says why every wait ends (StuckInv): the threads of the   *)
(* two ends never all wait for each other.                                 *)
(***************************************************************************)
EXTENDS RpcConn, TLAPS

\* What may travel to the server: requests have even ids, responses odd ones.
UpFrame ==
  {f \in Frame : IF f.id % 2 = 0 THEN f.lane \in Thread /\ f.op \in Op \cup {"term"}
                                 ELSE f.op = "resp"}

Busy == {"building", "waiting", "reading"}

\* The ids the client hands out: even, increasing, one per busy thread.
Ids ==
  /\ requestId % 2 = 0
  /\ \A t \in Thread : /\ cur[t].id % 2 = 0
                       /\ pc[t] \in Busy => cur[t].id \in 1..requestId
  /\ \A t, u \in Thread :
       pc[t] \in Busy /\ pc[u] \in Busy /\ cur[t].id = cur[u].id => t = u

\* Whose the frame in the client's slot is.
ClientSlot ==
  /\ \A t \in Thread : pc[t] = "reading" => cRead.id = cur[t].id
  /\ disp = "reading" => cRead.id % 2 = 1
  /\ disp = "running" => dispId % 2 = 1

Wire == up \in Seq(UpFrame) /\ batch \in Seq(UpFrame)

IInv == TypeOK /\ Ids /\ ClientSlot /\ Wire

----------------------------------------------------------------------------
\* The invariant holds when the connection is established.
LEMMA InitInv == Init => IInv
<1> SUFFICES ASSUME Init PROVE IInv
  OBVIOUS
<1>1. NoFrame \in Frame /\ NoLane \in Lane
  BY DEF NoFrame, Frame, NoLane, Lane, Id, NoId, Free
<1>2. TypeOK
  BY <1>1 DEF Init, TypeOK, Id, NoId, Op
<1>3. Ids /\ ClientSlot /\ Wire
  BY DEF Init, Ids, ClientSlot, Wire, Busy, NoId
<1> QED
  BY <1>2, <1>3 DEF IInv

\* A frame of a request that is being built may be sent.
LEMMA RequestIsUp ==
  ASSUME IInv, NEW t \in Thread, pc[t] = "building", cur[t].op \in Op
  PROVE  RequestFrame(t) \in UpFrame
<1>1. cur[t].id \in Nat /\ cur[t].id % 2 = 0
  BY DEF IInv, TypeOK, Ids, Id
<1> QED
  BY <1>1 DEF RequestFrame, UpFrame, Frame, Id

\* Flushing the batch and writing more keeps the wire well formed.
LEMMA WrittenIsUp ==
  ASSUME Wire, NEW frames \in Seq(UpFrame)
  PROVE  Written(frames) \in Seq(UpFrame) /\ Written(frames) \in Seq(Frame)
<1>1. Written(frames) \in Seq(UpFrame)
  BY DEF Wire, Written
<1>2. UpFrame \subseteq Frame
  BY DEF UpFrame
<1> QED
  BY <1>1, <1>2

----------------------------------------------------------------------------
(* TypeOK by halves, so that an action of one end need only look at its own. *)

ClientType ==
  /\ callMutex \in Thread \cup {Free} /\ writeMutex \in Thread \cup {Free}
  /\ requestId \in Id /\ batch \in Seq(Frame)
  /\ pc \in [Thread -> {"idle", "locked", "building", "waiting", "reading", "gone"}]
  /\ cur \in [Thread -> [id : Id, op : Op \cup {"none"}]]
  /\ cRead \in Frame
  /\ disp \in {"idle", "reading", "running"} /\ dispId \in Id

ServerType ==
  /\ sRequestId \in Id /\ sRead \in Frame /\ joining \in Thread \cup {Free}
  /\ lane \in [Thread -> Lane] /\ pend \in Nat
  /\ cbSt \in [Callback -> {"idle", "waiting", "reading"}] /\ cbId \in [Callback -> Id]

WireType == up \in Seq(Frame) /\ down \in Seq(Frame)
HistoryType == issued \in [Thread -> SUBSET Id] /\ done \in [Thread -> SUBSET Id]

\* The four parts are the type invariant.
LEMMA TypeHalves == TypeOK <=> ClientType /\ ServerType /\ WireType /\ HistoryType
BY DEF TypeOK, ClientType, ServerType, WireType, HistoryType

\* An action of the client keeps the server's part of the invariant.
LEMMA ServerAlone ==
  ASSUME IInv, UNCHANGED serverVars
  PROVE  ServerType'
BY TypeHalves DEF IInv, ServerType, serverVars

\* An action of the server keeps the client's part of the invariant.
LEMMA ClientAlone ==
  ASSUME IInv, UNCHANGED clientVars
  PROVE  ClientType' /\ Ids' /\ ClientSlot' /\ (batch \in Seq(UpFrame))'
<1>1. ClientType /\ Ids /\ ClientSlot /\ batch \in Seq(UpFrame)
  BY TypeHalves DEF IInv, Wire
<1> QED
  BY <1>1 DEF clientVars, ClientType, Ids, ClientSlot

\* What the steps below use of the invariant.
LEMMA Facts ==
  ASSUME IInv
  PROVE  /\ ClientType /\ ServerType /\ WireType /\ HistoryType
         /\ Ids /\ ClientSlot /\ Wire
BY TypeHalves DEF IInv

\* What they have to establish.
LEMMA Conclude ==
  ASSUME ClientType', ServerType', WireType', HistoryType', Ids', ClientSlot', Wire'
  PROVE  IInv'
BY DEF IInv, TypeOK, ClientType, ServerType, WireType, HistoryType

----------------------------------------------------------------------------
(* The client's actions.                                                   *)

\* Taking call_mutex: the thread is not busy yet.
LEMMA LockCallInv ==
  ASSUME IInv, NEW t \in Thread, NEW op \in Op, LockCall(t, op)
  PROVE  IInv'
<1> USE Facts
<1>1. ClientType'
  BY DEF LockCall, ClientType, Id, NoId
<1>2. \A x \in Thread : /\ pc'[x] = IF x = t THEN "locked" ELSE pc[x]
                        /\ cur'[x] = IF x = t THEN [id |-> NoId, op |-> op] ELSE cur[x]
  BY DEF LockCall, ClientType
<1>3. Ids'
  BY <1>2 DEF LockCall, Ids, Busy, NoId
<1>4. ClientSlot'
  BY <1>2 DEF LockCall, ClientSlot
<1>5. WireType' /\ HistoryType' /\ Wire' /\ UNCHANGED serverVars
  BY DEF LockCall, WireType, HistoryType, Wire
<1> QED
  BY <1>1, <1>3, <1>4, <1>5, ServerAlone, Conclude

\* The new request id is above every id in use.
LEMMA StartRequestInv ==
  ASSUME IInv, NEW t \in Thread, StartRequest(t)
  PROVE  IInv'
<1> USE Facts
<1>0. requestId \in Nat /\ requestId + 2 \in Nat /\ \A x \in Thread : cur[x].id \in Nat
  BY DEF ClientType, Id
<1>1. ClientType'
  BY <1>0 DEF StartRequest, ClientType, Id
<1>2. \A x \in Thread : /\ pc'[x] = IF x = t THEN "building" ELSE pc[x]
                        /\ cur'[x].id = IF x = t THEN requestId + 2 ELSE cur[x].id
  BY DEF StartRequest, ClientType
<1>3. (requestId + 2) % 2 = 0 /\ requestId + 2 \in 1..(requestId + 2)
  BY <1>0 DEF Ids
<1>4. Ids'
  <2>1. requestId' = requestId + 2
    BY DEF StartRequest
  <2>2. \A x \in Thread : cur'[x].id % 2 = 0
    BY <1>2, <1>3 DEF Ids
  <2>3. \A x \in Thread : pc'[x] \in Busy => cur'[x].id \in 1..requestId'
    BY <1>0, <1>2, <1>3, <2>1 DEF Ids
  <2>4. ASSUME NEW x \in Thread, NEW y \in Thread, pc'[x] \in Busy, pc'[y] \in Busy,
               cur'[x].id = cur'[y].id
        PROVE  x = y
    BY <1>0, <1>2, <2>4 DEF Ids
  <2> QED
    BY <1>3, <2>1, <2>2, <2>3, <2>4 DEF Ids
<1>5. ClientSlot'
  BY <1>2 DEF StartRequest, ClientSlot
<1>6. HistoryType'
  BY <1>0 DEF StartRequest, HistoryType, Id
<1>7. WireType' /\ Wire' /\ UNCHANGED serverVars
  BY DEF StartRequest, WireType, Wire
<1> QED
  BY <1>1, <1>4, <1>5, <1>6, <1>7, ServerAlone, Conclude

\* A busy thread that only moves on keeps the ids apart.
LEMMA MoveOn ==
  ASSUME IInv, NEW t \in Thread, NEW s, UNCHANGED <<requestId, cur>>,
         pc[t] \in Busy \/ s \notin Busy,
         \A x \in Thread : pc'[x] = IF x = t THEN s ELSE pc[x]
  PROVE  Ids'
BY Facts DEF Ids, Busy

\* rpc_write_end sends the request behind the batch.
LEMMA WriteEndInv ==
  ASSUME IInv, NEW t \in Thread, WriteEnd(t)
  PROVE  IInv'
<1> USE Facts
<1>1. RequestFrame(t) \in UpFrame
  BY RequestIsUp DEF WriteEnd, Op
<1>2. up' \in Seq(UpFrame) /\ up' \in Seq(Frame)
  <2>1. <<RequestFrame(t)>> \in Seq(UpFrame)
    BY <1>1
  <2> QED
    BY <2>1, WrittenIsUp DEF WriteEnd
<1>3. ClientType'
  BY DEF WriteEnd, ClientType
<1>4. \A x \in Thread : pc'[x] = IF x = t THEN "waiting" ELSE pc[x]
  BY DEF WriteEnd, ClientType
<1>5. Ids'
  BY <1>4, MoveOn DEF WriteEnd, Busy
<1>6. ClientSlot'
  BY <1>4 DEF WriteEnd, ClientSlot
<1>7. WireType' /\ HistoryType' /\ Wire' /\ UNCHANGED serverVars
  BY <1>2 DEF WriteEnd, WireType, HistoryType, Wire
<1> QED
  BY <1>3, <1>5, <1>6, <1>7, ServerAlone, Conclude

\* rpc_write_end_deferred sends the request or appends it to the batch.
LEMMA WriteEndDeferredInv ==
  ASSUME IInv, NEW t \in Thread, WriteEndDeferred(t)
  PROVE  IInv'
<1> USE Facts
<1>1. RequestFrame(t) \in UpFrame /\ RequestFrame(t) \in Frame
  BY RequestIsUp DEF WriteEndDeferred, Op, UpFrame
<1>2. /\ up' \in Seq(UpFrame) /\ up' \in Seq(Frame)
      /\ batch' \in Seq(UpFrame) /\ batch' \in Seq(Frame)
  <2>1. CASE cur[t].op \in Framed
    <3>1. <<RequestFrame(t)>> \in Seq(UpFrame)
      BY <1>1
    <3>2. up' = Written(<<RequestFrame(t)>>) /\ batch' = <<>>
      BY <2>1 DEF WriteEndDeferred
    <3>3. up' \in Seq(UpFrame) /\ up' \in Seq(Frame)
      BY <3>1, <3>2, WrittenIsUp
    <3> QED
      BY <3>2, <3>3
  <2>2. CASE cur[t].op \notin Framed
    <3>1. up \in Seq(UpFrame) /\ up \in Seq(Frame) /\ batch \in Seq(UpFrame) /\ batch \in Seq(Frame)
      BY DEF Wire, WireType, ClientType
    <3>2. up' = up /\ batch' = Append(batch, RequestFrame(t))
      BY <2>2 DEF WriteEndDeferred
    <3> QED
      BY <1>1, <3>1, <3>2
  <2> QED
    BY <2>1, <2>2
<1>3. ClientType'
  BY <1>2 DEF WriteEndDeferred, ClientType
<1>4. \A x \in Thread : pc'[x] = IF x = t THEN "idle" ELSE pc[x]
  BY DEF WriteEndDeferred, ClientType
<1>5. Ids'
  BY <1>4, MoveOn DEF WriteEndDeferred, Busy
<1>6. ClientSlot'
  BY <1>4 DEF WriteEndDeferred, ClientSlot
<1>7. WireType' /\ HistoryType' /\ Wire' /\ UNCHANGED serverVars
  BY <1>2 DEF WriteEndDeferred, WireType, HistoryType, Wire
<1> QED
  BY <1>3, <1>5, <1>6, <1>7, ServerAlone, Conclude

\* The deferred sender writes the batch.
LEMMA SenderFlushInv ==
  ASSUME IInv, SenderFlush
  PROVE  IInv'
<1> USE Facts
<1>1. up' \in Seq(UpFrame) /\ up' \in Seq(Frame)
  <2>1. <<>> \in Seq(UpFrame)
    OBVIOUS
  <2> QED
    BY <2>1, WrittenIsUp DEF SenderFlush
<1>2. ClientType'
  BY DEF SenderFlush, ClientType
<1>3. Ids' /\ ClientSlot'
  BY DEF SenderFlush, Ids, ClientSlot
<1>4. WireType' /\ HistoryType' /\ Wire' /\ UNCHANGED serverVars
  BY <1>1 DEF SenderFlush, WireType, HistoryType, Wire
<1> QED
  BY <1>2, <1>3, <1>4, ServerAlone, Conclude

\* The termination frame carries a fresh even id.
LEMMA WriteLaneTerminationInv ==
  ASSUME IInv, NEW t \in Thread, WriteLaneTermination(t)
  PROVE  IInv'
<1> USE Facts
<1>0. requestId \in Nat /\ requestId + 2 \in Nat /\ \A x \in Thread : cur[x].id \in Nat
  BY DEF ClientType, Id
<1>1. (requestId + 2) % 2 = 0
  BY <1>0 DEF Ids
<1>2. [id |-> requestId + 2, lane |-> t, op |-> "term"] \in UpFrame
  BY <1>0, <1>1 DEF UpFrame, Frame, Id
<1>3. up' \in Seq(UpFrame) /\ up' \in Seq(Frame)
  <2>1. <<[id |-> requestId + 2, lane |-> t, op |-> "term"]>> \in Seq(UpFrame)
    BY <1>2
  <2> QED
    BY <2>1, WrittenIsUp DEF WriteLaneTermination
<1>4. ClientType'
  BY <1>0 DEF WriteLaneTermination, ClientType, Id
<1>5. \A x \in Thread : pc'[x] = IF x = t THEN "gone" ELSE pc[x]
  BY DEF WriteLaneTermination, ClientType
<1>6. Ids'
  <2>1. requestId' = requestId + 2 /\ cur' = cur
    BY DEF WriteLaneTermination
  <2>2. \A x \in Thread : pc'[x] \in Busy => pc[x] \in Busy
    BY <1>5 DEF Busy
  <2> QED
    BY <1>0, <1>1, <2>1, <2>2 DEF Ids
<1>7. ClientSlot'
  BY <1>5 DEF WriteLaneTermination, ClientSlot
<1>8. WireType' /\ HistoryType' /\ Wire' /\ UNCHANGED serverVars
  BY <1>3 DEF WriteLaneTermination, WireType, HistoryType, Wire
<1> QED
  BY <1>4, <1>6, <1>7, <1>8, ServerAlone, Conclude

\* A new thread is idle.
LEMMA SpawnThreadInv ==
  ASSUME IInv, NEW t \in Thread, SpawnThread(t)
  PROVE  IInv'
<1> USE Facts
<1>1. ClientType'
  BY DEF SpawnThread, ClientType
<1>2. \A x \in Thread : pc'[x] = IF x = t THEN "idle" ELSE pc[x]
  BY DEF SpawnThread, ClientType
<1>3. Ids'
  BY <1>2, MoveOn DEF SpawnThread, Busy
<1>4. ClientSlot'
  BY <1>2 DEF SpawnThread, ClientSlot
<1>5. WireType' /\ HistoryType' /\ Wire' /\ UNCHANGED serverVars
  BY DEF SpawnThread, WireType, HistoryType, Wire
<1> QED
  BY <1>1, <1>3, <1>4, <1>5, ServerAlone, Conclude

\* The slot is empty when it is filled, so nobody is reading a frame: a busy
\* thread's id is positive and the dispatcher's is odd.
LEMMA ClientReadIdInv ==
  ASSUME IInv, ClientReadId
  PROVE  IInv'
<1>0. /\ ClientType /\ WireType /\ HistoryType /\ Ids /\ ClientSlot /\ Wire
      /\ \A x \in Thread : cur[x].id \in Nat
  BY Facts DEF ClientType, Id
<1>1. Head(down) \in Frame /\ Tail(down) \in Seq(Frame)
  BY <1>0 DEF ClientReadId, WireType
<1>2. ClientType'
  BY <1>0, <1>1 DEF ClientReadId, ClientType
<1>3. Ids'
  BY <1>0 DEF ClientReadId, Ids
<1>4. cRead.id = 0
  BY DEF ClientReadId, NoFrame, NoId
<1>5. \A x \in Thread : pc[x] # "reading"
  BY <1>0, <1>4 DEF Ids, ClientSlot, Busy
<1>6. disp # "reading"
  BY <1>0, <1>4 DEF ClientSlot
<1>7. ClientSlot'
  BY <1>0, <1>5, <1>6 DEF ClientReadId, ClientSlot
<1>8. WireType' /\ HistoryType' /\ Wire' /\ UNCHANGED serverVars
  BY <1>0, <1>1 DEF ClientReadId, WireType, HistoryType, Wire
<1> QED
  BY <1>2, <1>3, <1>7, <1>8, ServerAlone, Conclude

\* rpc_read_start: the frame in the slot is the thread's.
LEMMA ReadStartInv ==
  ASSUME IInv, NEW t \in Thread, ReadStart(t)
  PROVE  IInv'
<1> USE Facts
<1>1. ClientType'
  BY DEF ReadStart, ClientType
<1>2. \A x \in Thread : pc'[x] = IF x = t THEN "reading" ELSE pc[x]
  BY DEF ReadStart, ClientType
<1>3. Ids'
  BY <1>2, MoveOn DEF ReadStart, Busy
<1>4. ClientSlot'
  BY <1>2 DEF ReadStart, ClientSlot
<1>5. WireType' /\ HistoryType' /\ Wire' /\ UNCHANGED serverVars
  BY DEF ReadStart, WireType, HistoryType, Wire
<1> QED
  BY <1>1, <1>3, <1>4, <1>5, ServerAlone, Conclude

\* Two readers of the slot would share an id, or an id would be odd and even.
LEMMA OneReader ==
  ASSUME IInv, NEW t \in Thread, pc[t] = "reading"
  PROVE  /\ \A x \in Thread : pc[x] = "reading" => x = t
         /\ disp # "reading"
         /\ cRead.id \in Nat \ {0}
<1>1. Ids /\ ClientSlot /\ requestId \in Nat /\ \A x \in Thread : cur[x].id \in Nat
  BY Facts DEF ClientType, Id
<1>2. cRead.id = cur[t].id /\ cur[t].id \in 1..requestId /\ cur[t].id % 2 = 0
  BY <1>1 DEF Ids, ClientSlot, Busy
<1>3. \A x \in Thread : pc[x] = "reading" => x = t
  BY <1>1 DEF Ids, ClientSlot, Busy
<1>4. disp # "reading"
  BY <1>1, <1>2 DEF ClientSlot
<1> QED
  BY <1>1, <1>2, <1>3, <1>4

\* rpc_read_end empties the slot under no other reader.
LEMMA ReadEndInv ==
  ASSUME IInv, NEW t \in Thread, ReadEnd(t)
  PROVE  IInv'
<1> USE Facts
<1>0. NoFrame \in Frame
  BY DEF NoFrame, Frame, Id, NoId, Free
<1>1. ClientType'
  BY <1>0 DEF ReadEnd, ClientType
<1>2. \A x \in Thread : pc'[x] = IF x = t THEN "idle" ELSE pc[x]
  BY DEF ReadEnd, ClientType
<1>3. Ids'
  BY <1>2, MoveOn DEF ReadEnd, Busy
<1>4. (\A x \in Thread : pc[x] = "reading" => x = t) /\ disp # "reading"
  BY OneReader DEF ReadEnd
<1>5. ClientSlot'
  BY <1>2, <1>4 DEF ReadEnd, ClientSlot
<1>6. WireType' /\ HistoryType' /\ Wire' /\ UNCHANGED serverVars
  BY DEF ReadEnd, WireType, HistoryType, Wire
<1> QED
  BY <1>1, <1>3, <1>5, <1>6, ServerAlone, Conclude

\* rpc_dispatch: the frame in the slot is a request of the server.
LEMMA DispatchStartInv ==
  ASSUME IInv, DispatchStart
  PROVE  IInv'
<1> USE Facts
<1>1. ClientType' /\ Ids' /\ ClientSlot'
  BY DEF DispatchStart, ClientType, Ids, ClientSlot
<1>2. WireType' /\ HistoryType' /\ Wire' /\ UNCHANGED serverVars
  BY DEF DispatchStart, WireType, HistoryType, Wire
<1> QED
  BY <1>1, <1>2, ServerAlone, Conclude

\* The dispatcher empties the slot under no reading thread.
LEMMA DispatchReadEndInv ==
  ASSUME IInv, DispatchReadEnd
  PROVE  IInv'
<1> USE Facts
<1>0. NoFrame \in Frame /\ cRead.id \in Id
  BY DEF NoFrame, Frame, Id, NoId, Free, ClientType
<1>1. ClientType' /\ Ids'
  BY <1>0 DEF DispatchReadEnd, ClientType, Ids
<1>2. \A x \in Thread : pc[x] # "reading"
  BY OneReader DEF DispatchReadEnd
<1>3. ClientSlot'
  BY <1>2 DEF DispatchReadEnd, ClientSlot
<1>4. WireType' /\ HistoryType' /\ Wire' /\ UNCHANGED serverVars
  BY DEF DispatchReadEnd, WireType, HistoryType, Wire
<1> QED
  BY <1>1, <1>3, <1>4, ServerAlone, Conclude

\* The response to a host callback keeps the callback's odd id.
LEMMA DispatchReplyInv ==
  ASSUME IInv, DispatchReply
  PROVE  IInv'
<1> USE Facts
<1>0. dispId \in Nat /\ dispId % 2 = 1
  BY DEF DispatchReply, ClientType, ClientSlot, Id
<1>1. [id |-> dispId, lane |-> Free, op |-> "resp"] \in UpFrame
  BY <1>0 DEF UpFrame, Frame, Id, Free
<1>2. up' \in Seq(UpFrame) /\ up' \in Seq(Frame)
  <2>1. <<[id |-> dispId, lane |-> Free, op |-> "resp"]>> \in Seq(UpFrame)
    BY <1>1
  <2> QED
    BY <2>1, WrittenIsUp DEF DispatchReply
<1>3. ClientType' /\ Ids'
  BY DEF DispatchReply, ClientType, Ids, Id, NoId
<1>4. ClientSlot'
  BY DEF DispatchReply, ClientSlot
<1>5. WireType' /\ HistoryType' /\ Wire' /\ UNCHANGED serverVars
  BY <1>2 DEF DispatchReply, WireType, HistoryType, Wire
<1> QED
  BY <1>3, <1>4, <1>5, ServerAlone, Conclude

----------------------------------------------------------------------------
(* The server's actions.  They leave the client alone; `up` only shrinks.   *)

\* A server action that keeps `up` and `issued` has its own types to establish.
LEMMA ServerConclude ==
  ASSUME IInv, UNCHANGED clientVars, ServerType', WireType', HistoryType',
         up' \in Seq(UpFrame)
  PROVE  IInv'
BY ClientAlone, Conclude DEF Wire

\* Taking a frame off the stream.
LEMMA ReadsUp ==
  ASSUME IInv, up # <<>>
  PROVE  Head(up) \in UpFrame /\ Tail(up) \in Seq(UpFrame) /\ Tail(up) \in Seq(Frame)
<1>1. up \in Seq(UpFrame) /\ up \in Seq(Frame)
  BY Facts DEF Wire, WireType
<1> QED
  BY <1>1

\* A response to a callback stays in the slot.
LEMMA ServerReadResponseInv ==
  ASSUME IInv, ServerReadResponse
  PROVE  IInv'
<1> USE Facts
<1>1. Head(up) \in UpFrame /\ Tail(up) \in Seq(UpFrame) /\ Tail(up) \in Seq(Frame)
  BY ReadsUp DEF ServerReadResponse
<1>2. ServerType'
  BY <1>1 DEF ServerReadResponse, ServerType, UpFrame
<1>3. WireType' /\ HistoryType' /\ up' \in Seq(UpFrame) /\ UNCHANGED clientVars
  BY <1>1 DEF ServerReadResponse, WireType, HistoryType
<1> QED
  BY <1>2, <1>3, ServerConclude

\* An even frame names a lane of the client's and an op a worker can be handed.
LEMMA ServerReadRequestInv ==
  ASSUME IInv, ServerReadRequest
  PROVE  IInv'
<1> USE Facts
<1> DEFINE f == Head(up)
<1>1. f \in UpFrame /\ Tail(up) \in Seq(UpFrame) /\ Tail(up) \in Seq(Frame)
  BY ReadsUp DEF ServerReadRequest
<1>2. f \in Frame /\ f.lane \in Thread /\ f.op \in Op \cup {"term"}
  BY <1>1 DEF ServerReadRequest, UpFrame
<1>3. /\ sRead' = f /\ up' = Tail(up) /\ joining' \in {f.lane, Free}
      /\ lane' = [lane EXCEPT ![f.lane].st = IF @ = "none" THEN "wait" ELSE @,
                               ![f.lane].ready = TRUE, ![f.lane].op = f.op]
      /\ UNCHANGED <<clientVars, down, sRequestId, pend, cbSt, cbId, issued, done>>
  BY DEF ServerReadRequest
<1> HIDE DEF f
<1>4. lane' \in [Thread -> Lane]
  BY <1>2, <1>3 DEF ServerType, Lane
<1>5. ServerType'
  BY <1>2, <1>3, <1>4 DEF ServerType
<1>6. WireType' /\ HistoryType' /\ up' \in Seq(UpFrame) /\ UNCHANGED clientVars
  BY <1>1, <1>3 DEF WireType, HistoryType
<1> QED
  BY <1>5, <1>6, ServerConclude

\* The other server actions leave `up` alone.
LEMMA UpAlone ==
  ASSUME IInv, UNCHANGED up, down' \in Seq(Frame)
  PROVE  WireType' /\ up' \in Seq(UpFrame)
BY Facts DEF Wire, WireType

\* The worker is joined and its lane erased.
LEMMA ServerJoinInv ==
  ASSUME IInv, ServerJoin
  PROVE  IInv'
<1> USE Facts
<1>1. NoLane \in Lane
  BY DEF NoLane, Lane, Id, NoId
<1>2. ServerType'
  BY <1>1 DEF ServerJoin, ServerType
<1>3. HistoryType' /\ UNCHANGED <<clientVars, up, down>> /\ down' \in Seq(Frame)
  BY DEF ServerJoin, HistoryType, WireType
<1> QED
  BY <1>2, <1>3, UpAlone, ServerConclude

\* A worker's steps keep its lane a lane.
LEMMA WorkerInv ==
  ASSUME IInv, NEW t \in Thread,
         WorkerTake(t) \/ WorkerReadEnd(t) \/ WorkerExec(t) \/ WorkerReply(t)
  PROVE  IInv'
<1> USE Facts
<1>0. NoFrame \in Frame /\ sRead.id \in Nat /\ lane[t].id \in Nat
  BY DEF NoFrame, Frame, Id, NoId, Free, ServerType, Lane
<1>1. CASE WorkerTake(t)
  <2>1. lane' \in [Thread -> Lane] /\ sRead' \in Frame
    BY <1>0, <1>1 DEF WorkerTake, ServerType, Lane
  <2>2. ServerType'
    BY <1>1, <2>1 DEF WorkerTake, ServerType
  <2>3. HistoryType' /\ UNCHANGED <<clientVars, up, down>> /\ down' \in Seq(Frame)
    BY <1>1 DEF WorkerTake, HistoryType, WireType
  <2> QED
    BY <2>2, <2>3, UpAlone, ServerConclude
<1>2. CASE WorkerReadEnd(t)
  <2>1. lane' \in [Thread -> Lane] /\ sRead' \in Frame
    BY <1>0, <1>2 DEF WorkerReadEnd, ServerType, Lane, Id
  <2>2. ServerType'
    BY <1>2, <2>1 DEF WorkerReadEnd, ServerType
  <2>3. HistoryType' /\ UNCHANGED <<clientVars, up, down>> /\ down' \in Seq(Frame)
    BY <1>2 DEF WorkerReadEnd, HistoryType, WireType
  <2> QED
    BY <2>2, <2>3, UpAlone, ServerConclude
<1>3. CASE WorkerExec(t)
  <2>1. lane' \in [Thread -> Lane] /\ pend' \in Nat
    BY <1>3 DEF WorkerExec, ServerType, Lane
  <2>2. ServerType'
    BY <1>3, <2>1 DEF WorkerExec, ServerType
  <2>3. HistoryType'
    BY <1>0, <1>3 DEF WorkerExec, HistoryType, Id
  <2>4. UNCHANGED <<clientVars, up, down>> /\ down' \in Seq(Frame)
    BY <1>3 DEF WorkerExec, WireType
  <2> QED
    BY <2>2, <2>3, <2>4, UpAlone, ServerConclude
<1>4. CASE WorkerReply(t)
  <2>1. ServerType'
    BY <1>4 DEF WorkerReply, ServerType, Lane
  <2>2. [id |-> lane[t].id, lane |-> Free, op |-> "resp"] \in Frame
    BY <1>0 DEF Frame, Id, Free
  <2>3. down' \in Seq(Frame)
    BY <1>4, <2>2 DEF WorkerReply, WireType
  <2>4. HistoryType' /\ UNCHANGED <<clientVars, up>>
    BY <1>4 DEF WorkerReply, HistoryType
  <2> QED
    BY <2>1, <2>3, <2>4, UpAlone, ServerConclude
<1> QED
  BY <1>1, <1>2, <1>3, <1>4

\* So do the steps of a CUDA thread that runs a host callback.
LEMMA CallbackInv ==
  ASSUME IInv, NEW c \in Callback,
         CallbackRequest(c) \/ CallbackReadStart(c) \/ CallbackReadEnd(c)
  PROVE  IInv'
<1> USE Facts
<1>0. NoFrame \in Frame /\ sRequestId + 2 \in Nat
  BY DEF NoFrame, Frame, Id, NoId, Free, ServerType
<1>1. CASE CallbackRequest(c)
  <2>1. ServerType'
    BY <1>0, <1>1 DEF CallbackRequest, ServerType, Id
  <2>2. [id |-> sRequestId + 2, lane |-> Free, op |-> "cb"] \in Frame
    BY <1>0 DEF Frame, Id, Free
  <2>3. down' \in Seq(Frame)
    BY <1>1, <2>2 DEF CallbackRequest, WireType
  <2>4. HistoryType' /\ UNCHANGED <<clientVars, up>>
    BY <1>1 DEF CallbackRequest, HistoryType
  <2> QED
    BY <2>1, <2>3, <2>4, UpAlone, ServerConclude
<1>2. CASE CallbackReadStart(c)
  <2>1. ServerType'
    BY <1>2 DEF CallbackReadStart, ServerType
  <2>2. HistoryType' /\ UNCHANGED <<clientVars, up, down>> /\ down' \in Seq(Frame)
    BY <1>2 DEF CallbackReadStart, HistoryType, WireType
  <2> QED
    BY <2>1, <2>2, UpAlone, ServerConclude
<1>3. CASE CallbackReadEnd(c)
  <2>1. ServerType'
    BY <1>0, <1>3 DEF CallbackReadEnd, ServerType
  <2>2. HistoryType' /\ UNCHANGED <<clientVars, up, down>> /\ down' \in Seq(Frame)
    BY <1>3 DEF CallbackReadEnd, HistoryType, WireType
  <2> QED
    BY <2>1, <2>2, UpAlone, ServerConclude
<1> QED
  BY <1>1, <1>2, <1>3

----------------------------------------------------------------------------
\* A step that changes nothing keeps the invariant.
LEMMA StutterInv ==
  ASSUME IInv, UNCHANGED vars
  PROVE  IInv'
<1>1. UNCHANGED clientVars /\ UNCHANGED serverVars /\ UNCHANGED <<up, down, issued, done>>
  BY DEF vars
<1>2. ServerType' /\ HistoryType' /\ down' \in Seq(Frame)
  BY <1>1, ServerAlone, Facts DEF HistoryType, WireType
<1> QED
  BY <1>1, <1>2, UpAlone, ServerConclude

\* Every step keeps the invariant.
LEMMA NextInv == IInv /\ [Next]_vars => IInv'
<1> SUFFICES ASSUME IInv, [Next]_vars PROVE IInv'
  OBVIOUS
<1>1. CASE ClientStep
  <2>1. ASSUME NEW t \in Thread, NEW op \in Op, LockCall(t, op) PROVE IInv'
    BY <2>1, LockCallInv
  <2>2. ASSUME NEW t \in Thread, StartRequest(t) PROVE IInv'
    BY <2>2, StartRequestInv
  <2>3. ASSUME NEW t \in Thread, WriteEnd(t) \/ WriteEndDeferred(t) PROVE IInv'
    BY <2>3, WriteEndInv, WriteEndDeferredInv
  <2>4. ASSUME NEW t \in Thread, ReadStart(t) \/ ReadEnd(t) PROVE IInv'
    BY <2>4, ReadStartInv, ReadEndInv
  <2>5. ASSUME NEW t \in Thread, WriteLaneTermination(t) \/ SpawnThread(t) PROVE IInv'
    BY <2>5, WriteLaneTerminationInv, SpawnThreadInv
  <2>6. CASE SenderFlush \/ ClientReadId
    BY <2>6, SenderFlushInv, ClientReadIdInv
  <2>7. CASE DispatchStart \/ DispatchReadEnd \/ DispatchReply
    BY <2>7, DispatchStartInv, DispatchReadEndInv, DispatchReplyInv
  <2> QED
    BY <1>1, <2>1, <2>2, <2>3, <2>4, <2>5, <2>6, <2>7 DEF ClientStep
<1>2. CASE ServerStep
  <2>1. CASE ServerReadResponse \/ ServerReadRequest \/ ServerJoin
    BY <2>1, ServerReadResponseInv, ServerReadRequestInv, ServerJoinInv
  <2>2. CASE \E t \in Thread : WorkerTake(t) \/ WorkerReadEnd(t) \/ WorkerExec(t) \/ WorkerReply(t)
    BY <2>2, WorkerInv
  <2>3. CASE \E c \in Callback : CallbackRequest(c) \/ CallbackReadStart(c) \/ CallbackReadEnd(c)
    BY <2>3, CallbackInv
  <2> QED
    BY <1>2, <2>1, <2>2, <2>3 DEF ServerStep
<1>3. CASE Finished \/ UNCHANGED vars
  BY <1>3, StutterInv DEF Finished
<1> QED
  BY <1>1, <1>2, <1>3 DEF Next

\* The connection keeps its types, for any number of threads, callbacks and
\* requests: in particular the reader of client_handler only ever hands a lane
\* worker a request of that lane, never a callback's response.
THEOREM TypeCorrect == Spec => []TypeOK
<1>1. IInv => TypeOK
  BY DEF IInv
<1> QED
  BY InitInv, NextInv, <1>1, PTL DEF Spec

\* The invariant reserves the client's slot.
LEMMA InvReserves == IInv => OneClientReader
<1> SUFFICES ASSUME IInv PROVE OneClientReader
  OBVIOUS
<1>1. ASSUME NEW t \in Thread, pc[t] = "reading"
      PROVE  /\ cRead # NoFrame /\ cRead.id = cur[t].id
             /\ disp # "reading"
             /\ \A u \in Thread \ {t} : pc[u] # "reading"
  BY <1>1, OneReader, Facts DEF ClientSlot, NoFrame, NoId
<1>2. disp = "reading" => cRead # NoFrame /\ cRead.id % 2 = 1
  BY Facts DEF ClientSlot, NoFrame, NoId
<1> QED
  BY <1>1, <1>2 DEF OneClientReader

\* Once rpc_read_start or rpc_dispatch returns, the frame in the client's read
\* slot is reserved for that one caller until its rpc_read_end.
THEOREM ClientSlotReserved == Spec => []OneClientReader
BY InitInv, NextInv, InvReserves, PTL DEF Spec
----------------------------------------------------------------------------
(* The way of a request: the stronger invariant behind OneServerOwner,       *)
(* NoOrphanResponse and the refinement of CallOrder.                         *)

\* Everything sent to the server and not yet read there.
Pipe == up \o batch
PipeDom == 1 .. Len(Pipe)

\* A request of the client, or a response to one; the odd frames are callbacks'.
Req(f) == f.id # NoId /\ f.id % 2 = 0
Cb(f) == f.id % 2 = 1

\* A request gets its id and is written under write_mutex, within call_mutex.
Turns ==
  /\ requestId <= MaxRequest
  /\ \A t \in Thread :
       /\ pc[t] \in {"locked", "building"} => callMutex = t /\ cur[t].op \in Op
       /\ pc[t] = "building" => writeMutex = t /\ cur[t].id = requestId
       /\ pc[t] = "locked" => requestId + 2 <= MaxRequest
       /\ pc[t] \in {"waiting", "reading"} => cur[t].op \in Sync

\* Ids are issued and executed in increasing order.
IssuesOf(t) ==
  /\ issued[t] \subseteq 1 .. requestId
  /\ done[t] \subseteq issued[t]
  /\ \A i \in issued[t], j \in done[t] : i < j => i \in done[t]
  /\ pc[t] \in Busy => \A i \in issued[t] : i <= cur[t].id
  /\ pc[t] = "building" => cur[t].id \in issued[t] /\ cur[t].id \notin done[t]
Issues == \A t \in Thread : IssuesOf(t)

\* x is older than the request that is being built.
Older(x) == x <= requestId /\ \A t \in Thread : pc[t] = "building" => x < cur[t].id

\* A request on its way is outstanding, and awaited if it is synchronous.
Outstanding(t, id) == id \in issued[t] /\ id \notin done[t]
AwaitedBy(t, id) == pc[t] = "waiting" /\ cur[t].id = id
OnItsWay(f) ==
  /\ f.lane \in Thread /\ Older(f.id)
  /\ f.op # "term" => Outstanding(f.lane, f.id)
  /\ f.op \in Sync => AwaitedBy(f.lane, f.id)

\* The pipe, the slot and the workers hold requests in the order of their ids.
PipeOrder ==
  /\ \A i \in PipeDom : Pipe[i].id # NoId /\ (Req(Pipe[i]) => OnItsWay(Pipe[i]))
  /\ \A i, j \in PipeDom : i < j /\ Req(Pipe[i]) /\ Req(Pipe[j]) => Pipe[i].id < Pipe[j].id
SlotOrder ==
  Req(sRead) => OnItsWay(sRead) /\ \A i \in PipeDom : Req(Pipe[i]) => sRead.id < Pipe[i].id
LaneOrder ==
  \A t \in Thread : lane[t].st = "exec" =>
    /\ Older(lane[t].id) /\ Outstanding(t, lane[t].id)
    /\ lane[t].run \in Sync => AwaitedBy(t, lane[t].id)
    /\ Req(sRead) => lane[t].id < sRead.id
    /\ \A i \in PipeDom : Req(Pipe[i]) => lane[t].id < Pipe[i].id

\* Nothing that was issued gets lost before it is executed.
Carries(f, t, id) == Req(f) /\ f.id = id /\ f.lane = t /\ f.op # "term"
InPipe(t, id) == \E i \in PipeDom : Carries(Pipe[i], t, id)
InSlot(t, id) == Carries(sRead, t, id)
CoveredBy(t, id) ==
  \/ pc[t] = "building" /\ id = cur[t].id
  \/ InPipe(t, id)
  \/ InSlot(t, id)
  \/ lane[t].st = "exec" /\ lane[t].id = id
Covered == \A t \in Thread : \A id \in issued[t] \ done[t] : CoveredBy(t, id)

\* A request in the server's slot has been handed to its lane, and to no other.
HandedOver ==
  /\ sRead # NoFrame => sRead.id # NoId
  /\ Req(sRead) => /\ sRead.lane \in Thread /\ sRead.op \in Op \cup {"term"}
                   /\ lane[sRead.lane].ready \/ lane[sRead.lane].st = "body"
                   /\ sRead.op = "term" => joining = sRead.lane
LaneSlot(t) ==
  /\ lane[t].ready \/ lane[t].st = "body" => Req(sRead) /\ sRead.lane = t
  /\ lane[t].ready => lane[t].op = sRead.op /\ lane[t].st \notin {"none", "body", "exited"}
  /\ lane[t].st = "body" => lane[t].run = sRead.op /\ sRead.op # "term"
  /\ lane[t].st = "exited" => joining = t
  /\ lane[t].st \in {"exec", "reply"} => Req(lane[t])
SlotLane == HandedOver /\ \A t \in Thread : LaneSlot(t)

\* A response on its way to the client, or about to be sent, is the only one for its
\* request, and its thread is waiting for it.
Answers(f) == \E t \in Thread : /\ pc[t] \in {"waiting", "reading"}
                                /\ cur[t].id = f.id /\ f.id \in done[t]
DownDom == 1 .. Len(down)
Inbounds ==
  /\ \A i \in DownDom : /\ down[i].id # NoId
                        /\ Req(down[i]) => Answers(down[i])
                        /\ Cb(down[i]) => down[i].op = "cb"
  /\ \A i, j \in DownDom : Req(down[i]) /\ down[i].id = down[j].id => i = j
InSlotOfClient ==
  /\ cRead # NoFrame => cRead.id # NoId
  /\ Cb(cRead) => cRead.op = "cb"
  /\ Req(cRead) => Answers(cRead) /\ \A i \in DownDom : cRead.id # down[i].id
Replying(t) ==
  lane[t].st = "reply" =>
    /\ AwaitedBy(t, lane[t].id) /\ lane[t].id \in done[t]
    /\ cRead.id # lane[t].id /\ \A i \in DownDom : down[i].id # lane[t].id
Responses == Inbounds /\ InSlotOfClient /\ \A t \in Thread : Replying(t)

\* An odd id belongs to one CUDA thread that waits for its callback.
Calling(x) == x <= sRequestId /\ \E c \in Callback : cbSt[c] # "idle" /\ cbId[c] = x
Callers ==
  /\ sRequestId % 2 = 1
  /\ \A c \in Callback : /\ cbSt[c] # "idle" => cbId[c] % 2 = 1 /\ cbId[c] <= sRequestId
                         /\ cbSt[c] = "reading" => cbId[c] = sRead.id
  /\ \A c, d \in Callback : cbSt[c] # "idle" /\ cbSt[d] # "idle" /\ cbId[c] = cbId[d] => c = d

\* The callbacks' ids on their way round, newest first: down, the client's slot, the
\* dispatcher, the pipe, the server's slot.
DownCbs ==
  /\ \A k \in DownDom : Cb(down[k]) => Calling(down[k].id)
  /\ \A i, j \in DownDom : i < j /\ Cb(down[i]) /\ Cb(down[j]) => down[i].id < down[j].id
NewerThan(x) == \A k \in DownDom : Cb(down[k]) => x < down[k].id
ClientCbs ==
  /\ Cb(cRead) => Calling(cRead.id) /\ NewerThan(cRead.id)
  /\ disp = "running" => Calling(dispId) /\ NewerThan(dispId) /\ (Cb(cRead) => dispId < cRead.id)
NewerAll(x) == NewerThan(x) /\ (Cb(cRead) => x < cRead.id) /\ (disp = "running" => x < dispId)
PipeCbs ==
  /\ \A i \in PipeDom : Cb(Pipe[i]) => Calling(Pipe[i].id) /\ NewerAll(Pipe[i].id)
  /\ \A i, j \in PipeDom : i < j /\ Cb(Pipe[i]) /\ Cb(Pipe[j]) => Pipe[i].id < Pipe[j].id
SlotCbs ==
  Cb(sRead) => /\ Calling(sRead.id) /\ NewerAll(sRead.id)
               /\ \A i \in PipeDom : Cb(Pipe[i]) => sRead.id < Pipe[i].id

Ordering == PipeOrder /\ SlotOrder /\ LaneOrder /\ Covered
Round == Callers /\ DownCbs /\ ClientCbs /\ PipeCbs /\ SlotCbs
OrderInv == IInv /\ Turns /\ Issues /\ Ordering /\ SlotLane /\ Responses /\ Round

----------------------------------------------------------------------------
(* Each part is kept by each step.                                         *)

----------------------------------------------------------------------------
\* What is in the pipe is a frame that may travel to the server.
LEMMA PipeType == Wire => Pipe \in Seq(UpFrame) /\ \A i \in PipeDom : Pipe[i] \in UpFrame
BY DEF Wire, Pipe, PipeDom

\* The pipe has grown by the frame f.
Grown(f) ==
  /\ Len(Pipe') = Len(Pipe) + 1 /\ Len(Pipe) \in Nat
  /\ PipeDom' = PipeDom \cup {Len(Pipe) + 1}
  /\ \A i \in PipeDom : Pipe'[i] = Pipe[i] /\ i < Len(Pipe) + 1
  /\ Pipe'[Len(Pipe) + 1] = f

\* Writing a frame directly, behind the flushed batch, puts it at the end of the pipe.
LEMMA PipeWritten ==
  ASSUME Wire, NEW f \in UpFrame, up' = Written(<<f>>), batch' = <<>>
  PROVE  Grown(f)
<1>1. Pipe' = Append(Pipe, f) /\ Pipe \in Seq(UpFrame)
  BY DEF Wire, Pipe, Written
<1> QED
  BY <1>1 DEF Grown, PipeDom

\* So does appending it to the batch.
LEMMA PipeBatched ==
  ASSUME Wire, NEW f \in UpFrame, batch' = Append(batch, f), UNCHANGED up
  PROVE  Grown(f)
<1>1. Pipe' = Append(Pipe, f) /\ Pipe \in Seq(UpFrame)
  BY DEF Wire, Pipe, Written
<1> QED
  BY <1>1 DEF Grown, PipeDom

\* Flushing the batch moves nothing within the pipe.
LEMMA PipeFlushed ==
  ASSUME Wire, up' = Written(<<>>), batch' = <<>>
  PROVE  Pipe' = Pipe
BY DEF Wire, Pipe, Written

\* The server's reader takes the first frame of the pipe; the others move up by one.
LEMMA PipeRead ==
  ASSUME Wire, up # <<>>, up' = Tail(up), UNCHANGED batch
  PROVE  /\ 1 \in PipeDom /\ Pipe[1] = Head(up) /\ Len(Pipe) \in Nat
         /\ \A i \in PipeDom' : i + 1 \in PipeDom /\ Pipe'[i] = Pipe[i + 1] /\ i \in Nat \ {0}
         /\ \A i \in PipeDom \ {1} : i - 1 \in PipeDom' /\ Pipe'[i - 1] = Pipe[i] /\ i \in Nat
<1>1. up \in Seq(UpFrame) /\ batch \in Seq(UpFrame) /\ Len(up) > 0
  BY DEF Wire
<1>2. Pipe = up \o batch /\ Pipe' = Tail(up) \o batch
  BY DEF Pipe
<1> QED
  BY <1>1, <1>2 DEF PipeDom

\* The types the steps below use, with Id unfolded.
LEMMA Types ==
  ASSUME IInv
  PROVE  /\ requestId \in Nat /\ sRequestId \in Nat /\ dispId \in Nat
         /\ pc \in [Thread -> {"idle", "locked", "building", "waiting", "reading", "gone"}]
         /\ cur \in [Thread -> [id : Nat, op : Op \cup {"none"}]]
         /\ lane \in [Thread -> Lane]
         /\ \A t \in Thread : cur[t].id \in Nat /\ lane[t].id \in Nat
         /\ issued \in [Thread -> SUBSET Nat] /\ done \in [Thread -> SUBSET Nat]
         /\ cRead \in Frame /\ cRead.id \in Nat /\ sRead \in Frame /\ sRead.id \in Nat
         /\ down \in Seq(Frame)
         /\ cbSt \in [Callback -> {"idle", "waiting", "reading"}] /\ cbId \in [Callback -> Nat]
<1>1. TypeOK
  BY DEF IInv
<1> QED
  BY <1>1 DEF TypeOK, Id, Frame, Lane

\* A step of a client thread respects the two mutexes.
LEMMA TurnsClient ==
  ASSUME IInv, Turns, NEW t \in Thread,
         \/ \E op \in Op : LockCall(t, op)
         \/ StartRequest(t) \/ WriteEnd(t) \/ WriteEndDeferred(t)
         \/ ReadStart(t) \/ ReadEnd(t)
         \/ WriteLaneTermination(t) \/ SpawnThread(t)
  PROVE  Turns'
<1> USE ConnAssumption, Types DEF Turns, Free
<1>1. CASE \E op \in Op : LockCall(t, op)
  <2>1. PICK op \in Op : LockCall(t, op)
    BY <1>1
  <2>2. \A x \in Thread : /\ pc'[x] = IF x = t THEN "locked" ELSE pc[x]
                          /\ cur'[x].op = IF x = t THEN op ELSE cur[x].op
                          /\ x # t => cur'[x].id = cur[x].id
    BY <2>1 DEF LockCall
  <2> QED
    BY <2>1, <2>2 DEF LockCall
<1>2. CASE StartRequest(t)
  <2>2. \A x \in Thread : /\ pc'[x] = IF x = t THEN "building" ELSE pc[x]
                          /\ cur'[x].op = cur[x].op
                          /\ cur'[x].id = IF x = t THEN requestId + 2 ELSE cur[x].id
    BY <1>2 DEF StartRequest
  <2> QED
    BY <1>2, <2>2 DEF StartRequest
<1>3. CASE WriteEnd(t)
  BY <1>3 DEF WriteEnd
<1>4. CASE WriteEndDeferred(t)
  BY <1>4 DEF WriteEndDeferred
<1>5. CASE ReadStart(t)
  BY <1>5 DEF ReadStart
<1>6. CASE ReadEnd(t)
  BY <1>6 DEF ReadEnd
<1>7. CASE WriteLaneTermination(t)
  BY <1>7 DEF WriteLaneTermination
<1>8. CASE SpawnThread(t)
  BY <1>8 DEF SpawnThread
<1> QED
  BY <1>1, <1>2, <1>3, <1>4, <1>5, <1>6, <1>7, <1>8

\* A step that touches neither threads, mutexes nor the counter keeps Turns.
LEMMA TurnsKept ==
  ASSUME Turns, UNCHANGED <<pc, cur, callMutex, writeMutex, requestId>>
  PROVE  Turns'
BY DEF Turns

\* Issues survives a step that issues and executes nothing.
LEMMA IssuesCalm ==
  ASSUME IInv, Issues, UNCHANGED <<issued, done>>, requestId' \in Nat, requestId <= requestId',
         \A x \in Thread : /\ pc'[x] \in Busy => pc[x] \in Busy /\ cur'[x].id = cur[x].id
                           /\ pc'[x] = "building" => pc[x] = "building"
  PROVE  Issues'
<1> SUFFICES ASSUME NEW x \in Thread PROVE IssuesOf(x)'
  BY DEF Issues
<1>1. IssuesOf(x) /\ requestId \in Nat
  BY Types DEF Issues
<1> QED
  BY <1>1 DEF IssuesOf, Busy

\* A request gets an id newer than all the others of its thread.
LEMMA IssuesStart ==
  ASSUME IInv, Issues, NEW t \in Thread, StartRequest(t)
  PROVE  Issues'
<1>1. \A x \in Thread : /\ pc'[x] = IF x = t THEN "building" ELSE pc[x]
                        /\ cur'[x].id = IF x = t THEN requestId + 2 ELSE cur[x].id
                        /\ issued'[x] = IF x = t THEN issued[x] \cup {requestId + 2} ELSE issued[x]
  BY Types DEF StartRequest
<1>2. UNCHANGED done /\ requestId' = requestId + 2 /\ requestId \in Nat
  BY Types DEF StartRequest
<1> SUFFICES ASSUME NEW x \in Thread PROVE IssuesOf(x)'
  BY DEF Issues
<1>3. IssuesOf(x)
  BY DEF Issues
<1>4. \A i \in issued[x] : i \in Nat /\ 1 <= i /\ i <= requestId
  BY <1>2, <1>3 DEF IssuesOf
<1>5. \A j \in done[x] : j \in issued[x]
  BY <1>3 DEF IssuesOf
<1>6. CASE x = t
  <2>0. requestId + 2 \notin done[x]
    BY <1>2, <1>4, <1>5
  <2>1. /\ requestId + 2 \notin done[x] /\ pc'[x] = "building"
        /\ issued'[x] = issued[x] \cup {requestId + 2} /\ cur'[x].id = requestId + 2
    BY <1>1, <1>6, <2>0
  <2>2. \A i \in issued'[x], j \in done'[x] : i < j => i \in done'[x]
    <3> SUFFICES ASSUME NEW i \in issued'[x], NEW j \in done[x], i < j PROVE i \in done[x]
      BY <1>2
    <3>1. i \in issued[x]
      BY <1>2, <1>4, <1>5, <2>1
    <3> QED
      BY <1>3, <3>1 DEF IssuesOf
  <2>3. issued'[x] \subseteq 1 .. requestId' /\ \A i \in issued'[x] : i <= cur'[x].id
    BY <1>2, <1>4, <2>1
  <2>4. done'[x] \subseteq issued'[x]
    BY <1>2, <1>5, <2>1
  <2> QED
    BY <1>2, <2>1, <2>2, <2>3, <2>4 DEF IssuesOf
<1>7. CASE x # t
  <2>1. UNCHANGED <<pc[x], cur[x].id, issued[x], done[x]>>
    BY <1>1, <1>2, <1>7
  <2>2. issued'[x] \subseteq 1 .. requestId'
    BY <1>2, <1>4, <2>1
  <2> QED
    BY <1>3, <2>1, <2>2 DEF IssuesOf
<1> QED
  BY <1>6, <1>7

\* Every step of a client thread keeps Issues.
LEMMA IssuesClient ==
  ASSUME IInv, Turns, Issues, NEW t \in Thread,
         \/ \E op \in Op : LockCall(t, op)
         \/ StartRequest(t) \/ WriteEnd(t) \/ WriteEndDeferred(t)
         \/ ReadStart(t) \/ ReadEnd(t)
         \/ WriteLaneTermination(t) \/ SpawnThread(t)
  PROVE  Issues'
<1> USE IssuesCalm, Types DEF Busy
<1>1. CASE \E op \in Op : LockCall(t, op)
  <2>1. PICK op \in Op : LockCall(t, op)
    BY <1>1
  <2>2. \A x \in Thread : /\ pc'[x] = IF x = t THEN "locked" ELSE pc[x]
                          /\ x # t => cur'[x].id = cur[x].id
    BY <2>1 DEF LockCall
  <2> QED
    BY <2>1, <2>2 DEF LockCall
<1>2. CASE StartRequest(t)
  BY <1>2, IssuesStart
<1>3. CASE WriteEnd(t)
  BY <1>3 DEF WriteEnd
<1>4. CASE WriteEndDeferred(t)
  BY <1>4 DEF WriteEndDeferred
<1>5. CASE ReadStart(t)
  BY <1>5 DEF ReadStart
<1>6. CASE ReadEnd(t)
  BY <1>6 DEF ReadEnd
<1>7. CASE WriteLaneTermination(t)
  BY <1>7 DEF WriteLaneTermination
<1>8. CASE SpawnThread(t)
  BY <1>8 DEF SpawnThread
<1> QED
  BY <1>1, <1>2, <1>3, <1>4, <1>5, <1>6, <1>7, <1>8

\* Issues depends on nothing else.
LEMMA IssuesKept ==
  ASSUME Issues, UNCHANGED <<issued, done, requestId, pc, cur>>
  PROVE  Issues'
BY DEF Issues, IssuesOf

\* What a worker executes is the oldest outstanding request of its thread.
LEMMA IssuesExec ==
  ASSUME IInv, Issues, Ordering, NEW t \in Thread, WorkerExec(t), UNCHANGED <<requestId, pc, cur>>
  PROVE  Issues'
<1>1. /\ lane[t].st = "exec" /\ UNCHANGED issued /\ lane[t].id \in Nat
      /\ \A x \in Thread : done'[x] = IF x = t THEN done[x] \cup {lane[t].id} ELSE done[x]
  BY Types DEF WorkerExec
<1>2. Outstanding(t, lane[t].id)
  BY <1>1 DEF Ordering, LaneOrder
<1>3. \A i \in issued[t] : i < lane[t].id => i \in done[t]
  <2> SUFFICES ASSUME NEW i \in issued[t], i < lane[t].id, i \notin done[t] PROVE FALSE
    OBVIOUS
  <2>1. /\ Older(lane[t].id)
        /\ Req(sRead) => lane[t].id < sRead.id
        /\ \A k \in PipeDom : Req(Pipe[k]) => lane[t].id < Pipe[k].id
    BY <1>1 DEF Ordering, LaneOrder
  <2>2. \/ pc[t] = "building" /\ i = cur[t].id
        \/ \E k \in PipeDom : Req(Pipe[k]) /\ Pipe[k].id = i
        \/ Req(sRead) /\ sRead.id = i
        \/ lane[t].id = i
    BY DEF Ordering, Covered, CoveredBy, InPipe, InSlot, Carries
  <2>3. ASSUME NEW k \in PipeDom PROVE Pipe[k].id \in Nat
    BY <2>3, PipeType DEF IInv, UpFrame, Frame, Id
  <2>4. i \in Nat /\ cur[t].id \in Nat /\ sRead.id \in Nat
    BY Types
  <2> QED
    BY <1>1, <2>1, <2>2, <2>3, <2>4 DEF Older
<1> SUFFICES ASSUME NEW x \in Thread PROVE IssuesOf(x)'
  BY DEF Issues
<1>4. IssuesOf(x)
  BY DEF Issues
<1>5. CASE x = t
  <2>1. done'[x] = done[x] \cup {lane[t].id} /\ done'[x] \subseteq issued'[x]
    BY <1>1, <1>2, <1>4, <1>5 DEF Outstanding, IssuesOf
  <2>2. \A i \in issued[x], j \in done'[x] : i < j => i \in done'[x]
    BY <1>3, <1>4, <1>5, <2>1 DEF IssuesOf
  <2>3. pc[t] = "building" => lane[t].id < cur[t].id
    BY <1>1 DEF Ordering, LaneOrder, Older
  <2>4. pc[x] = "building" => cur[x].id \notin done'[x]
    BY <1>1, <1>4, <1>5, <2>1, <2>3, Types DEF IssuesOf
  <2> QED
    BY <1>1, <1>4, <2>1, <2>2, <2>4 DEF IssuesOf
<1>6. CASE x # t
  BY <1>1, <1>4, <1>6 DEF IssuesOf
<1> QED
  BY <1>5, <1>6

\* SlotLane depends on the slot, the lanes and the join only.
LEMMA SlotLaneKept ==
  ASSUME SlotLane, UNCHANGED <<sRead, lane, joining>>
  PROVE  SlotLane'
BY DEF SlotLane, HandedOver, LaneSlot, Req

\* What the server's reader finds at the head of the stream.
LEMMA HeadOfPipe ==
  ASSUME IInv, Ordering, up # <<>>
  PROVE  /\ Head(up) \in UpFrame /\ Head(up).id \in Nat \ {0}
         /\ Req(Head(up)) => OnItsWay(Head(up))
         /\ Req(Head(up)) <=> Head(up).id % 2 = 0
         /\ Cb(Head(up)) <=> Head(up).id % 2 = 1
<1>1. up \in Seq(UpFrame) /\ batch \in Seq(UpFrame) /\ Len(up) > 0
  BY DEF IInv, Wire
<1>2. 1 \in PipeDom /\ Pipe[1] = Head(up)
  BY <1>1 DEF Pipe, PipeDom
<1>3. Pipe[1].id # NoId /\ (Req(Pipe[1]) => OnItsWay(Pipe[1]))
  BY <1>2 DEF Ordering, PipeOrder
<1> QED
  BY <1>1, <1>2, <1>3 DEF UpFrame, Frame, Id, NoId, Req, Cb

\* A callback's response enters the slot: no lane is concerned.
LEMMA SlotLaneResponse ==
  ASSUME IInv, Ordering, SlotLane, ServerReadResponse
  PROVE  SlotLane'
<1>1. Head(up) \in UpFrame /\ Head(up).id \in Nat \ {0}
  BY HeadOfPipe DEF ServerReadResponse
<1>2. /\ sRead' = Head(up) /\ sRead.id = 0 /\ sRead'.id % 2 = 1 /\ UNCHANGED <<lane, joining>>
  BY DEF ServerReadResponse, NoFrame, NoId
<1> QED
  BY <1>1, <1>2 DEF HandedOver, LaneSlot, SlotLane, Req, NoFrame, NoId

\* A request enters the slot and is handed to its lane, whose place is free.
LEMMA SlotLaneRequest ==
  ASSUME IInv, Ordering, SlotLane, ServerReadRequest
  PROVE  SlotLane'
<1> DEFINE f == Head(up)
           u == f.lane
<1>1. f \in UpFrame /\ f.id \in Nat \ {0} /\ f.id % 2 = 0
  BY HeadOfPipe DEF ServerReadRequest
<1>2. u \in Thread /\ f.op \in Op \cup {"term"}
  BY <1>1 DEF UpFrame
<1>3. /\ sRead' = f /\ joining = Free /\ sRead.id = 0
      /\ joining' = IF f.op = "term" THEN u ELSE Free
      /\ lane' = [lane EXCEPT ![u].st = IF @ = "none" THEN "wait" ELSE @,
                              ![u].ready = TRUE, ![u].op = f.op]
  BY DEF ServerReadRequest, NoFrame, NoId
<1>6. sRead'.lane = u
  BY <1>3
<1> HIDE DEF f, u
<1>4. /\ \A x \in Thread \ {u} : lane'[x] = lane[x]
      /\ lane'[u].st = (IF lane[u].st = "none" THEN "wait" ELSE lane[u].st)
      /\ lane'[u].ready /\ lane'[u].op = f.op /\ lane'[u].id = lane[u].id
  BY <1>2, <1>3, Types DEF Lane
<1>5. \A x \in Thread : ~lane[x].ready /\ lane[x].st \notin {"body", "exited"}
  BY <1>3, ConnAssumption DEF SlotLane, LaneSlot, Req, NoId, Free
<1>7. HandedOver'
  BY <1>1, <1>2, <1>3, <1>4, <1>5, <1>6 DEF HandedOver, LaneSlot, SlotLane, Req, NoFrame, NoId
<1>8. ASSUME NEW x \in Thread PROVE LaneSlot(x)'
  <2>1. CASE x = u
    BY <2>1, <1>1, <1>2, <1>3, <1>4, <1>5, <1>6 DEF HandedOver, LaneSlot, SlotLane, Req, NoFrame, NoId
  <2>2. CASE x # u
    BY <2>2, <1>4, <1>5 DEF LaneSlot, SlotLane, Req
  <2> QED
    BY <2>1, <2>2
<1> QED
  BY <1>7, <1>8 DEF SlotLane

\* A joined lane held no hand-off.
LEMMA SlotLaneJoin ==
  ASSUME IInv, SlotLane, ServerJoin
  PROVE  SlotLane'
<1>1. /\ joining \in Thread /\ lane[joining].st = "exited" /\ UNCHANGED sRead
      /\ joining' = Free
      /\ \A x \in Thread : lane'[x] = IF x = joining THEN NoLane ELSE lane[x]
  BY Types DEF ServerJoin, IInv, TypeOK
<1>2. ~lane[joining].ready /\ (Req(sRead) => sRead.lane # joining)
  BY <1>1 DEF SlotLane, HandedOver, LaneSlot
<1>7. HandedOver'
  BY <1>1, <1>2 DEF HandedOver, LaneSlot, SlotLane, Req, NoFrame, NoId, NoLane
<1>8. ASSUME NEW x \in Thread PROVE LaneSlot(x)'
  <2>1. CASE x = joining
    BY <2>1, <1>1, <1>2 DEF HandedOver, LaneSlot, SlotLane, Req, NoFrame, NoId, NoLane
  <2>2. CASE x # joining
    BY <2>2, <1>1, <1>2 DEF HandedOver, LaneSlot, SlotLane, Req, NoFrame, NoId, NoLane
  <2> QED
    BY <2>1, <2>2
<1> QED
  BY <1>7, <1>8 DEF SlotLane

\* The worker takes the op of the frame in the slot.
LEMMA SlotLaneTake ==
  ASSUME IInv, SlotLane, NEW t \in Thread, WorkerTake(t)
  PROVE  SlotLane'
<1>1. /\ lane[t].st = "wait" /\ lane[t].ready /\ UNCHANGED joining
      /\ \A x \in Thread \ {t} : lane'[x] = lane[x]
      /\ lane'[t].run = lane[t].op /\ ~lane'[t].ready
  BY Types DEF WorkerTake, Lane
<1>2. /\ Req(sRead) /\ sRead.lane = t /\ sRead.op = lane[t].op
      /\ \A x \in Thread \ {t} : ~lane[x].ready /\ lane[x].st # "body"
  BY <1>1 DEF SlotLane, LaneSlot
<1>3. CASE lane[t].op = "term"
  <2>1. lane'[t].st = "exited" /\ sRead' = NoFrame
    BY <1>3, Types DEF WorkerTake, Lane
  <2>7. HandedOver'
    BY <1>1, <1>2, <1>3, <2>1 DEF HandedOver, LaneSlot, SlotLane, Req, NoFrame, NoId
  <2>8. ASSUME NEW x \in Thread PROVE LaneSlot(x)'
    <3>1. CASE x = t
      BY <3>1, <1>1, <1>2, <1>3, <2>1 DEF HandedOver, LaneSlot, SlotLane, Req, NoFrame, NoId
    <3>2. CASE x # t
      BY <3>2, <1>1, <1>2, <1>3, <2>1 DEF HandedOver, LaneSlot, SlotLane, Req, NoFrame, NoId
    <3> QED
      BY <3>1, <3>2
  <2> QED
    BY <2>7, <2>8 DEF SlotLane
<1>4. CASE lane[t].op # "term"
  <2>1. lane'[t].st = "body" /\ UNCHANGED sRead
    BY <1>4, Types DEF WorkerTake, Lane
  <2>7. HandedOver'
    BY <1>1, <1>2, <1>4, <2>1 DEF HandedOver, LaneSlot, SlotLane, Req, NoFrame, NoId
  <2>8. ASSUME NEW x \in Thread PROVE LaneSlot(x)'
    <3>1. CASE x = t
      BY <3>1, <1>1, <1>2, <1>4, <2>1 DEF HandedOver, LaneSlot, SlotLane, Req, NoFrame, NoId
    <3>2. CASE x # t
      BY <3>2, <1>1, <1>2, <1>4, <2>1 DEF HandedOver, LaneSlot, SlotLane, Req, NoFrame, NoId
    <3> QED
      BY <3>1, <3>2
  <2> QED
    BY <2>7, <2>8 DEF SlotLane
<1> QED
  BY <1>3, <1>4

\* The worker empties the slot it was handed.
LEMMA SlotLaneReadEnd ==
  ASSUME IInv, SlotLane, NEW t \in Thread, WorkerReadEnd(t)
  PROVE  SlotLane'
<1>1. /\ lane[t].st = "body" /\ UNCHANGED joining /\ sRead' = NoFrame
      /\ \A x \in Thread \ {t} : lane'[x] = lane[x]
      /\ lane'[t].st = "exec" /\ lane'[t].id = sRead.id /\ lane'[t].ready = lane[t].ready
  BY Types DEF WorkerReadEnd, Lane
<1>2. /\ Req(sRead) /\ sRead.lane = t /\ ~lane[t].ready
      /\ \A x \in Thread \ {t} : ~lane[x].ready /\ lane[x].st # "body"
  BY <1>1 DEF SlotLane, LaneSlot
<1>7. HandedOver'
  BY <1>1, <1>2 DEF HandedOver, LaneSlot, SlotLane, Req, NoFrame, NoId
<1>8. ASSUME NEW x \in Thread PROVE LaneSlot(x)'
  <2>1. CASE x = t
    BY <2>1, <1>1, <1>2 DEF HandedOver, LaneSlot, SlotLane, Req, NoFrame, NoId
  <2>2. CASE x # t
    BY <2>2, <1>1, <1>2 DEF HandedOver, LaneSlot, SlotLane, Req, NoFrame, NoId
  <2> QED
    BY <2>1, <2>2
<1> QED
  BY <1>7, <1>8 DEF SlotLane

\* Executing and replying leave the slot alone.
LEMMA SlotLaneRun ==
  ASSUME IInv, SlotLane, NEW t \in Thread, WorkerExec(t) \/ WorkerReply(t)
  PROVE  SlotLane'
<1>1. /\ lane[t].st \in {"exec", "reply"} /\ UNCHANGED <<joining, sRead>>
      /\ \A x \in Thread \ {t} : lane'[x] = lane[x]
      /\ lane'[t].st \in {"reply", "wait"} /\ lane'[t].id = lane[t].id
      /\ lane'[t].ready = lane[t].ready /\ lane'[t].op = lane[t].op
  BY Types DEF WorkerExec, WorkerReply, Lane
<1>2. \A x \in Thread : /\ lane'[x].ready = lane[x].ready
                        /\ lane'[x].st = "body" <=> lane[x].st = "body"
  BY <1>1
<1>7. HandedOver'
  BY <1>1, <1>2 DEF HandedOver, LaneSlot, SlotLane, Req
<1>8. ASSUME NEW x \in Thread PROVE LaneSlot(x)'
  <2>1. CASE x = t
    BY <2>1, <1>1, <1>2 DEF HandedOver, LaneSlot, SlotLane, Req
  <2>2. CASE x # t
    BY <2>2, <1>1, <1>2 DEF HandedOver, LaneSlot, SlotLane, Req
  <2> QED
    BY <2>1, <2>2
<1> QED
  BY <1>7, <1>8 DEF SlotLane

\* A CUDA thread empties a slot that was handed to no lane.
LEMMA SlotLaneCallback ==
  ASSUME IInv, SlotLane, Round, NEW c \in Callback, CallbackReadEnd(c)
  PROVE  SlotLane'
<1>1. sRead.id % 2 = 1 /\ sRead' = NoFrame /\ UNCHANGED <<lane, joining>>
  BY DEF CallbackReadEnd, Round, Callers
<1> QED
  BY <1>1 DEF SlotLane, HandedOver, LaneSlot, Req, NoFrame, NoId

\* Ids in the pipe are numbers.
LEMMA PipeIds == ASSUME IInv, NEW i \in PipeDom PROVE Pipe[i] \in UpFrame /\ Pipe[i].id \in Nat
BY PipeType DEF IInv, UpFrame, Frame, Id

\* A step that makes no request newer, executed or unawaited while it is on its way.
Steady ==
  /\ \A x \in Nat : Older(x) => Older(x)'
  /\ \A u \in Thread, x \in Nat : Outstanding(u, x) => Outstanding(u, x)'
  /\ \A u \in Thread, x \in Nat : AwaitedBy(u, x) /\ Outstanding(u, x) => AwaitedBy(u, x)'

\* A steady step keeps a request on its way.
LEMMA StillOnItsWay ==
  ASSUME Steady, NEW f, f.id \in Nat, OnItsWay(f)
  PROVE  OnItsWay(f)'
<1>1. f.op \in Sync => f.op # "term"
  BY DEF Sync
<1> QED
  BY <1>1 DEF Steady, OnItsWay

\* A steady step keeps what is known of an executing request.
LEMMA LaneSteady ==
  ASSUME IInv, Ordering, Steady, NEW t \in Thread, lane[t].st = "exec", UNCHANGED lane
  PROVE  /\ Older(lane[t].id)' /\ Outstanding(t, lane[t].id)'
         /\ lane[t].run \in Sync => AwaitedBy(t, lane[t].id)'
<1>1. /\ Older(lane[t].id) /\ Outstanding(t, lane[t].id) /\ lane[t].id \in Nat
      /\ lane[t].run \in Sync => AwaitedBy(t, lane[t].id)
  BY Types DEF Ordering, LaneOrder
<1>2. PICK x : x = lane[t].id /\ lane'[t].id = x
  OBVIOUS
<1>3. /\ Older(x)' /\ Outstanding(t, x)' /\ (lane[t].run \in Sync => AwaitedBy(t, x)')
  BY <1>1, <1>2 DEF Steady
<1> QED
  BY <1>2, <1>3 DEF Older, Outstanding, AwaitedBy

\* A steady step that moves no frame keeps the order.
LEMMA OrderSame ==
  ASSUME IInv, Ordering, Steady, UNCHANGED <<sRead, lane>>, Pipe' = Pipe
  PROVE  PipeOrder' /\ SlotOrder' /\ LaneOrder'
<1>0. PipeDom' = PipeDom /\ sRead.id \in Nat
  BY Types DEF PipeDom
<1>1. PipeOrder'
  <2>1. ASSUME NEW i \in PipeDom, Req(Pipe[i]) PROVE OnItsWay(Pipe[i])'
    <3>1. PICK f : f = Pipe[i]
      OBVIOUS
    <3>2. f.id \in Nat /\ OnItsWay(f)
      BY <2>1, <3>1, PipeIds DEF Ordering, PipeOrder
    <3>3. OnItsWay(f)'
      BY <3>2, StillOnItsWay
    <3> QED
      BY <3>1, <3>3 DEF OnItsWay, Older, Outstanding, AwaitedBy
  <2> QED
    BY <1>0, <2>1 DEF Ordering, PipeOrder, Req
<1>2. SlotOrder'
  <2>1. ASSUME Req(sRead) PROVE OnItsWay(sRead)'
    <3>1. PICK f : f = sRead
      OBVIOUS
    <3>2. f.id \in Nat /\ OnItsWay(f)
      BY <1>0, <2>1, <3>1 DEF Ordering, SlotOrder
    <3>3. OnItsWay(f)'
      BY <3>2, StillOnItsWay
    <3> QED
      BY <3>1, <3>3 DEF OnItsWay, Older, Outstanding, AwaitedBy
  <2> QED
    BY <1>0, <2>1 DEF Ordering, SlotOrder, Req
<1>3. LaneOrder'
  BY <1>0, LaneSteady DEF Ordering, LaneOrder, Req
<1> QED
  BY <1>1, <1>2, <1>3

\* A step that leaves the threads' records alone is steady.
LEMMA SteadyKept ==
  ASSUME UNCHANGED <<pc, cur, requestId, issued, done>>
  PROVE  Steady
BY DEF Steady, Older, Outstanding, AwaitedBy

\* So is one that starts no request and ends no wait for an outstanding one.
LEMMA SteadyCalm ==
  ASSUME IInv, UNCHANGED <<issued, done>>, requestId' \in Nat, requestId <= requestId',
         \A x \in Thread :
           /\ pc'[x] = "building" => pc[x] = "building" /\ cur'[x].id = cur[x].id
           /\ pc[x] = "waiting" => \/ pc'[x] = "waiting" /\ cur'[x].id = cur[x].id
                                   \/ cur[x].id \in done[x]
  PROVE  Steady
BY Types DEF Steady, Older, Outstanding, AwaitedBy

\* A thread whose response is in the slot awaits a request that was executed.
LEMMA AnsweredOnce ==
  ASSUME IInv, Responses, NEW t \in Thread, pc[t] = "waiting", cRead.id = cur[t].id
  PROVE  cur[t].id \in done[t]
<1>1. Req(cRead)
  BY Types DEF IInv, Ids, Req, Busy, NoId
<1>2. PICK u \in Thread : pc[u] \in {"waiting", "reading"} /\ cur[u].id = cRead.id /\ cRead.id \in done[u]
  BY <1>1 DEF Responses, InSlotOfClient, Answers
<1>3. u = t
  BY <1>2 DEF IInv, Ids, Busy
<1> QED
  BY <1>2, <1>3

\* Every step of a client thread is steady.
LEMMA SteadyClient ==
  ASSUME IInv, Turns, Responses, NEW t \in Thread,
         \/ \E op \in Op : LockCall(t, op)
         \/ StartRequest(t) \/ WriteEnd(t) \/ WriteEndDeferred(t)
         \/ ReadStart(t) \/ ReadEnd(t)
         \/ WriteLaneTermination(t) \/ SpawnThread(t)
  PROVE  Steady
<1> USE SteadyCalm, Types
<1>1. CASE \E op \in Op : LockCall(t, op)
  <2>1. PICK op \in Op : LockCall(t, op)
    BY <1>1
  <2>2. \A x \in Thread : /\ pc'[x] = IF x = t THEN "locked" ELSE pc[x]
                          /\ x # t => cur'[x].id = cur[x].id
    BY <2>1 DEF LockCall
  <2> QED
    BY <2>1, <2>2 DEF LockCall
<1>2. CASE StartRequest(t)
  <2>1. \A x \in Thread : /\ pc'[x] = IF x = t THEN "building" ELSE pc[x]
                          /\ cur'[x].id = IF x = t THEN requestId + 2 ELSE cur[x].id
                          /\ issued'[x] = IF x = t THEN issued[x] \cup {requestId + 2} ELSE issued[x]
    BY <1>2 DEF StartRequest
  <2>2. UNCHANGED done /\ requestId' = requestId + 2 /\ requestId \in Nat /\ pc[t] = "locked"
    BY <1>2 DEF StartRequest
  <2>3. ASSUME NEW x \in Nat, Older(x) PROVE Older(x)'
    <3>1. x <= requestId'
      BY <2>2, <2>3 DEF Older
    <3>2. ASSUME NEW u \in Thread, pc'[u] = "building" PROVE x < cur'[u].id
      <4>1. CASE u = t
        <5>1. cur'[u].id = requestId + 2
          BY <2>1, <4>1
        <5>2. x <= requestId
          BY <2>3 DEF Older
        <5> QED
          BY <2>2, <5>1, <5>2
      <4>2. CASE u # t
        BY <2>1, <2>3, <3>2, <4>2 DEF Older
      <4> QED
        BY <4>1, <4>2
    <3> QED
      BY <3>1, <3>2 DEF Older
  <2>4. \A u \in Thread, x \in Nat : Outstanding(u, x) => Outstanding(u, x)'
    BY <2>1, <2>2 DEF Outstanding
  <2>5. \A u \in Thread, x \in Nat : AwaitedBy(u, x) /\ Outstanding(u, x) => AwaitedBy(u, x)'
    BY <2>1, <2>2 DEF AwaitedBy
  <2> QED
    BY <2>3, <2>4, <2>5 DEF Steady
<1>3. CASE WriteEnd(t)
  BY <1>3 DEF WriteEnd
<1>4. CASE WriteEndDeferred(t)
  BY <1>4 DEF WriteEndDeferred
<1>5. CASE ReadStart(t)
  <2>1. cur[t].id \in done[t]
    BY <1>5, AnsweredOnce DEF ReadStart
  <2> QED
    BY <1>5, <2>1 DEF ReadStart
<1>6. CASE ReadEnd(t)
  BY <1>6 DEF ReadEnd
<1>7. CASE WriteLaneTermination(t)
  BY <1>7 DEF WriteLaneTermination
<1>8. CASE SpawnThread(t)
  BY <1>8 DEF SpawnThread
<1> QED
  BY <1>1, <1>2, <1>3, <1>4, <1>5, <1>6, <1>7, <1>8

\* A steady step that adds the newest frame at the end of the pipe keeps the order.
LEMMA OrderGrown ==
  ASSUME IInv, Ordering, Steady, UNCHANGED <<sRead, lane>>,
         NEW f, Grown(f), f.id \in Nat \ {0},
         Req(f) => OnItsWay(f)' /\ \A x \in Nat : Older(x) => x < f.id
  PROVE  PipeOrder' /\ SlotOrder' /\ LaneOrder'
<1> DEFINE n == Len(Pipe) + 1
<1>0. /\ PipeDom' = PipeDom \cup {n} /\ n \in Nat /\ sRead.id \in Nat
      /\ \A i \in PipeDom : Pipe'[i] = Pipe[i] /\ i \in Nat /\ i < n /\ Pipe[i].id \in Nat
      /\ Pipe'[n] = f
  BY Types, PipeIds DEF Grown, PipeDom
<1> HIDE DEF n
<1>1. \A i \in PipeDom : Req(Pipe[i]) => Older(Pipe[i].id) /\ OnItsWay(Pipe[i])
  BY DEF Ordering, PipeOrder, OnItsWay
<1>2. Req(sRead) => Older(sRead.id) /\ OnItsWay(sRead)
  BY DEF Ordering, SlotOrder, OnItsWay
<1>3. PipeOrder'
  <2>1. ASSUME NEW i \in PipeDom, Req(Pipe[i]) PROVE OnItsWay(Pipe[i])'
    <3>1. PICK g : g = Pipe[i] /\ g = Pipe'[i]
      BY <1>0
    <3>2. g.id \in Nat /\ OnItsWay(g)
      BY <1>0, <1>1, <2>1, <3>1
    <3>3. OnItsWay(g)'
      BY <3>2, StillOnItsWay
    <3> QED
      BY <3>1, <3>3 DEF OnItsWay, Older, Outstanding, AwaitedBy
  <2>2. ASSUME NEW i \in PipeDom' PROVE (Pipe[i].id # NoId /\ (Req(Pipe[i]) => OnItsWay(Pipe[i])))'
    <3>1. CASE i \in PipeDom
      <4>1. Pipe'[i] = Pipe[i] /\ Pipe[i].id # NoId
        BY <1>0, <3>1 DEF Ordering, PipeOrder
      <4> QED
        BY <2>1, <3>1, <4>1 DEF Req
    <3>2. CASE i = n
      <4>1. Pipe'[i] = f
        BY <1>0, <3>2
      <4> QED
        BY <4>1 DEF NoId, Req, OnItsWay, Older, Outstanding, AwaitedBy
    <3> QED
      BY <1>0, <3>1, <3>2
  <2>3. ASSUME NEW i \in PipeDom', NEW j \in PipeDom', i < j, Req(Pipe'[i]), Req(Pipe'[j])
        PROVE  Pipe'[i].id < Pipe'[j].id
    <3>1. CASE j \in PipeDom
      <4>1. i \in PipeDom
        BY <1>0, <2>3, <3>1
      <4> QED
        BY <1>0, <2>3, <3>1, <4>1 DEF Ordering, PipeOrder
    <3>2. CASE j = n
      <4>1. i \in PipeDom
        BY <1>0, <2>3, <3>2
      <4> QED
        BY <1>0, <1>1, <2>3, <3>2, <4>1
    <3> QED
      BY <1>0, <3>1, <3>2
  <2> QED
    BY <2>2, <2>3 DEF PipeOrder, Req
<1>4. SlotOrder'
  <2>1. ASSUME Req(sRead) PROVE OnItsWay(sRead)'
    <3>1. PICK g : g = sRead /\ g = sRead'
      OBVIOUS
    <3>2. g.id \in Nat /\ OnItsWay(g)
      BY <1>0, <1>2, <2>1, <3>1
    <3>3. OnItsWay(g)'
      BY <3>2, StillOnItsWay
    <3> QED
      BY <3>1, <3>3 DEF OnItsWay, Older, Outstanding, AwaitedBy
  <2>2. ASSUME Req(sRead), NEW i \in PipeDom', Req(Pipe'[i]) PROVE sRead.id < Pipe'[i].id
    BY <1>0, <1>2, <2>2 DEF Ordering, SlotOrder
  <2> QED
    BY <2>1, <2>2 DEF SlotOrder, Req
<1>5. LaneOrder'
  <2>1. ASSUME NEW t \in Thread, lane[t].st = "exec", NEW i \in PipeDom', Req(Pipe'[i])
        PROVE  lane[t].id < Pipe'[i].id
    BY <1>0, <2>1, Types DEF Ordering, LaneOrder
  <2>2. \A t \in Thread : lane[t].st = "exec" /\ Req(sRead) => lane[t].id < sRead.id
    BY DEF Ordering, LaneOrder
  <2> QED
    BY <2>1, <2>2, LaneSteady DEF LaneOrder, Req
<1> QED
  BY <1>3, <1>4, <1>5

\* A step that moves nothing loses no request.
LEMMA CoveredSame ==
  ASSUME IInv, Covered, UNCHANGED <<issued, done, sRead, lane>>, Pipe' = Pipe,
         \A x \in Thread : pc[x] = "building" => pc'[x] = "building" /\ cur'[x].id = cur[x].id
  PROVE  Covered'
<1>1. PipeDom' = PipeDom
  BY DEF PipeDom
<1> QED
  BY <1>1 DEF Covered, CoveredBy, InPipe, InSlot, Carries, Req

\* Nor does one that writes the request being built.
LEMMA CoveredGrown ==
  ASSUME IInv, Covered, UNCHANGED <<issued, done, sRead, lane>>, NEW f, Grown(f),
         \A x \in Thread : pc[x] = "building" =>
            \/ pc'[x] = "building" /\ cur'[x].id = cur[x].id
            \/ Carries(f, x, cur[x].id)
  PROVE  Covered'
<1>0. /\ PipeDom' = PipeDom \cup {Len(Pipe) + 1} /\ Pipe'[Len(Pipe) + 1] = f
      /\ \A i \in PipeDom : Pipe'[i] = Pipe[i]
  BY DEF Grown
<1> SUFFICES ASSUME NEW x \in Thread, NEW id \in issued[x] \ done[x] PROVE CoveredBy(x, id)'
  BY DEF Covered
<1>1. CoveredBy(x, id)
  BY DEF Covered
<1>2. CASE pc[x] = "building" /\ id = cur[x].id
  <2>1. CASE Carries(f, x, id)
    BY <1>0, <2>1 DEF CoveredBy, InPipe, Carries, Req
  <2> QED
    BY <1>2, <2>1 DEF CoveredBy
<1>3. CASE InPipe(x, id)
  BY <1>0, <1>3 DEF CoveredBy, InPipe, Carries, Req
<1>4. CASE InSlot(x, id) \/ (lane[x].st = "exec" /\ lane[x].id = id)
  BY <1>4 DEF CoveredBy, InSlot, Carries, Req
<1> QED
  BY <1>1, <1>2, <1>3, <1>4 DEF CoveredBy

\* A new request is newer than all those on their way.
LEMMA OrderingStart ==
  ASSUME IInv, Turns, Responses, Ordering, NEW t \in Thread, StartRequest(t)
  PROVE  Ordering'
<1>1. Steady /\ UNCHANGED <<sRead, lane>> /\ Pipe' = Pipe
  BY SteadyClient DEF StartRequest, serverVars, Pipe
<1>2. /\ pc[t] = "locked" /\ UNCHANGED done
      /\ \A x \in Thread \ {t} : UNCHANGED <<pc[x], cur[x], issued[x]>>
      /\ pc'[t] = "building" /\ cur'[t].id = requestId + 2
      /\ issued'[t] = issued[t] \cup {requestId + 2}
  BY Types DEF StartRequest
<1>3. Covered'
  <2>0. PipeDom' = PipeDom
    BY <1>1 DEF PipeDom
  <2> SUFFICES ASSUME NEW x \in Thread, NEW id \in issued'[x] \ done[x] PROVE CoveredBy(x, id)'
    BY <1>2 DEF Covered
  <2>1. CASE id \in issued[x]
    <3>1. CoveredBy(x, id)
      BY <2>1 DEF Ordering, Covered
    <3>2. InPipe(x, id) => InPipe(x, id)'
      BY <1>1, <2>0 DEF InPipe, Carries, Req
    <3>3. InSlot(x, id) => InSlot(x, id)'
      BY <1>1 DEF InSlot, Carries, Req
    <3> QED
      BY <1>1, <1>2, <3>1, <3>2, <3>3 DEF CoveredBy
  <2>2. CASE id \notin issued[x]
    <3>1. x = t
      BY <1>2, <2>2
    <3>2. id = requestId + 2
      BY <1>2, <2>2, <3>1
    <3> QED
      BY <1>2, <3>1, <3>2 DEF CoveredBy
  <2> QED
    BY <2>1, <2>2
<1> QED
  BY <1>1, <1>3, OrderSame DEF Ordering

\* The client steps that send nothing keep the order.
LEMMA OrderingQuiet ==
  ASSUME IInv, Turns, Responses, Ordering, NEW t \in Thread,
         (\E op \in Op : LockCall(t, op)) \/ ReadStart(t) \/ ReadEnd(t) \/ SpawnThread(t)
  PROVE  Ordering'
<1>1. Steady
  BY SteadyClient
<1>2. UNCHANGED <<sRead, lane, issued, done, up, batch>>
  BY DEF LockCall, ReadStart, ReadEnd, SpawnThread, serverVars
<1>3. \A x \in Thread : pc[x] = "building" => pc'[x] = "building" /\ cur'[x].id = cur[x].id
  <2>1. CASE \E op \in Op : LockCall(t, op)
    <3>1. PICK op \in Op : LockCall(t, op)
      BY <2>1
    <3> QED
      BY <3>1, Types DEF LockCall
  <2>2. CASE ReadStart(t) \/ ReadEnd(t) \/ SpawnThread(t)
    BY <2>2, Types DEF ReadStart, ReadEnd, SpawnThread
  <2> QED
    BY <2>1, <2>2
<1>4. Pipe' = Pipe
  BY <1>2 DEF Pipe
<1> QED
  BY <1>1, <1>2, <1>3, <1>4, OrderSame, CoveredSame DEF Ordering

\* A request is written, or batched, behind all older ones.
LEMMA OrderingWritten ==
  ASSUME IInv, Turns, Issues, Responses, Ordering, NEW t \in Thread, WriteEnd(t) \/ WriteEndDeferred(t)
  PROVE  Ordering'
<1> DEFINE g == RequestFrame(t)
<1>1. Steady /\ UNCHANGED <<sRead, lane, issued, done, requestId, cur>>
  BY SteadyClient DEF WriteEnd, WriteEndDeferred, serverVars
<1>2. /\ pc[t] = "building" /\ cur[t].op \in Op /\ writeMutex = t /\ cur[t].id = requestId
      /\ callMutex = t
  BY DEF WriteEnd, WriteEndDeferred, Turns
<1>3. g \in UpFrame
  BY <1>2, RequestIsUp
<1>4. Grown(g)
  <2>0. Wire
    BY DEF IInv
  <2>1. CASE up' = Written(<<g>>) /\ batch' = <<>>
    BY <1>3, <2>0, <2>1, PipeWritten
  <2>2. CASE batch' = Append(batch, g) /\ UNCHANGED up
    BY <1>3, <2>0, <2>2, PipeBatched
  <2> QED
    BY <2>1, <2>2 DEF WriteEnd, WriteEndDeferred
<1>5. PICK f : f = g
  OBVIOUS
<1>6. f.id = cur[t].id /\ f.lane = t /\ f.op = cur[t].op
  BY <1>5 DEF RequestFrame
<1>7. cur[t].id \in Nat \ {0} /\ cur[t].id % 2 = 0 /\ Outstanding(t, cur[t].id)
  BY <1>2, Types DEF IInv, Ids, Busy, Issues, IssuesOf, Outstanding
<1>8. \A x \in Thread : pc'[x] = IF x = t THEN (IF cur[t].op \in Sync THEN "waiting" ELSE "idle") ELSE pc[x]
  BY Types DEF WriteEnd, WriteEndDeferred, Sync, Batched, Framed
<1>9. \A x \in Thread : pc'[x] # "building" /\ (pc[x] = "building" => x = t)
  BY <1>2, <1>8 DEF Turns
<1>10. OnItsWay(f)'
  <2>1. Older(f.id)'
    BY <1>1, <1>2, <1>6, <1>9, Types DEF Older
  <2>2. Outstanding(f.lane, f.id)'
    BY <1>1, <1>6, <1>7 DEF Outstanding
  <2>3. (f.op \in Sync => AwaitedBy(f.lane, f.id))'
    BY <1>1, <1>6, <1>8 DEF AwaitedBy
  <2> QED
    BY <1>6, <2>1, <2>2, <2>3 DEF OnItsWay
<1>11. \A x \in Nat : Older(x) => x < f.id
  BY <1>2, <1>6 DEF Older
<1>12. PipeOrder' /\ SlotOrder' /\ LaneOrder'
  BY <1>1, <1>4, <1>5, <1>6, <1>7, <1>10, <1>11, OrderGrown
<1>13. Carries(f, t, cur[t].id)
  BY <1>2, <1>6, <1>7 DEF Carries, Req, NoId, Op, Sync, Batched, Framed
<1>14. Covered'
  BY <1>1, <1>4, <1>5, <1>9, <1>13, CoveredGrown DEF Ordering
<1> QED
  BY <1>12, <1>14 DEF Ordering

\* So is a termination.
LEMMA OrderingTermination ==
  ASSUME IInv, Turns, Responses, Ordering, NEW t \in Thread, WriteLaneTermination(t)
  PROVE  Ordering'
<1>1. PICK f : f = [id |-> requestId + 2, lane |-> t, op |-> "term"]
  OBVIOUS
<1>2. f.id = requestId + 2 /\ f.lane = t /\ f.op = "term"
  BY <1>1
<1>3. Steady /\ UNCHANGED <<sRead, lane, issued, done>>
  BY SteadyClient DEF WriteLaneTermination, serverVars
<1>4. requestId \in Nat /\ requestId % 2 = 0 /\ (requestId + 2) % 2 = 0
  <2>1. requestId \in Nat /\ requestId % 2 = 0
    BY Types DEF IInv, Ids
  <2> QED
    BY <2>1
<1>5. f \in UpFrame
  BY <1>1, <1>2, <1>4 DEF UpFrame, Frame, Id
<1>6. Grown(f)
  BY <1>1, <1>5, PipeWritten DEF WriteLaneTermination, IInv
<1>7. requestId' = requestId + 2 /\ \A x \in Thread : pc[x] # "building" /\ pc'[x] # "building"
  BY ConnAssumption, Types DEF WriteLaneTermination, Turns, Free
<1>8. OnItsWay(f)'
  BY <1>2, <1>4, <1>7 DEF OnItsWay, Older, Sync
<1>9. \A x \in Nat : Older(x) => x < f.id
  BY <1>2, <1>4 DEF Older
<1>10. f.id \in Nat \ {0}
  BY <1>2, <1>4
<1>11. PipeOrder' /\ SlotOrder' /\ LaneOrder'
  BY <1>3, <1>6, <1>8, <1>9, <1>10, OrderGrown
<1>12. Covered'
  BY <1>3, <1>6, <1>7, CoveredGrown DEF Ordering
<1> QED
  BY <1>11, <1>12 DEF Ordering

\* The sender and the client's reader keep the order.
LEMMA OrderingSender ==
  ASSUME IInv, Ordering, SenderFlush \/ ClientReadId \/ DispatchStart \/ DispatchReadEnd
  PROVE  Ordering'
<1>1. UNCHANGED <<sRead, lane, issued, done, pc, cur, requestId>>
  BY DEF SenderFlush, ClientReadId, DispatchStart, DispatchReadEnd, serverVars
<1>2. Pipe' = Pipe
  <2>1. CASE SenderFlush
    BY <2>1, PipeFlushed DEF SenderFlush, IInv
  <2>2. CASE ClientReadId \/ DispatchStart \/ DispatchReadEnd
    BY <2>2 DEF ClientReadId, DispatchStart, DispatchReadEnd, Pipe
  <2> QED
    BY <2>1, <2>2
<1>3. Steady
  BY <1>1, SteadyKept
<1> QED
  BY <1>1, <1>2, <1>3, OrderSame, CoveredSame DEF Ordering

\* A callback's response may travel between any two requests.
LEMMA OrderingDispatchReply ==
  ASSUME IInv, Ordering, DispatchReply
  PROVE  Ordering'
<1>1. PICK f : f = [id |-> dispId, lane |-> Free, op |-> "resp"]
  OBVIOUS
<1>2. dispId \in Nat /\ dispId % 2 = 1
  BY Types DEF DispatchReply, IInv, ClientSlot
<1>3. f \in UpFrame /\ f.id \in Nat \ {0} /\ ~Req(f)
  BY <1>1, <1>2 DEF UpFrame, Frame, Id, Req
<1>4. Grown(f)
  BY <1>1, <1>3, PipeWritten DEF DispatchReply, IInv
<1>5. UNCHANGED <<sRead, lane, issued, done, pc, cur, requestId>>
  BY DEF DispatchReply, serverVars
<1>6. Steady
  BY <1>5, SteadyKept
<1>7. PipeOrder' /\ SlotOrder' /\ LaneOrder'
  BY <1>3, <1>4, <1>5, <1>6, OrderGrown
<1>8. Covered'
  BY <1>4, <1>5, CoveredGrown DEF Ordering
<1> QED
  BY <1>7, <1>8 DEF Ordering

\* Reading the first frame keeps the order of the rest.
LEMMA PipeOrderRead ==
  ASSUME IInv, Ordering, up # <<>>, up' = Tail(up),
         UNCHANGED <<batch, pc, cur, requestId, issued, done>>
  PROVE  PipeOrder'
<1>1. \A i \in PipeDom' : i + 1 \in PipeDom /\ Pipe'[i] = Pipe[i + 1] /\ i \in Nat \ {0}
  BY PipeRead DEF IInv
<1>2. ASSUME NEW i \in PipeDom' PROVE (Pipe[i].id # NoId /\ (Req(Pipe[i]) => OnItsWay(Pipe[i])))'
  <2>1. PICK f : f = Pipe'[i] /\ f = Pipe[i + 1]
    BY <1>1
  <2>2. f.id # NoId /\ (Req(f) => OnItsWay(f))
    BY <1>1, <2>1 DEF Ordering, PipeOrder
  <2> QED
    BY <2>1, <2>2 DEF OnItsWay, Older, Outstanding, AwaitedBy, Req
<1>3. ASSUME NEW i \in PipeDom', NEW j \in PipeDom', i < j, Req(Pipe'[i]), Req(Pipe'[j])
      PROVE  Pipe'[i].id < Pipe'[j].id
  BY <1>1, <1>3 DEF Ordering, PipeOrder
<1> QED
  BY <1>2, <1>3 DEF PipeOrder, Req

\* A callback's response in the slot overtakes nothing.
LEMMA OrderingReadResponse ==
  ASSUME IInv, Ordering, ServerReadResponse
  PROVE  Ordering'
<1>1. /\ up # <<>> /\ up' = Tail(up) /\ UNCHANGED batch /\ sRead' = Head(up) /\ ~Req(sRead)
      /\ ~Req(Head(up)) /\ UNCHANGED <<lane, pc, cur, requestId, issued, done>>
  BY DEF ServerReadResponse, clientVars, Req, NoFrame
<1>2. /\ 1 \in PipeDom /\ Pipe[1] = Head(up)
      /\ \A i \in PipeDom' : i + 1 \in PipeDom /\ Pipe'[i] = Pipe[i + 1] /\ i \in Nat \ {0}
      /\ \A i \in PipeDom \ {1} : i - 1 \in PipeDom' /\ Pipe'[i - 1] = Pipe[i] /\ i \in Nat
  BY <1>1, PipeRead DEF IInv
<1>4. PipeOrder'
  BY <1>1, PipeOrderRead
<1>5. SlotOrder'
  BY <1>1 DEF SlotOrder, Req
<1>6. LaneOrder'
  BY <1>1, <1>2 DEF Ordering, LaneOrder, Older, Outstanding, AwaitedBy, Req
<1>7. Covered'
  <2> SUFFICES ASSUME NEW x \in Thread, NEW id \in issued[x] \ done[x] PROVE CoveredBy(x, id)'
    BY <1>1 DEF Covered
  <2>1. CoveredBy(x, id)
    BY DEF Ordering, Covered
  <2>2. CASE InPipe(x, id)
    <3>1. PICK i \in PipeDom : Carries(Pipe[i], x, id)
      BY <2>2 DEF InPipe
    <3>2. i # 1
      BY <1>1, <1>2, <3>1 DEF Carries
    <3> QED
      BY <1>2, <3>1, <3>2 DEF CoveredBy, InPipe, Carries, Req
  <2> QED
    BY <1>1, <2>1, <2>2 DEF CoveredBy, InSlot, Carries
<1> QED
  BY <1>4, <1>5, <1>6, <1>7 DEF Ordering

\* Handing a request to a lane disturbs nothing that a worker is executing.
LEMMA ReadRequestEffect ==
  ASSUME IInv, Ordering, ServerReadRequest
  PROVE  \A x \in Thread :
           /\ lane'[x].st = lane[x].st \/ (lane[x].st = "none" /\ lane'[x].st = "wait")
           /\ lane'[x].id = lane[x].id /\ lane'[x].run = lane[x].run
<1>1. PICK f : f = Head(up)
  OBVIOUS
<1>2. lane' = [lane EXCEPT ![f.lane].st = IF @ = "none" THEN "wait" ELSE @,
                           ![f.lane].ready = TRUE, ![f.lane].op = f.op]
  BY <1>1 DEF ServerReadRequest
<1>3. f.lane \in Thread
  BY <1>1, HeadOfPipe DEF ServerReadRequest, UpFrame
<1>4. \A x \in Thread \ {f.lane} : lane'[x] = lane[x]
  BY <1>2, <1>3, Types
<1>5. /\ lane'[f.lane].st = IF lane[f.lane].st = "none" THEN "wait" ELSE lane[f.lane].st
      /\ lane'[f.lane].id = lane[f.lane].id /\ lane'[f.lane].run = lane[f.lane].run
  BY <1>2, <1>3, Types DEF Lane
<1> QED
  BY <1>4, <1>5

\* The oldest request of the pipe moves to the slot.
LEMMA OrderingReadRequest ==
  ASSUME IInv, Ordering, ServerReadRequest
  PROVE  Ordering'
<1>1. /\ up # <<>> /\ up' = Tail(up) /\ UNCHANGED batch /\ sRead' = Head(up) /\ ~Req(sRead)
      /\ UNCHANGED <<pc, cur, requestId, issued, done>>
  BY DEF ServerReadRequest, clientVars, Req, NoFrame
<1>2. /\ 1 \in PipeDom /\ Pipe[1] = Head(up)
      /\ \A i \in PipeDom' : i + 1 \in PipeDom /\ Pipe'[i] = Pipe[i + 1] /\ i \in Nat \ {0}
      /\ \A i \in PipeDom \ {1} : i - 1 \in PipeDom' /\ Pipe'[i - 1] = Pipe[i] /\ i \in Nat
  BY <1>1, PipeRead DEF IInv
<1>3. \A x \in Thread : /\ lane'[x].st = "exec" <=> lane[x].st = "exec"
                        /\ lane'[x].id = lane[x].id /\ lane'[x].run = lane[x].run
  BY ReadRequestEffect
<1>4. PipeOrder'
  BY <1>1, PipeOrderRead
<1>5. SlotOrder'
  <2>0. PICK f : f = Pipe[1] /\ f = sRead'
    BY <1>1, <1>2
  <2>1. Req(f) => OnItsWay(f)
    BY <1>2, <2>0 DEF Ordering, PipeOrder
  <2>2. ASSUME Req(f), NEW i \in PipeDom', Req(Pipe'[i]) PROVE f.id < Pipe'[i].id
    BY <1>2, <2>0, <2>2 DEF Ordering, PipeOrder
  <2> QED
    BY <1>1, <2>0, <2>1, <2>2 DEF SlotOrder, Req, OnItsWay, Older, Outstanding, AwaitedBy
<1>6. LaneOrder'
  <2> SUFFICES ASSUME NEW t \in Thread, lane'[t].st = "exec"
               PROVE  (/\ Older(lane[t].id) /\ Outstanding(t, lane[t].id)
                       /\ lane[t].run \in Sync => AwaitedBy(t, lane[t].id)
                       /\ Req(sRead) => lane[t].id < sRead.id
                       /\ \A i \in PipeDom : Req(Pipe[i]) => lane[t].id < Pipe[i].id)'
    BY DEF LaneOrder
  <2>1. /\ Older(lane[t].id) /\ Outstanding(t, lane[t].id)
        /\ lane[t].run \in Sync => AwaitedBy(t, lane[t].id)
        /\ \A i \in PipeDom : Req(Pipe[i]) => lane[t].id < Pipe[i].id
    BY <1>3 DEF Ordering, LaneOrder
  <2>2. Older(lane[t].id)' /\ Outstanding(t, lane[t].id)' /\ (lane[t].run \in Sync => AwaitedBy(t, lane[t].id))'
    BY <1>1, <1>3, <2>1 DEF Older, Outstanding, AwaitedBy
  <2>3. Req(sRead') => lane[t].id < sRead'.id
    BY <1>1, <1>2, <2>1
  <2>4. \A i \in PipeDom' : Req(Pipe'[i]) => lane[t].id < Pipe'[i].id
    BY <1>2, <2>1
  <2> QED
    BY <1>3, <2>2, <2>3, <2>4 DEF Req
<1>7. Covered'
  <2> SUFFICES ASSUME NEW x \in Thread, NEW id \in issued[x] \ done[x] PROVE CoveredBy(x, id)'
    BY <1>1 DEF Covered
  <2>1. CoveredBy(x, id)
    BY DEF Ordering, Covered
  <2>2. CASE InPipe(x, id)
    <3>1. PICK i \in PipeDom : Carries(Pipe[i], x, id)
      BY <2>2 DEF InPipe
    <3>2. CASE i # 1
      BY <1>2, <3>1, <3>2 DEF CoveredBy, InPipe, Carries, Req
    <3>3. CASE i = 1
      BY <1>1, <1>2, <3>1, <3>3 DEF CoveredBy, InSlot, Carries, Req
    <3> QED
      BY <3>2, <3>3
  <2> QED
    BY <1>1, <1>3, <2>1, <2>2 DEF CoveredBy, InSlot, Carries
<1> QED
  BY <1>4, <1>5, <1>6, <1>7 DEF Ordering

\* The order survives a step that neither moves nor executes a request.
LEMMA OrderCalm ==
  ASSUME Ordering, UNCHANGED <<up, batch, pc, cur, requestId, issued, done>>,
         Req(sRead') => sRead' = sRead,
         \A x \in Thread : lane'[x].st = "exec" => lane[x].st = "exec" /\ lane'[x].id = lane[x].id
                                                   /\ lane'[x].run = lane[x].run,
         \A x \in Thread : lane[x].st = "exec" => lane'[x].st = "exec" /\ lane'[x].id = lane[x].id,
         Req(sRead) /\ sRead.op # "term" => sRead' = sRead
  PROVE  Ordering'
<1>1. Pipe' = Pipe /\ PipeDom' = PipeDom
  BY DEF Pipe, PipeDom
<1>2. PipeOrder'
  BY <1>1 DEF Ordering, PipeOrder, OnItsWay, Older, Outstanding, AwaitedBy, Req
<1>3. SlotOrder'
  BY <1>1 DEF Ordering, SlotOrder, OnItsWay, Older, Outstanding, AwaitedBy, Req
<1>4. LaneOrder'
  BY <1>1 DEF Ordering, LaneOrder, Older, Outstanding, AwaitedBy, Req
<1>5. Covered'
  BY <1>1 DEF Ordering, Covered, CoveredBy, InPipe, InSlot, Carries, Req
<1> QED
  BY <1>2, <1>3, <1>4, <1>5 DEF Ordering

\* A worker that takes an op changes its own lane only.
LEMMA TakeEffect ==
  ASSUME IInv, NEW t \in Thread, WorkerTake(t)
  PROVE  /\ lane'[t].st \in {"exited", "body"}
         /\ \A x \in Thread \ {t} : lane'[x] = lane[x]
<1>1. CASE lane[t].op = "term"
  BY <1>1, Types DEF WorkerTake, Lane
<1>2. CASE lane[t].op # "term"
  BY <1>2, Types DEF WorkerTake, Lane
<1> QED
  BY <1>1, <1>2

\* The server's other steps keep the order.
LEMMA OrderingServer ==
  ASSUME IInv, Ordering, SlotLane, Round,
         \/ ServerJoin
         \/ \E t \in Thread : WorkerTake(t) \/ WorkerReply(t)
         \/ \E c \in Callback : CallbackRequest(c) \/ CallbackReadStart(c) \/ CallbackReadEnd(c)
  PROVE  Ordering'
<1>0. UNCHANGED <<up, batch, pc, cur, requestId, issued, done>>
  BY DEF ServerJoin, WorkerTake, WorkerReply, CallbackRequest, CallbackReadStart, CallbackReadEnd, clientVars
<1>1. CASE ServerJoin
  <2>1. /\ joining \in Thread /\ lane[joining].st = "exited" /\ UNCHANGED sRead
        /\ \A x \in Thread : lane'[x] = IF x = joining THEN NoLane ELSE lane[x]
    BY <1>1, Types DEF ServerJoin, IInv, TypeOK
  <2> QED
    BY <1>0, <2>1, OrderCalm DEF NoLane
<1>2. ASSUME NEW t \in Thread, WorkerTake(t) PROVE Ordering'
  <2>1. /\ lane[t].st = "wait" /\ lane[t].ready /\ lane'[t].st \in {"exited", "body"}
        /\ \A x \in Thread \ {t} : lane'[x] = lane[x]
    BY <1>2, TakeEffect DEF WorkerTake
  <2>2. Req(sRead) /\ sRead.op = lane[t].op
    BY <2>1 DEF SlotLane, LaneSlot
  <2>3. /\ Req(sRead') => sRead' = sRead
        /\ sRead.op # "term" => sRead' = sRead
    <3>1. CASE lane[t].op = "term"
      <4>1. sRead' = NoFrame
        BY <1>2, <3>1 DEF WorkerTake
      <4> QED
        BY <2>2, <3>1, <4>1 DEF Req, NoFrame
    <3>2. CASE lane[t].op # "term"
      BY <1>2, <3>2 DEF WorkerTake
    <3> QED
      BY <3>1, <3>2
  <2> QED
    BY <1>0, <2>1, <2>3, OrderCalm
<1>3. ASSUME NEW t \in Thread, WorkerReply(t) PROVE Ordering'
  <2>1. /\ lane[t].st = "reply" /\ lane'[t].st = "wait" /\ UNCHANGED sRead
        /\ \A x \in Thread \ {t} : lane'[x] = lane[x]
    BY <1>3, Types DEF WorkerReply, Lane
  <2> QED
    BY <1>0, <2>1, OrderCalm
<1>4. ASSUME NEW c \in Callback, CallbackRequest(c) \/ CallbackReadStart(c) PROVE Ordering'
  BY <1>0, <1>4, OrderCalm DEF CallbackRequest, CallbackReadStart
<1>5. ASSUME NEW c \in Callback, CallbackReadEnd(c) PROVE Ordering'
  <2>1. ~Req(sRead) /\ sRead' = NoFrame /\ UNCHANGED lane
    BY <1>5 DEF CallbackReadEnd, Round, Callers, Req
  <2> QED
    BY <1>0, <2>1, OrderCalm DEF Req, NoFrame
<1> QED
  BY <1>1, <1>2, <1>3, <1>4, <1>5

\* The oldest request of the slot's lane begins to execute.
LEMMA OrderingReadEnd ==
  ASSUME IInv, Ordering, SlotLane, NEW t \in Thread, WorkerReadEnd(t)
  PROVE  Ordering'
<1>1. /\ lane[t].st = "body" /\ sRead' = NoFrame
      /\ UNCHANGED <<up, batch, pc, cur, requestId, issued, done>>
      /\ \A x \in Thread \ {t} : lane'[x] = lane[x]
      /\ lane'[t].st = "exec" /\ lane'[t].id = sRead.id /\ lane'[t].run = lane[t].run
  BY Types DEF WorkerReadEnd, Lane, clientVars
<1>2. Req(sRead) /\ sRead.lane = t /\ lane[t].run = sRead.op /\ sRead.op # "term" /\ ~Req(sRead')
  BY <1>1 DEF SlotLane, LaneSlot, Req, NoFrame
<1>3. Pipe' = Pipe /\ PipeDom' = PipeDom
  BY <1>1 DEF Pipe, PipeDom
<1>4. PipeOrder'
  BY <1>1, <1>3 DEF Ordering, PipeOrder, OnItsWay, Older, Outstanding, AwaitedBy, Req
<1>5. SlotOrder'
  BY <1>2 DEF SlotOrder
<1>6. LaneOrder'
  <2> SUFFICES ASSUME NEW x \in Thread, lane'[x].st = "exec"
               PROVE  (/\ Older(lane[x].id) /\ Outstanding(x, lane[x].id)
                       /\ lane[x].run \in Sync => AwaitedBy(x, lane[x].id)
                       /\ \A i \in PipeDom : Req(Pipe[i]) => lane[x].id < Pipe[i].id)'
    BY <1>2 DEF LaneOrder
  <2>1. CASE x = t
    <3>1. /\ Older(sRead.id) /\ Outstanding(t, sRead.id)
          /\ sRead.op \in Sync => AwaitedBy(t, sRead.id)
          /\ \A i \in PipeDom : Req(Pipe[i]) => sRead.id < Pipe[i].id
      BY <1>2 DEF Ordering, SlotOrder, OnItsWay
    <3> QED
      BY <1>1, <1>2, <1>3, <2>1, <3>1 DEF Older, Outstanding, AwaitedBy, Req
  <2>2. CASE x # t
    BY <1>1, <1>3, <2>2 DEF Ordering, LaneOrder, Older, Outstanding, AwaitedBy, Req
  <2> QED
    BY <2>1, <2>2
<1>7. Covered'
  <2> SUFFICES ASSUME NEW x \in Thread, NEW id \in issued[x] \ done[x] PROVE CoveredBy(x, id)'
    BY <1>1 DEF Covered
  <2>1. CoveredBy(x, id)
    BY DEF Ordering, Covered
  <2>2. InPipe(x, id) => InPipe(x, id)'
    BY <1>3 DEF InPipe, Carries, Req
  <2>3. InSlot(x, id) => x = t /\ lane'[t].id = id
    BY <1>1, <1>2 DEF InSlot, Carries
  <2> QED
    BY <1>1, <2>1, <2>2, <2>3 DEF CoveredBy
<1> QED
  BY <1>4, <1>5, <1>6, <1>7 DEF Ordering

\* An executed request is older than everything left behind it.
LEMMA OrderingExec ==
  ASSUME IInv, Ordering, NEW t \in Thread, WorkerExec(t)
  PROVE  Ordering'
<1>1. /\ lane[t].st = "exec" /\ UNCHANGED <<sRead, up, batch, pc, cur, requestId, issued>>
      /\ \A x \in Thread \ {t} : lane'[x] = lane[x] /\ done'[x] = done[x]
      /\ lane'[t].st # "exec" /\ done'[t] = done[t] \cup {lane[t].id}
  BY Types DEF WorkerExec, Lane, clientVars
<1>2. /\ Req(sRead) => lane[t].id < sRead.id
      /\ \A i \in PipeDom : Req(Pipe[i]) => lane[t].id < Pipe[i].id
  BY <1>1 DEF Ordering, LaneOrder
<1>3. Pipe' = Pipe /\ PipeDom' = PipeDom
  BY <1>1 DEF Pipe, PipeDom
<1>4. ASSUME NEW f, f.id \in Nat, lane[t].id < f.id, OnItsWay(f) PROVE OnItsWay(f)'
  <2>1. Outstanding(f.lane, f.id) => Outstanding(f.lane, f.id)'
    <3>1. f.lane \in Thread /\ lane[t].id \in Nat
      BY <1>4, Types DEF OnItsWay
    <3>2. CASE f.lane = t
      BY <1>1, <1>4, <3>1, <3>2 DEF Outstanding
    <3>3. CASE f.lane # t
      BY <1>1, <3>1, <3>3 DEF Outstanding
    <3> QED
      BY <3>2, <3>3
  <2> QED
    BY <1>1, <1>4, <2>1 DEF OnItsWay, Older, AwaitedBy
<1>5. PipeOrder'
  <2>1. ASSUME NEW i \in PipeDom, Req(Pipe[i]) PROVE OnItsWay(Pipe[i])'
    <3>1. PICK f : f = Pipe[i]
      OBVIOUS
    <3>2. OnItsWay(f)'
      BY <1>2, <1>4, <2>1, <3>1, PipeIds DEF Ordering, PipeOrder
    <3> QED
      BY <1>3, <3>1, <3>2 DEF OnItsWay, Older, Outstanding, AwaitedBy
  <2> QED
    BY <1>3, <2>1 DEF Ordering, PipeOrder, Req
<1>6. SlotOrder'
  <2>1. ASSUME Req(sRead) PROVE OnItsWay(sRead)'
    <3>1. PICK f : f = sRead
      OBVIOUS
    <3>2. OnItsWay(f)'
      BY <1>2, <1>4, <2>1, <3>1, Types DEF Ordering, SlotOrder
    <3> QED
      BY <1>1, <3>1, <3>2 DEF OnItsWay, Older, Outstanding, AwaitedBy
  <2> QED
    BY <1>1, <1>3, <2>1 DEF Ordering, SlotOrder, Req
<1>7. LaneOrder'
  BY <1>1, <1>3 DEF Ordering, LaneOrder, Older, Outstanding, AwaitedBy, Req
<1>8. Covered'
  <2> SUFFICES ASSUME NEW x \in Thread, NEW id \in issued[x] \ done'[x] PROVE CoveredBy(x, id)'
    BY <1>1 DEF Covered
  <2>1. id \notin done[x] /\ (x = t => id # lane[t].id)
    BY <1>1
  <2>2. CoveredBy(x, id)
    BY <2>1 DEF Ordering, Covered
  <2>3. InPipe(x, id) => InPipe(x, id)'
    BY <1>3 DEF InPipe, Carries, Req
  <2>4. InSlot(x, id) => InSlot(x, id)'
    BY <1>1 DEF InSlot, Carries, Req
  <2> QED
    BY <1>1, <2>1, <2>2, <2>3, <2>4 DEF CoveredBy
<1> QED
  BY <1>5, <1>6, <1>7, <1>8 DEF Ordering

\* Ids on their way to the client are numbers.
LEMMA DownType ==
  ASSUME IInv
  PROVE  /\ Len(down) \in Nat
         /\ \A i \in DownDom : i \in Nat /\ down[i] \in Frame /\ down[i].id \in Nat
<1>1. down \in Seq(Frame)
  BY Types
<1>2. Len(down) \in Nat /\ \A i \in DownDom : i \in Nat /\ down[i] \in Frame
  BY <1>1 DEF DownDom
<1> QED
  BY <1>2 DEF Frame, Id

\* The stream to the client has grown by the frame f.
DownGrown(f) ==
  /\ Len(down) + 1 \in Nat /\ DownDom' = DownDom \cup {Len(down) + 1}
  /\ \A i \in DownDom : down'[i] = down[i] /\ i \in Nat /\ i < Len(down) + 1
  /\ down'[Len(down) + 1] = f

\* Sending to the client appends to the stream.
LEMMA DownSent ==
  ASSUME IInv, NEW f \in Frame, down' = Append(down, f)
  PROVE  DownGrown(f)
<1>1. down \in Seq(Frame)
  BY Types
<1> QED
  BY <1>1 DEF DownGrown, DownDom

\* The client's reader takes the first frame; the others move up by one.
LEMMA DownRead ==
  ASSUME IInv, down # <<>>, down' = Tail(down)
  PROVE  /\ 1 \in DownDom /\ down[1] = Head(down)
         /\ \A i \in DownDom' : i + 1 \in DownDom /\ down'[i] = down[i + 1] /\ i \in Nat \ {0}
<1>1. down \in Seq(Frame)
  BY Types
<1> QED
  BY <1>1 DEF DownDom

\* Responses survives a step that keeps the waiting threads and the stream.
LEMMA ResponsesCalm ==
  ASSUME Responses, UNCHANGED down, cRead' = cRead,
         \A x \in Thread : /\ done[x] \subseteq done'[x]
                           /\ pc[x] \in {"waiting", "reading"} =>
                                UNCHANGED <<pc[x], cur[x].id>>,
         \A x \in Thread : lane'[x].st = "reply" =>
            \/ lane[x].st = "reply" /\ lane'[x].id = lane[x].id
            \/ Replying(x)'
  PROVE  Responses'
<1>0. DownDom' = DownDom
  BY DEF DownDom
<1>1. ASSUME NEW f, Answers(f) PROVE Answers(f)'
  BY <1>1 DEF Answers
<1>2. Inbounds'
  <2>1. ASSUME NEW i \in DownDom, Req(down[i]) PROVE Answers(down[i])'
    <3>1. PICK f : f = down[i] /\ f = down'[i]
      OBVIOUS
    <3>2. Answers(f)'
      BY <1>1, <2>1, <3>1 DEF Responses, Inbounds
    <3> QED
      BY <3>1, <3>2 DEF Answers
  <2> QED
    BY <1>0, <2>1 DEF Responses, Inbounds, Req, Cb
<1>3. InSlotOfClient'
  <2>1. ASSUME Req(cRead) PROVE Answers(cRead)'
    <3>1. PICK f : f = cRead /\ f = cRead'
      OBVIOUS
    <3>2. Answers(f)'
      BY <1>1, <2>1, <3>1 DEF Responses, InSlotOfClient
    <3> QED
      BY <3>1, <3>2 DEF Answers
  <2> QED
    BY <1>0, <2>1 DEF Responses, InSlotOfClient, Req, Cb
<1>4. ASSUME NEW x \in Thread PROVE Replying(x)'
  <2>1. CASE lane'[x].st = "reply" /\ lane[x].st = "reply" /\ lane'[x].id = lane[x].id
    <3>1. Replying(x)
      BY DEF Responses
    <3> QED
      BY <1>0, <2>1, <3>1 DEF Replying, AwaitedBy
  <2> QED
    BY <2>1 DEF Replying
<1> QED
  BY <1>2, <1>3, <1>4 DEF Responses

\* The threads that are not waiting may do as they like.
LEMMA ResponsesClient ==
  ASSUME IInv, Responses, NEW t \in Thread,
         \/ \E op \in Op : LockCall(t, op)
         \/ StartRequest(t) \/ WriteEnd(t) \/ WriteEndDeferred(t)
         \/ WriteLaneTermination(t) \/ SpawnThread(t)
  PROVE  Responses'
<1>1. UNCHANGED <<down, cRead, done, lane>>
  BY DEF LockCall, StartRequest, WriteEnd, WriteEndDeferred, WriteLaneTermination, SpawnThread, serverVars
<1>2. pc[t] \notin {"waiting", "reading"}
  BY DEF LockCall, StartRequest, WriteEnd, WriteEndDeferred, WriteLaneTermination, SpawnThread
<1>3. \A x \in Thread \ {t} : UNCHANGED <<pc[x], cur[x]>>
  BY Types DEF LockCall, StartRequest, WriteEnd, WriteEndDeferred, WriteLaneTermination, SpawnThread
<1> QED
  BY <1>1, <1>2, <1>3, ResponsesCalm

\* The thread that found its response still waits for it.
LEMMA ResponsesReadStart ==
  ASSUME IInv, Responses, NEW t \in Thread, ReadStart(t)
  PROVE  Responses'
<1>1. /\ UNCHANGED <<down, cRead, done, lane, cur, DownDom>> /\ cRead.id = cur[t].id /\ pc[t] = "waiting"
      /\ \A x \in Thread : pc'[x] = IF x = t THEN "reading" ELSE pc[x]
  BY Types DEF ReadStart, serverVars, DownDom
<1>2. \A f : Answers(f) => Answers(f)'
  BY <1>1 DEF Answers
<1>3. Inbounds'
  BY <1>1, <1>2 DEF Responses, Inbounds, Answers, Req, Cb
<1>4. InSlotOfClient'
  BY <1>1, <1>2 DEF Responses, InSlotOfClient, Answers, Req, Cb
<1>5. \A x \in Thread : Replying(x)'
  BY <1>1 DEF Responses, Replying, AwaitedBy
<1> QED
  BY <1>3, <1>4, <1>5 DEF Responses

\* The thread that returns leaves no other response for its request behind.
LEMMA ResponsesReadEnd ==
  ASSUME IInv, Responses, SlotLane, NEW t \in Thread, ReadEnd(t)
  PROVE  Responses'
<1>1. /\ UNCHANGED <<down, done, lane, cur, DownDom>> /\ cRead' = NoFrame /\ pc[t] = "reading"
      /\ \A x \in Thread : pc'[x] = IF x = t THEN "idle" ELSE pc[x]
  BY Types DEF ReadEnd, serverVars, DownDom
<1>2. cRead.id = cur[t].id /\ Req(cRead)
  BY <1>1, Types DEF IInv, ClientSlot, Ids, Busy, Req, NoId
<1>3. \A i \in DownDom : down[i].id # cur[t].id
  BY <1>2 DEF Responses, InSlotOfClient
<1>4. \A i \in DownDom : Req(down[i]) => Answers(down[i])'
  BY <1>1, <1>3 DEF Responses, Inbounds, Answers
<1>5. Inbounds'
  BY <1>1, <1>4 DEF Responses, Inbounds, Req, Cb
<1>6. InSlotOfClient'
  BY <1>1 DEF InSlotOfClient, Req, Cb, NoFrame, NoId
<1>7. \A x \in Thread : Replying(x)'
  BY <1>1 DEF Responses, Replying, AwaitedBy, SlotLane, LaneSlot, Req, NoFrame, NoId
<1> QED
  BY <1>5, <1>6, <1>7 DEF Responses

\* A response moves from the stream to the slot.
LEMMA ResponsesReadId ==
  ASSUME IInv, Responses, ClientReadId
  PROVE  Responses'
<1>1. /\ UNCHANGED <<done, lane, cur, pc>> /\ cRead' = Head(down) /\ down # <<>> /\ down' = Tail(down)
  BY DEF ClientReadId, serverVars
<1>2. /\ 1 \in DownDom /\ cRead' = down[1]
      /\ \A i \in DownDom' : i + 1 \in DownDom /\ down'[i] = down[i + 1] /\ i \in Nat \ {0}
  BY <1>1, DownRead
<1>3. \A f : Answers(f) => Answers(f)'
  BY <1>1 DEF Answers
<1>4. Inbounds'
  <2>1. ASSUME NEW i \in DownDom' PROVE (/\ down[i].id # NoId
                                         /\ Req(down[i]) => Answers(down[i])
                                         /\ Cb(down[i]) => down[i].op = "cb")'
    <3>1. PICK g : g = down'[i] /\ g = down[i + 1]
      BY <1>2
    <3>2. g.id # NoId /\ (Req(g) => Answers(g)) /\ (Cb(g) => g.op = "cb")
      BY <1>2, <3>1 DEF Responses, Inbounds
    <3> QED
      BY <1>1, <3>1, <3>2 DEF Req, Cb, Answers
  <2>2. ASSUME NEW i \in DownDom', NEW j \in DownDom', Req(down[i])', down'[i].id = down'[j].id PROVE i = j
    <3>1. Req(down[i + 1]) /\ down[i + 1].id = down[j + 1].id /\ i + 1 \in DownDom /\ j + 1 \in DownDom
      BY <1>2, <2>2 DEF Req
    <3>2. i + 1 = j + 1
      BY <3>1 DEF Responses, Inbounds
    <3> QED
      BY <1>2, <3>2
  <2> QED
    BY <2>1, <2>2 DEF Inbounds
<1>5. InSlotOfClient'
  <2>1. PICK g : g = down[1] /\ g = cRead'
    BY <1>2
  <2>2. g.id # NoId /\ (Req(g) => Answers(g)) /\ (Cb(g) => g.op = "cb")
    BY <1>2, <2>1 DEF Responses, Inbounds
  <2>3. ASSUME Req(g), NEW i \in DownDom', g.id = down'[i].id PROVE FALSE
    <3>1. down[1].id = down[i + 1].id /\ i + 1 \in DownDom /\ Req(down[1])
      BY <1>2, <2>1, <2>3
    <3>2. 1 = i + 1
      BY <1>2, <3>1 DEF Responses, Inbounds
    <3> QED
      BY <1>2, <3>2
  <2> QED
    BY <1>1, <2>1, <2>2, <2>3 DEF InSlotOfClient, Answers, Req, Cb
<1>6. \A x \in Thread : Replying(x)'
  BY <1>1, <1>2 DEF Responses, Replying, AwaitedBy
<1> QED
  BY <1>4, <1>5, <1>6 DEF Responses

\* The dispatcher empties a slot that held no response.
LEMMA ResponsesDispatch ==
  ASSUME IInv, Responses, SlotLane, DispatchReadEnd
  PROVE  Responses'
<1>1. UNCHANGED <<down, done, lane, cur, pc, DownDom>> /\ cRead' = NoFrame
  BY DEF DispatchReadEnd, serverVars, DownDom
<1>2. Inbounds'
  BY <1>1 DEF Responses, Inbounds, Answers, Req, Cb
<1>3. InSlotOfClient'
  BY <1>1 DEF InSlotOfClient, Req, Cb, NoFrame, NoId
<1>4. \A x \in Thread : Replying(x)'
  BY <1>1 DEF Responses, Replying, AwaitedBy, SlotLane, LaneSlot, Req, NoFrame, NoId
<1> QED
  BY <1>2, <1>3, <1>4 DEF Responses

\* An executed request had no response yet.
LEMMA ResponsesExec ==
  ASSUME IInv, Responses, SlotLane, Ordering, NEW t \in Thread, WorkerExec(t)
  PROVE  Responses'
<1>1. /\ lane[t].st = "exec" /\ UNCHANGED <<down, cRead, cur, pc, DownDom>>
      /\ \A x \in Thread \ {t} : lane'[x] = lane[x] /\ done'[x] = done[x]
      /\ lane'[t].id = lane[t].id /\ done'[t] = done[t] \cup {lane[t].id}
      /\ lane'[t].st = "reply" => lane[t].run \in Sync
  BY Types DEF WorkerExec, Lane, clientVars, DownDom
<1>2. Outstanding(t, lane[t].id) /\ Req(lane[t]) /\ (lane[t].run \in Sync => AwaitedBy(t, lane[t].id))
  BY <1>1 DEF Ordering, LaneOrder, SlotLane, LaneSlot
<1>3. ASSUME lane[t].run \in Sync, NEW f, Answers(f) PROVE f.id # lane[t].id
  <2> SUFFICES ASSUME f.id = lane[t].id PROVE FALSE
    OBVIOUS
  <2>1. PICK u \in Thread : /\ pc[u] \in {"waiting", "reading"}
                            /\ cur[u].id = f.id /\ f.id \in done[u]
    BY <1>3 DEF Answers
  <2>2. u = t
    BY <1>2, <1>3, <2>1 DEF AwaitedBy, IInv, Ids, Busy
  <2> QED
    BY <1>2, <2>1, <2>2 DEF Outstanding
<1>4. ASSUME lane[t].run \in Sync PROVE cRead.id # lane[t].id /\ \A i \in DownDom : down[i].id # lane[t].id
  BY <1>2, <1>3, <1>4 DEF Responses, Inbounds, InSlotOfClient, Req
<1>5. lane'[t].st = "reply" => Replying(t)'
  BY <1>1, <1>2, <1>4 DEF Replying, AwaitedBy
<1> QED
  BY <1>1, <1>5, ResponsesCalm

\* Sending a frame that answers a waiting thread, or a callback, keeps Responses.
LEMMA ResponsesSent ==
  ASSUME IInv, Responses, UNCHANGED <<done, cur, pc, cRead>>,
         NEW f, DownGrown(f), f.id \in Nat \ {0},
         Req(f) => Answers(f), Cb(f) => f.op = "cb",
         Req(cRead) => cRead.id # f.id, 
         \A i \in DownDom : (Req(f) \/ Req(down[i])) => down[i].id # f.id,
         \A x \in Thread : lane'[x].st = "reply" =>
            lane[x].st = "reply" /\ lane'[x].id = lane[x].id /\ lane[x].id # f.id
  PROVE  Responses'
<1>0. /\ DownDom' = DownDom \cup {Len(down) + 1}
      /\ \A i \in DownDom : down'[i] = down[i]
      /\ down'[Len(down) + 1] = f
  BY DEF DownGrown
<1>1. \A g : Answers(g) => Answers(g)'
  BY DEF Answers
<1>2. Inbounds'
  <2>1. ASSUME NEW i \in DownDom' PROVE (/\ down[i].id # NoId
                                         /\ Req(down[i]) => Answers(down[i])
                                         /\ Cb(down[i]) => down[i].op = "cb")'
    <3>1. CASE i \in DownDom
      BY <1>0, <3>1 DEF Responses, Inbounds, Answers, Req, Cb
    <3>2. CASE i = Len(down) + 1
      BY <1>0, <3>2 DEF Answers, Req, Cb, NoId
    <3> QED
      BY <1>0, <3>1, <3>2
  <2>2. ASSUME NEW i \in DownDom', NEW j \in DownDom', Req(down[i])', down'[i].id = down'[j].id PROVE i = j
    <3>1. CASE i \in DownDom /\ j \in DownDom
      BY <1>0, <2>2, <3>1 DEF Responses, Inbounds, Req
    <3>2. CASE i \in DownDom /\ j = Len(down) + 1
      BY <1>0, <2>2, <3>2 DEF Req
    <3>3. CASE i = Len(down) + 1 /\ j \in DownDom
      BY <1>0, <2>2, <3>3 DEF Req
    <3> QED
      BY <1>0, <3>1, <3>2, <3>3
  <2> QED
    BY <2>1, <2>2 DEF Inbounds
<1>3. InSlotOfClient'
  BY <1>0 DEF Responses, InSlotOfClient, Answers, Req, Cb
<1>4. \A x \in Thread : Replying(x)'
  BY <1>0 DEF Responses, Replying, AwaitedBy
<1> QED
  BY <1>2, <1>3, <1>4 DEF Responses

\* A worker sends the one response of its request.
LEMMA ResponsesReply ==
  ASSUME IInv, Responses, SlotLane, NEW t \in Thread, WorkerReply(t)
  PROVE  Responses'
<1>1. PICK f : f = [id |-> lane[t].id, lane |-> Free, op |-> "resp"]
  OBVIOUS
<1>2. /\ lane[t].st = "reply" /\ UNCHANGED <<done, cur, pc, cRead>> /\ down' = Append(down, f)
      /\ \A x \in Thread \ {t} : lane'[x] = lane[x]
      /\ lane'[t].st = "wait"
  BY <1>1, Types DEF WorkerReply, Lane, clientVars
<1>3. Req(lane[t]) /\ Replying(t) /\ lane[t].id \in Nat
  BY <1>2, Types DEF SlotLane, LaneSlot, Responses
<1>4. f \in Frame /\ f.id = lane[t].id /\ f.op = "resp" /\ f.id \in Nat \ {0} /\ Req(f) /\ ~Cb(f)
  BY <1>1, <1>3 DEF Frame, Id, Req, Cb, NoId
<1>5. DownGrown(f)
  BY <1>2, <1>4, DownSent
<1>6. Answers(f)
  BY <1>2, <1>3, <1>4 DEF Replying, AwaitedBy, Answers
<1>7. cRead.id # f.id /\ \A i \in DownDom : down[i].id # f.id
  BY <1>2, <1>3, <1>4 DEF Replying
<1>8. \A x \in Thread \ {t} : lane[x].st = "reply" => lane[x].id # f.id
  BY <1>2, <1>3, <1>4 DEF Responses, Replying, AwaitedBy, IInv, Ids, Busy
<1> QED
  BY <1>2, <1>4, <1>5, <1>6, <1>7, <1>8, ResponsesSent

\* A callback's id is odd: it is nobody's response.
LEMMA ResponsesCallback ==
  ASSUME IInv, Responses, SlotLane, Round, NEW c \in Callback, CallbackRequest(c)
  PROVE  Responses'
<1>1. PICK f : f = [id |-> sRequestId + 2, lane |-> Free, op |-> "cb"]
  OBVIOUS
<1>2. UNCHANGED <<done, cur, pc, cRead, lane>> /\ down' = Append(down, f)
  BY <1>1 DEF CallbackRequest, clientVars
<1>3. sRequestId \in Nat /\ sRequestId % 2 = 1
  BY Types DEF Round, Callers
<1>4. f \in Frame /\ f.id \in Nat \ {0} /\ f.id % 2 = 1 /\ f.op = "cb" /\ ~Req(f)
  <2>1. f.id = sRequestId + 2
    BY <1>1
  <2>2. f.id \in Nat \ {0} /\ f.id % 2 = 1
    BY <1>3, <2>1
  <2> QED
    BY <1>1, <2>2 DEF Frame, Id, Req
<1>5. DownGrown(f)
  BY <1>2, <1>4, DownSent
<1>6. \A x \in Thread : lane[x].st = "reply" => lane[x].id # f.id
  BY <1>4 DEF SlotLane, LaneSlot, Req
<1> QED
  BY <1>2, <1>4, <1>5, <1>6, ResponsesSent DEF Req

\* The server's other steps send nothing and reply to nothing.
LEMMA ResponsesServer ==
  ASSUME IInv, Ordering, Responses,
         \/ ServerReadResponse \/ ServerReadRequest \/ ServerJoin
         \/ \E t \in Thread : WorkerTake(t) \/ WorkerReadEnd(t)
         \/ \E c \in Callback : CallbackReadStart(c) \/ CallbackReadEnd(c)
  PROVE  Responses'
<1>0. UNCHANGED <<down, cRead, done, pc, cur>>
  BY DEF ServerReadResponse, ServerReadRequest, ServerJoin, WorkerTake, WorkerReadEnd,
         CallbackReadStart, CallbackReadEnd, clientVars
<1>1. \A x \in Thread : lane'[x].st = "reply" => lane[x].st = "reply" /\ lane'[x].id = lane[x].id
  <2>1. CASE ServerReadRequest
    BY <2>1, ReadRequestEffect
  <2>2. CASE ServerJoin
    <3>1. \A x \in Thread : lane'[x] = IF x = joining THEN NoLane ELSE lane[x]
      BY <2>2, Types DEF ServerJoin
    <3> QED
      BY <3>1 DEF NoLane
  <2>3. ASSUME NEW t \in Thread, WorkerTake(t), NEW x \in Thread, lane'[x].st = "reply"
        PROVE  lane[x].st = "reply" /\ lane'[x].id = lane[x].id
    <3>1. lane'[t].st \in {"exited", "body"} /\ \A y \in Thread \ {t} : lane'[y] = lane[y]
      BY <2>3, TakeEffect
    <3> QED
      BY <2>3, <3>1
  <2>4. ASSUME NEW t \in Thread, WorkerReadEnd(t), NEW x \in Thread, lane'[x].st = "reply"
        PROVE  lane[x].st = "reply" /\ lane'[x].id = lane[x].id
    BY <2>4, Types DEF WorkerReadEnd, Lane
  <2> QED
    BY <2>1, <2>2, <2>3, <2>4 DEF ServerReadResponse, CallbackReadStart, CallbackReadEnd
<1> QED
  BY <1>0, <1>1, ResponsesCalm

\* Round survives a step that moves no callback's frame.
LEMMA RoundCalm ==
  ASSUME IInv, Round, UNCHANGED <<cbSt, cbId, sRequestId>>,
         disp' = "running" => disp = "running" /\ dispId' = dispId,
         Cb(cRead') => cRead' = cRead,
         \A i \in PipeDom' : Cb(Pipe'[i]) => i \in PipeDom /\ Pipe'[i] = Pipe[i],
         \A i \in DownDom' : Cb(down'[i]) => i \in DownDom /\ down'[i] = down[i],
         sRead' = sRead \/ (~Cb(sRead) /\ ~Cb(sRead'))
  PROVE  Round'
<1>1. Callers'
  BY DEF Round, Callers, Cb
<1>2. \A x : Calling(x) => Calling(x)'
  BY DEF Calling
<1>3. \A x : NewerThan(x) => NewerThan(x)'
  BY DEF NewerThan, Cb
<1>4. \A x : NewerAll(x) => NewerAll(x)'
  BY <1>3 DEF NewerAll, Cb
<1>5. DownCbs'
  BY DEF Round, DownCbs, Cb, Calling
<1>6. ClientCbs'
  BY DEF Round, ClientCbs, Cb, Calling, NewerThan
<1>7. PipeCbs'
  <2>1. ASSUME NEW i \in PipeDom', Cb(Pipe[i])' PROVE Calling(Pipe[i].id)' /\ NewerAll(Pipe[i].id)'
    <3>1. PICK x : x = Pipe[i].id /\ x = Pipe'[i].id /\ i \in PipeDom /\ Cb(Pipe[i])
      BY <2>1 DEF Cb
    <3>2. Calling(x)' /\ NewerAll(x)'
      BY <1>2, <1>4, <3>1 DEF Round, PipeCbs
    <3> QED
      BY <3>1, <3>2 DEF Calling, NewerAll, NewerThan
  <2>2. ASSUME NEW i \in PipeDom', NEW j \in PipeDom', i < j, Cb(Pipe[i])', Cb(Pipe[j])'
        PROVE  Pipe'[i].id < Pipe'[j].id
    BY <2>2 DEF Round, PipeCbs, Cb
  <2> QED
    BY <2>1, <2>2 DEF PipeCbs
<1>8. SlotCbs'
  <2>1. ASSUME Cb(sRead)' PROVE sRead' = sRead /\ Calling(sRead.id)' /\ NewerAll(sRead.id)'
    <3>1. PICK x : x = sRead.id /\ x = sRead'.id /\ sRead' = sRead
      BY <2>1 DEF Cb
    <3>2. Calling(x)' /\ NewerAll(x)'
      BY <1>2, <1>4, <2>1, <3>1 DEF Round, SlotCbs, Cb
    <3> QED
      BY <3>1, <3>2 DEF Calling, NewerAll, NewerThan
  <2>2. ASSUME Cb(sRead)', NEW i \in PipeDom', Cb(Pipe[i])' PROVE sRead'.id < Pipe'[i].id
    BY <2>1, <2>2 DEF Round, SlotCbs, Cb
  <2> QED
    BY <2>1, <2>2 DEF SlotCbs
<1> QED
  BY <1>1, <1>5, <1>6, <1>7, <1>8 DEF Round

\* A request in the pipe moves no response of a callback.
LEMMA PipeKeepsCbs ==
  ASSUME Pipe' = Pipe \/ \E f : Grown(f) /\ ~Cb(f)
  PROVE  \A i \in PipeDom' : Cb(Pipe'[i]) => i \in PipeDom /\ Pipe'[i] = Pipe[i]
<1>1. CASE Pipe' = Pipe
  BY <1>1 DEF PipeDom
<1>2. ASSUME NEW f, Grown(f), ~Cb(f)
      PROVE  \A i \in PipeDom' : Cb(Pipe'[i]) => i \in PipeDom /\ Pipe'[i] = Pipe[i]
  BY <1>2 DEF Grown
<1> QED
  BY <1>1, <1>2

\* A client thread touches no callback.
LEMMA RoundClient ==
  ASSUME IInv, Turns, Round, NEW t \in Thread,
         \/ \E op \in Op : LockCall(t, op)
         \/ StartRequest(t) \/ WriteEnd(t) \/ WriteEndDeferred(t)
         \/ ReadStart(t) \/ ReadEnd(t)
         \/ WriteLaneTermination(t) \/ SpawnThread(t)
  PROVE  Round'
<1>1. /\ UNCHANGED <<cbSt, cbId, sRequestId, disp, dispId, sRead, down>>
      /\ cRead' = cRead \/ cRead' = NoFrame
  BY DEF LockCall, StartRequest, WriteEnd, WriteEndDeferred, ReadStart, ReadEnd,
         WriteLaneTermination, SpawnThread, serverVars
<1>2. Cb(cRead') => cRead' = cRead
  BY <1>1 DEF Cb, NoFrame, NoId
<1>3. Pipe' = Pipe \/ \E f : Grown(f) /\ ~Cb(f)
  <2>1. CASE WriteEnd(t) \/ WriteEndDeferred(t)
    <3> DEFINE g == RequestFrame(t)
    <3>1. pc[t] = "building" /\ cur[t].op \in Op
      BY <2>1 DEF WriteEnd, WriteEndDeferred, Turns
    <3>2. g \in UpFrame /\ g.id = cur[t].id
      BY <3>1, RequestIsUp DEF RequestFrame
    <3>3. cur[t].id \in Nat /\ cur[t].id % 2 = 0 /\ Wire
      BY Types DEF IInv, Ids
    <3>4. ~Cb(g)
      BY <3>2, <3>3 DEF Cb
    <3>5. CASE up' = Written(<<g>>) /\ batch' = <<>>
      BY <3>2, <3>3, <3>4, <3>5, PipeWritten
    <3>6. CASE batch' = Append(batch, g) /\ UNCHANGED up
      BY <3>2, <3>3, <3>4, <3>6, PipeBatched
    <3> QED
      BY <2>1, <3>5, <3>6 DEF WriteEnd, WriteEndDeferred
  <2>2. CASE WriteLaneTermination(t)
    <3>1. PICK f : f = [id |-> requestId + 2, lane |-> t, op |-> "term"]
      OBVIOUS
    <3>2. requestId \in Nat /\ requestId % 2 = 0 /\ Wire
      BY Types DEF IInv, Ids
    <3>3. f.id = requestId + 2 /\ (requestId + 2) % 2 = 0
      BY <3>1, <3>2
    <3>4. f \in UpFrame /\ ~Cb(f)
      BY <3>1, <3>2, <3>3 DEF UpFrame, Frame, Id, Cb
    <3>5. Grown(f)
      BY <2>2, <3>1, <3>2, <3>4, PipeWritten DEF WriteLaneTermination
    <3> QED
      BY <3>4, <3>5
  <2>3. CASE (\E op \in Op : LockCall(t, op)) \/ StartRequest(t) \/ ReadStart(t) \/ ReadEnd(t) \/ SpawnThread(t)
    BY <2>3 DEF LockCall, StartRequest, ReadStart, ReadEnd, SpawnThread, Pipe
  <2> QED
    BY <2>1, <2>2, <2>3
<1>4. \A i \in DownDom' : i \in DownDom /\ down'[i] = down[i]
  BY <1>1 DEF DownDom
<1> QED
  BY <1>1, <1>2, <1>3, <1>4, PipeKeepsCbs, RoundCalm

\* Nor do the sender and the dispatcher's wake-up.
LEMMA RoundSender ==
  ASSUME IInv, Round, SenderFlush \/ DispatchStart
  PROVE  Round'
<1>1. /\ UNCHANGED <<cbSt, cbId, sRequestId, sRead, down, cRead, dispId>>
      /\ disp' = "running" => disp = "running"
  BY DEF SenderFlush, DispatchStart, serverVars
<1>2. Pipe' = Pipe
  <2>1. CASE SenderFlush
    BY <2>1, PipeFlushed DEF SenderFlush, IInv
  <2>2. CASE DispatchStart
    BY <2>2 DEF DispatchStart, Pipe
  <2> QED
    BY <2>1, <2>2
<1>3. \A i \in DownDom' : i \in DownDom /\ down'[i] = down[i]
  BY <1>1 DEF DownDom
<1> QED
  BY <1>1, <1>2, <1>3, PipeKeepsCbs, RoundCalm

\* Nor do the workers.
LEMMA RoundWorker ==
  ASSUME IInv, Round, SlotLane,
         \/ ServerJoin
         \/ \E t \in Thread : WorkerTake(t) \/ WorkerReadEnd(t) \/ WorkerExec(t) \/ WorkerReply(t)
  PROVE  Round'
<1>1. UNCHANGED <<cbSt, cbId, sRequestId, cRead, disp, dispId, up, batch>>
  BY DEF ServerJoin, WorkerTake, WorkerReadEnd, WorkerExec, WorkerReply, clientVars
<1>2. sRead' = sRead \/ (~Cb(sRead) /\ ~Cb(sRead'))
  <2>0. ~Cb(NoFrame)
    BY DEF Cb, NoFrame, NoId
  <2>1. ASSUME NEW t \in Thread, WorkerTake(t) \/ WorkerReadEnd(t) PROVE ~Cb(sRead)
    <3>1. Req(sRead)
      BY <2>1 DEF WorkerTake, WorkerReadEnd, SlotLane, LaneSlot
    <3> QED
      BY <3>1 DEF Req, Cb
  <2>2. ASSUME NEW t \in Thread, WorkerTake(t) PROVE sRead' = sRead \/ sRead' = NoFrame
    BY <2>2 DEF WorkerTake
  <2>3. ASSUME NEW t \in Thread, WorkerReadEnd(t) PROVE sRead' = NoFrame
    BY <2>3 DEF WorkerReadEnd
  <2>4. ASSUME NEW t \in Thread, WorkerExec(t) \/ WorkerReply(t) PROVE sRead' = sRead
    BY <2>4 DEF WorkerExec, WorkerReply
  <2>5. CASE ServerJoin
    BY <2>5 DEF ServerJoin
  <2> QED
    BY <2>0, <2>1, <2>2, <2>3, <2>4, <2>5
<1>3. \A i \in DownDom' : Cb(down'[i]) => i \in DownDom /\ down'[i] = down[i]
  <2>1. ASSUME NEW t \in Thread, WorkerReply(t)
        PROVE  \A i \in DownDom' : Cb(down'[i]) => i \in DownDom /\ down'[i] = down[i]
    <3>1. PICK f : f = [id |-> lane[t].id, lane |-> Free, op |-> "resp"]
      OBVIOUS
    <3>2. Req(lane[t]) /\ lane[t].id \in Nat
      BY <2>1, Types DEF WorkerReply, SlotLane, LaneSlot
    <3>3. f \in Frame /\ ~Cb(f)
      BY <3>1, <3>2 DEF Frame, Id, Req, Cb
    <3>4. DownGrown(f)
      BY <2>1, <3>1, <3>3, DownSent DEF WorkerReply
    <3> QED
      BY <3>3, <3>4 DEF DownGrown
  <2>2. CASE UNCHANGED down
    BY <2>2 DEF DownDom
  <2>3. UNCHANGED down \/ \E t \in Thread : WorkerReply(t)
    BY DEF ServerJoin, WorkerTake, WorkerReadEnd, WorkerExec
  <2> QED
    BY <2>1, <2>2, <2>3
<1>4. Pipe' = Pipe
  BY <1>1 DEF Pipe
<1> QED
  BY <1>1, <1>2, <1>3, <1>4, PipeKeepsCbs, RoundCalm

\* The callback's id moves from the dispatcher to the end of the pipe.
LEMMA RoundDispatchReply ==
  ASSUME IInv, Round, DispatchReply
  PROVE  Round'
<1>1. PICK f : f = [id |-> dispId, lane |-> Free, op |-> "resp"]
  OBVIOUS
<1>2. dispId \in Nat /\ dispId % 2 = 1 /\ disp = "running" /\ disp' = "idle"
  BY Types DEF DispatchReply, IInv, ClientSlot
<1>3. f \in UpFrame /\ f.id = dispId
  BY <1>1, <1>2 DEF UpFrame, Frame, Id
<1>4. Grown(f)
  BY <1>1, <1>3, PipeWritten DEF DispatchReply, IInv
<1>5. UNCHANGED <<cbSt, cbId, sRequestId, sRead, cRead, down, DownDom>>
  BY DEF DispatchReply, serverVars, DownDom
<1>6. /\ PipeDom' = PipeDom \cup {Len(Pipe) + 1} /\ Pipe'[Len(Pipe) + 1] = f /\ Len(Pipe) \in Nat
      /\ \A i \in PipeDom : Pipe'[i] = Pipe[i] /\ i \in Nat /\ i < Len(Pipe) + 1
  BY <1>4 DEF Grown, PipeDom
<1>7. Callers' /\ DownCbs' /\ ClientCbs'
  BY <1>2, <1>5 DEF Round, Callers, DownCbs, ClientCbs, Calling, NewerThan, Cb
<1>8. \A x : Calling(x) => Calling(x)'
  BY <1>5 DEF Calling
<1>9. \A x : NewerAll(x) => NewerAll(x)' /\ x < dispId
  BY <1>2, <1>5 DEF NewerAll, NewerThan, Cb
<1>10. Calling(f.id)' /\ NewerAll(f.id)'
  BY <1>2, <1>3, <1>5 DEF Round, ClientCbs, NewerAll, NewerThan, Calling, Cb
<1>11. PipeCbs'
  <2>1. ASSUME NEW i \in PipeDom', Cb(Pipe[i])' PROVE Calling(Pipe[i].id)' /\ NewerAll(Pipe[i].id)'
    <3>1. PICK x : x = Pipe'[i].id
      OBVIOUS
    <3>2. CASE i \in PipeDom
      <4>1. Calling(x) /\ NewerAll(x)
        BY <1>6, <2>1, <3>1, <3>2 DEF Round, PipeCbs, Cb
      <4> QED
        BY <1>8, <1>9, <3>1, <4>1 DEF Calling, NewerAll, NewerThan
    <3>3. CASE i = Len(Pipe) + 1
      BY <1>6, <1>10, <3>3 DEF Calling, NewerAll, NewerThan
    <3> QED
      BY <1>6, <3>2, <3>3
  <2>2. ASSUME NEW i \in PipeDom', NEW j \in PipeDom', i < j, Cb(Pipe[i])', Cb(Pipe[j])'
        PROVE  Pipe'[i].id < Pipe'[j].id
    <3>1. CASE j \in PipeDom
      <4>1. i \in PipeDom
        BY <1>6, <2>2, <3>1
      <4> QED
        BY <1>6, <2>2, <3>1, <4>1 DEF Round, PipeCbs, Cb
    <3>2. CASE j = Len(Pipe) + 1
      <4>1. i \in PipeDom
        BY <1>6, <2>2, <3>2
      <4>2. NewerAll(Pipe[i].id)
        BY <1>6, <2>2, <4>1 DEF Round, PipeCbs, Cb
      <4> QED
        BY <1>3, <1>6, <1>9, <3>2, <4>1, <4>2
    <3> QED
      BY <1>6, <3>1, <3>2
  <2> QED
    BY <2>1, <2>2 DEF PipeCbs
<1>12. SlotCbs'
  <2>1. ASSUME Cb(sRead) PROVE Calling(sRead.id)' /\ NewerAll(sRead.id)' /\ sRead.id < dispId
    <3>1. PICK x : x = sRead.id
      OBVIOUS
    <3>2. Calling(x) /\ NewerAll(x)
      BY <2>1, <3>1 DEF Round, SlotCbs
    <3> QED
      BY <1>5, <1>8, <1>9, <3>1, <3>2 DEF Calling, NewerAll, NewerThan
  <2>2. ASSUME Cb(sRead), NEW i \in PipeDom', Cb(Pipe[i])' PROVE sRead.id < Pipe'[i].id
    BY <1>3, <1>6, <2>1, <2>2 DEF Round, SlotCbs, Cb
  <2> QED
    BY <1>5, <2>1, <2>2 DEF SlotCbs, Cb
<1> QED
  BY <1>7, <1>11, <1>12 DEF Round

\* Round survives a step on the client's side that keeps newer ids newer.
LEMMA RoundNewer ==
  ASSUME IInv, Round, UNCHANGED <<cbSt, cbId, sRequestId, sRead, up, batch>>,
         DownCbs', ClientCbs', \A x \in Nat : NewerAll(x) => NewerAll(x)'
  PROVE  Round'
<1>1. Pipe' = Pipe /\ PipeDom' = PipeDom /\ sRead.id \in Nat
  BY Types DEF Pipe, PipeDom
<1>2. Callers'
  BY DEF Round, Callers
<1>3. PipeCbs'
  <2>1. ASSUME NEW i \in PipeDom, Cb(Pipe[i]) PROVE Calling(Pipe[i].id)' /\ NewerAll(Pipe[i].id)'
    <3>1. PICK x \in Nat : x = Pipe[i].id
      BY PipeIds
    <3>2. Calling(x) /\ NewerAll(x)'
      BY <2>1, <3>1 DEF Round, PipeCbs
    <3> QED
      BY <1>1, <3>1, <3>2 DEF Calling, NewerAll, NewerThan
  <2> QED
    BY <1>1, <2>1 DEF Round, PipeCbs, Cb
<1>4. SlotCbs'
  <2>1. ASSUME Cb(sRead) PROVE Calling(sRead.id)' /\ NewerAll(sRead.id)'
    <3>1. PICK x \in Nat : x = sRead.id
      BY <1>1
    <3>2. Calling(x) /\ NewerAll(x)'
      BY <2>1, <3>1 DEF Round, SlotCbs
    <3> QED
      BY <3>1, <3>2 DEF Calling, NewerAll, NewerThan
  <2> QED
    BY <1>1, <2>1 DEF Round, SlotCbs, Cb
<1> QED
  BY <1>2, <1>3, <1>4 DEF Round

\* The callback's id moves from the slot to the dispatcher.
LEMMA RoundDispatchReadEnd ==
  ASSUME IInv, Round, DispatchReadEnd
  PROVE  Round'
<1>1. /\ disp = "reading" /\ disp' = "running" /\ dispId' = cRead.id /\ cRead' = NoFrame
      /\ UNCHANGED <<cbSt, cbId, sRequestId, sRead, up, batch, down, DownDom>>
  BY DEF DispatchReadEnd, serverVars, DownDom
<1>2. Cb(cRead) /\ ~Cb(cRead')
  BY <1>1 DEF IInv, ClientSlot, Cb, NoFrame, NoId
<1>3. DownCbs'
  BY <1>1 DEF Round, DownCbs, Calling, Cb
<1>4. ClientCbs'
  BY <1>1, <1>2 DEF Round, ClientCbs, Calling, NewerThan, Cb
<1>5. \A x \in Nat : NewerAll(x) => NewerAll(x)'
  BY <1>1, <1>2 DEF NewerAll, NewerThan, Cb
<1> QED
  BY <1>1, <1>3, <1>4, <1>5, RoundNewer

\* The oldest callback of the stream moves to the client's slot.
LEMMA RoundReadId ==
  ASSUME IInv, Round, ClientReadId
  PROVE  Round'
<1>1. /\ cRead' = Head(down) /\ down # <<>> /\ down' = Tail(down)
      /\ UNCHANGED <<cbSt, cbId, sRequestId, sRead, up, batch, disp, dispId>>
  BY DEF ClientReadId, serverVars
<1>2. /\ 1 \in DownDom /\ cRead' = down[1]
      /\ \A i \in DownDom' : i + 1 \in DownDom /\ down'[i] = down[i + 1] /\ i \in Nat \ {0}
  BY <1>1, DownRead
<1>3. DownCbs'
  <2>1. ASSUME NEW i \in DownDom', Cb(down[i])' PROVE Calling(down[i].id)'
    <3>1. Calling(down[i + 1].id)
      BY <1>2, <2>1 DEF Round, DownCbs, Cb
    <3> QED
      BY <1>1, <1>2, <3>1 DEF Calling
  <2>2. ASSUME NEW i \in DownDom', NEW j \in DownDom', i < j, Cb(down[i])', Cb(down[j])'
        PROVE  down'[i].id < down'[j].id
    BY <1>2, <2>2 DEF Round, DownCbs, Cb
  <2> QED
    BY <2>1, <2>2 DEF DownCbs
<1>4. \A x : NewerThan(x) => NewerThan(x)' /\ (Cb(cRead') => x < cRead'.id)
  BY <1>2 DEF NewerThan, Cb
<1>5. ClientCbs'
  <2>1. ASSUME Cb(cRead') PROVE Calling(cRead.id)' /\ NewerThan(cRead.id)'
    <3>1. Calling(cRead'.id)
      BY <1>2, <2>1 DEF Round, DownCbs
    <3>2. \A i \in DownDom' : Cb(down'[i]) => cRead'.id < down'[i].id
      BY <1>2, <2>1 DEF Round, DownCbs
    <3> QED
      BY <1>1, <3>1, <3>2 DEF Calling, NewerThan, Cb
  <2>2. ASSUME disp = "running" PROVE Calling(dispId)' /\ NewerThan(dispId)' /\ (Cb(cRead') => dispId < cRead'.id)
    <3>1. PICK x : x = dispId /\ x = dispId'
      BY <1>1
    <3>2. Calling(x) /\ NewerThan(x)
      BY <2>2, <3>1 DEF Round, ClientCbs
    <3> QED
      BY <1>1, <1>4, <3>1, <3>2 DEF Calling, NewerThan
  <2> QED
    BY <1>1, <2>1, <2>2 DEF ClientCbs, Cb
<1>6. \A x \in Nat : NewerAll(x) => NewerAll(x)'
  BY <1>1, <1>4 DEF NewerAll, Cb
<1> QED
  BY <1>1, <1>3, <1>5, <1>6, RoundNewer

\* The oldest response of the pipe moves to the server's slot.
LEMMA RoundServerRead ==
  ASSUME IInv, Ordering, Round, ServerReadResponse \/ ServerReadRequest
  PROVE  Round'
<1>1. /\ up # <<>> /\ up' = Tail(up) /\ UNCHANGED batch /\ sRead' = Head(up) /\ ~Cb(sRead)
      /\ UNCHANGED <<cbSt, cbId, sRequestId, cRead, disp, dispId, down, DownDom>>
  BY DEF ServerReadResponse, ServerReadRequest, clientVars, Cb, NoFrame, NoId, DownDom
<1>2. /\ 1 \in PipeDom /\ Pipe[1] = sRead'
      /\ \A i \in PipeDom' : i + 1 \in PipeDom /\ Pipe'[i] = Pipe[i + 1] /\ i \in Nat \ {0}
  BY <1>1, PipeRead DEF IInv
<1>3. Callers' /\ DownCbs' /\ ClientCbs'
  BY <1>1 DEF Round, Callers, DownCbs, ClientCbs, Calling, NewerThan, Cb
<1>4. \A x : (Calling(x) => Calling(x)') /\ (NewerAll(x) => NewerAll(x)')
  BY <1>1 DEF Calling, NewerAll, NewerThan, Cb
<1>5. PipeCbs'
  <2>1. ASSUME NEW i \in PipeDom', Cb(Pipe[i])' PROVE Calling(Pipe[i].id)' /\ NewerAll(Pipe[i].id)'
    <3>1. PICK x : x = Pipe'[i].id /\ x = Pipe[i + 1].id
      BY <1>2
    <3>2. Calling(x) /\ NewerAll(x)
      BY <1>2, <2>1, <3>1 DEF Round, PipeCbs, Cb
    <3> QED
      BY <1>4, <3>1, <3>2 DEF Calling, NewerAll, NewerThan
  <2>2. ASSUME NEW i \in PipeDom', NEW j \in PipeDom', i < j, Cb(Pipe[i])', Cb(Pipe[j])'
        PROVE  Pipe'[i].id < Pipe'[j].id
    BY <1>2, <2>2 DEF Round, PipeCbs, Cb
  <2> QED
    BY <2>1, <2>2 DEF PipeCbs
<1>6. SlotCbs'
  <2>1. ASSUME Cb(sRead') PROVE Calling(sRead.id)' /\ NewerAll(sRead.id)'
    <3>1. PICK x : x = sRead'.id /\ x = Pipe[1].id
      BY <1>2
    <3>2. Calling(x) /\ NewerAll(x)
      BY <1>2, <2>1, <3>1 DEF Round, PipeCbs, Cb
    <3> QED
      BY <1>4, <3>1, <3>2 DEF Calling, NewerAll, NewerThan
  <2>2. ASSUME Cb(sRead'), NEW i \in PipeDom', Cb(Pipe[i])' PROVE sRead'.id < Pipe'[i].id
    BY <1>2, <2>2 DEF Round, PipeCbs, Cb
  <2> QED
    BY <2>1, <2>2 DEF SlotCbs, Cb
<1> QED
  BY <1>3, <1>5, <1>6 DEF Round

\* A new callback is newer than all those on their way.
LEMMA RoundCallbackRequest ==
  ASSUME IInv, Round, NEW c \in Callback, CallbackRequest(c)
  PROVE  Round'
<1>1. PICK f : f = [id |-> sRequestId + 2, lane |-> Free, op |-> "cb"]
  OBVIOUS
<1>2. /\ cbSt[c] = "idle" /\ sRequestId' = sRequestId + 2 /\ down' = Append(down, f)
      /\ UNCHANGED <<sRead, up, batch, cRead, disp, dispId>>
      /\ \A d \in Callback \ {c} : cbId'[d] = cbId[d] /\ cbSt'[d] = cbSt[d]
      /\ cbId'[c] = sRequestId + 2 /\ cbSt'[c] = "waiting"
  BY <1>1, Types DEF CallbackRequest, clientVars
<1>3. sRequestId \in Nat /\ sRequestId % 2 = 1 /\ (sRequestId + 2) % 2 = 1
  <2>1. sRequestId \in Nat /\ sRequestId % 2 = 1
    BY Types DEF Round, Callers
  <2> QED
    BY <2>1
<1>4. f \in Frame /\ f.id = sRequestId + 2
  BY <1>1, <1>3 DEF Frame, Id
<1>5. /\ DownDom' = DownDom \cup {Len(down) + 1} /\ down'[Len(down) + 1] = f /\ Len(down) + 1 \in Nat
      /\ \A i \in DownDom : down'[i] = down[i] /\ i \in Nat /\ i < Len(down) + 1 /\ down[i].id \in Nat
  BY <1>2, <1>4, DownSent, DownType DEF DownGrown
<1>6. Callers'
  <2>1. \A d \in Callback : cbId[d] \in Nat /\ (cbSt[d] # "idle" => cbId[d] % 2 = 1 /\ cbId[d] <= sRequestId)
    BY Types DEF Round, Callers
  <2>2. \A d \in Callback : cbSt'[d] # "idle" => cbId'[d] % 2 = 1 /\ cbId'[d] <= sRequestId'
    BY <1>2, <1>3, <2>1
  <2>3. \A d \in Callback : cbSt'[d] = "reading" => cbId'[d] = sRead'.id
    BY <1>2 DEF Round, Callers
  <2>4. \A d, e \in Callback : cbSt'[d] # "idle" /\ cbSt'[e] # "idle" /\ cbId'[d] = cbId'[e] => d = e
    BY <1>2, <1>3, <2>1 DEF Round, Callers
  <2> QED
    BY <1>2, <1>3, <2>2, <2>3, <2>4 DEF Callers
<1>7. \A x \in Nat : Calling(x) => Calling(x)' /\ x < sRequestId + 2
  BY <1>2, <1>3 DEF Calling
<1>8. Calling(f.id)'
  BY <1>2, <1>3, <1>4 DEF Calling
<1>9. \A x \in Nat : Calling(x) /\ NewerThan(x) => NewerThan(x)'
  BY <1>4, <1>5, <1>7 DEF NewerThan, Cb
<1>10. \A x \in Nat : Calling(x) /\ NewerAll(x) => NewerAll(x)'
  BY <1>2, <1>9 DEF NewerAll, Cb
<1>11. DownCbs'
  <2>1. ASSUME NEW i \in DownDom', Cb(down[i])' PROVE Calling(down[i].id)'
    <3>1. CASE i \in DownDom
      <4>1. PICK x \in Nat : x = down[i].id /\ x = down'[i].id
        BY <1>5, <3>1
      <4>2. Calling(x)'
        BY <1>5, <1>7, <2>1, <3>1, <4>1 DEF Round, DownCbs, Cb
      <4> QED
        BY <4>1, <4>2 DEF Calling
    <3>2. CASE i = Len(down) + 1
      BY <1>2, <1>4, <1>5, <1>8, <3>2 DEF Calling
    <3> QED
      BY <1>5, <3>1, <3>2
  <2>2. ASSUME NEW i \in DownDom', NEW j \in DownDom', i < j, Cb(down[i])', Cb(down[j])'
        PROVE  down'[i].id < down'[j].id
    <3>1. CASE j \in DownDom
      <4>1. i \in DownDom
        BY <1>5, <2>2, <3>1
      <4> QED
        BY <1>5, <2>2, <3>1, <4>1 DEF Round, DownCbs, Cb
    <3>2. CASE j = Len(down) + 1
      <4>1. i \in DownDom
        BY <1>5, <2>2, <3>2
      <4>2. Calling(down[i].id)
        BY <1>5, <2>2, <4>1 DEF Round, DownCbs, Cb
      <4> QED
        BY <1>4, <1>5, <1>7, <3>2, <4>1, <4>2
    <3> QED
      BY <1>5, <3>1, <3>2
  <2> QED
    BY <2>1, <2>2 DEF DownCbs
<1>12. ClientCbs'
  <2>1. cRead.id \in Nat /\ dispId \in Nat
    BY Types
  <2>2. ASSUME Cb(cRead) PROVE Calling(cRead.id)' /\ NewerThan(cRead.id)'
    <3>1. PICK x \in Nat : x = cRead.id /\ x = cRead'.id
      BY <1>2, <2>1
    <3>2. Calling(x)' /\ NewerThan(x)'
      BY <1>7, <1>9, <2>2, <3>1 DEF Round, ClientCbs
    <3> QED
      BY <3>1, <3>2 DEF Calling, NewerThan
  <2>3. ASSUME disp = "running" PROVE Calling(dispId)' /\ NewerThan(dispId)'
    <3>1. PICK x \in Nat : x = dispId /\ x = dispId'
      BY <1>2, <2>1
    <3>2. Calling(x)' /\ NewerThan(x)'
      BY <1>7, <1>9, <2>3, <3>1 DEF Round, ClientCbs
    <3> QED
      BY <3>1, <3>2 DEF Calling, NewerThan
  <2> QED
    BY <1>2, <2>2, <2>3 DEF Round, ClientCbs, Cb
<1>13. Pipe' = Pipe /\ PipeDom' = PipeDom
  BY <1>2 DEF Pipe, PipeDom
<1>14. PipeCbs'
  <2>1. ASSUME NEW i \in PipeDom, Cb(Pipe[i]) PROVE Calling(Pipe[i].id)' /\ NewerAll(Pipe[i].id)'
    <3>1. PICK x \in Nat : x = Pipe[i].id
      BY PipeIds
    <3>2. Calling(x)' /\ NewerAll(x)'
      BY <1>7, <1>10, <2>1, <3>1 DEF Round, PipeCbs
    <3> QED
      BY <1>13, <3>1, <3>2 DEF Calling, NewerAll, NewerThan
  <2> QED
    BY <1>13, <2>1 DEF Round, PipeCbs, Cb
<1>15. SlotCbs'
  <2>1. ASSUME Cb(sRead) PROVE Calling(sRead.id)' /\ NewerAll(sRead.id)'
    <3>1. PICK x \in Nat : x = sRead.id /\ x = sRead'.id
      BY <1>2, Types
    <3>2. Calling(x)' /\ NewerAll(x)'
      BY <1>7, <1>10, <2>1, <3>1 DEF Round, SlotCbs
    <3> QED
      BY <3>1, <3>2 DEF Calling, NewerAll, NewerThan
  <2> QED
    BY <1>2, <1>13, <2>1 DEF Round, SlotCbs, Cb
<1> QED
  BY <1>6, <1>11, <1>12, <1>14, <1>15 DEF Round

\* The CUDA thread finds its response in the slot.
LEMMA RoundCallbackReadStart ==
  ASSUME IInv, Round, NEW c \in Callback, CallbackReadStart(c)
  PROVE  Round'
<1>1. /\ cbSt[c] = "waiting" /\ sRead.id = cbId[c]
      /\ UNCHANGED <<sRead, up, batch, cRead, disp, dispId, down, cbId, sRequestId, DownDom, PipeDom, Pipe>>
      /\ \A d \in Callback : cbSt'[d] = IF d = c THEN "reading" ELSE cbSt[d]
  BY Types DEF CallbackReadStart, clientVars, DownDom, PipeDom, Pipe
<1>2. Callers'
  BY <1>1 DEF Round, Callers
<1>3. \A x : Calling(x) => Calling(x)'
  BY <1>1 DEF Calling
<1>4. DownCbs' /\ ClientCbs'
  BY <1>1, <1>3 DEF Round, DownCbs, ClientCbs, Calling, NewerThan, Cb
<1>5. PipeCbs'
  BY <1>1, <1>3 DEF Round, PipeCbs, Calling, NewerAll, NewerThan, Cb
<1>6. SlotCbs'
  BY <1>1, <1>3 DEF Round, SlotCbs, Calling, NewerAll, NewerThan, Cb
<1> QED
  BY <1>2, <1>4, <1>5, <1>6 DEF Round

\* The id that is given up is older than all those on their way.
LEMMA RoundCallbackReadEnd ==
  ASSUME IInv, Round, NEW c \in Callback, CallbackReadEnd(c)
  PROVE  Round'
<1>1. /\ cbSt[c] = "reading" /\ sRead' = NoFrame
      /\ UNCHANGED <<up, batch, cRead, disp, dispId, down, cbId, sRequestId, DownDom, PipeDom, Pipe>>
      /\ \A d \in Callback : cbSt'[d] = IF d = c THEN "idle" ELSE cbSt[d]
  BY Types DEF CallbackReadEnd, clientVars, DownDom, PipeDom, Pipe
<1>2. /\ cbId[c] = sRead.id /\ Cb(sRead) /\ NewerAll(sRead.id) /\ sRead.id \in Nat
      /\ \A i \in PipeDom : Cb(Pipe[i]) => sRead.id < Pipe[i].id
  BY <1>1, Types DEF Round, Callers, SlotCbs, Cb
<1>3. \A x \in Nat : Calling(x) /\ sRead.id < x => Calling(x)'
  BY <1>1, <1>2 DEF Calling
<1>4. Callers'
  BY <1>1, <1>2 DEF Round, Callers
<1>5. DownCbs'
  <2>1. ASSUME NEW i \in DownDom, Cb(down[i]) PROVE Calling(down[i].id)'
    <3>1. PICK x \in Nat : x = down[i].id
      BY DownType
    <3>2. Calling(x)'
      BY <1>2, <1>3, <2>1, <3>1 DEF Round, DownCbs, NewerAll, NewerThan
    <3> QED
      BY <1>1, <3>1, <3>2 DEF Calling
  <2> QED
    BY <1>1, <2>1 DEF Round, DownCbs, Cb
<1>6. ClientCbs'
  <2>1. ASSUME Cb(cRead) PROVE Calling(cRead.id)'
    <3>1. PICK x \in Nat : x = cRead.id
      BY Types
    <3>2. Calling(x)'
      BY <1>2, <1>3, <2>1, <3>1 DEF Round, ClientCbs, NewerAll
    <3> QED
      BY <1>1, <3>1, <3>2 DEF Calling
  <2>2. ASSUME disp = "running" PROVE Calling(dispId)'
    <3>1. PICK x \in Nat : x = dispId
      BY Types
    <3>2. Calling(x)'
      BY <1>2, <1>3, <2>2, <3>1 DEF Round, ClientCbs, NewerAll
    <3> QED
      BY <1>1, <3>1, <3>2 DEF Calling
  <2> QED
    BY <1>1, <2>1, <2>2 DEF Round, ClientCbs, NewerThan, Cb
<1>7. PipeCbs'
  <2>1. ASSUME NEW i \in PipeDom, Cb(Pipe[i]) PROVE Calling(Pipe[i].id)'
    <3>1. PICK x \in Nat : x = Pipe[i].id
      BY PipeIds
    <3>2. Calling(x)'
      BY <1>2, <1>3, <2>1, <3>1 DEF Round, PipeCbs
    <3> QED
      BY <1>1, <3>1, <3>2 DEF Calling
  <2> QED
    BY <1>1, <2>1 DEF Round, PipeCbs, NewerAll, NewerThan, Cb
<1>8. SlotCbs'
  BY <1>1 DEF SlotCbs, Cb, NoFrame, NoId
<1> QED
  BY <1>4, <1>5, <1>6, <1>7, <1>8 DEF Round

\* The stronger invariant holds when the connection is established ...
LEMMA InitOrdered == Init => OrderInv
<1> SUFFICES ASSUME Init PROVE OrderInv
  OBVIOUS
<1>1. IInv
  BY InitInv
<1>2. Pipe = <<>> /\ PipeDom = {} /\ DownDom = {} /\ ~Req(sRead) /\ ~Cb(sRead) /\ ~Req(cRead) /\ ~Cb(cRead)
  BY DEF Init, Pipe, PipeDom, DownDom, Req, Cb, NoFrame, NoId
<1>3. \A t \in Thread : pc[t] = "idle" /\ lane[t] = NoLane /\ issued[t] = {} /\ done[t] = {}
  BY DEF Init
<1>4. Turns
  BY <1>3, ConnAssumption DEF Turns, Init
<1>5. Issues
  BY <1>3 DEF Issues, IssuesOf, Busy
<1>6. Ordering
  BY <1>2, <1>3 DEF Ordering, PipeOrder, SlotOrder, LaneOrder, Covered, NoLane
<1>7. SlotLane
  BY <1>2, <1>3 DEF SlotLane, HandedOver, LaneSlot, NoLane, Init
<1>8. Responses
  BY <1>2, <1>3 DEF Responses, Inbounds, InSlotOfClient, Replying, NoLane, Init
<1>9. Round
  BY <1>2 DEF Round, Callers, DownCbs, ClientCbs, PipeCbs, SlotCbs, Init
<1> QED
  BY <1>1, <1>4, <1>5, <1>6, <1>7, <1>8, <1>9 DEF OrderInv

\* ... is kept by the client's threads ...
LEMMA ClientOrdered ==
  ASSUME OrderInv, IInv', NEW t \in Thread,
         \/ \E op \in Op : LockCall(t, op)
         \/ StartRequest(t) \/ WriteEnd(t) \/ WriteEndDeferred(t)
         \/ ReadStart(t) \/ ReadEnd(t)
         \/ WriteLaneTermination(t) \/ SpawnThread(t)
  PROVE  OrderInv'
<1>0. IInv /\ Turns /\ Issues /\ Ordering /\ SlotLane /\ Responses /\ Round
  BY DEF OrderInv
<1>1. Turns' /\ Issues' /\ Round'
  BY <1>0, TurnsClient, IssuesClient, RoundClient
<1>2. Ordering'
  BY <1>0, OrderingStart, OrderingQuiet, OrderingWritten, OrderingTermination
<1>3. SlotLane'
  <2>1. UNCHANGED <<sRead, lane, joining>>
    BY DEF LockCall, StartRequest, WriteEnd, WriteEndDeferred, ReadStart, ReadEnd,
           WriteLaneTermination, SpawnThread, serverVars
  <2> QED
    BY <1>0, <2>1, SlotLaneKept
<1>4. Responses'
  BY <1>0, ResponsesClient, ResponsesReadStart, ResponsesReadEnd
<1> QED
  BY <1>1, <1>2, <1>3, <1>4 DEF OrderInv

\* ... by its sender, its reader and its dispatcher ...
LEMMA DispatchOrdered ==
  ASSUME OrderInv, IInv',
         SenderFlush \/ ClientReadId \/ DispatchStart \/ DispatchReadEnd \/ DispatchReply
  PROVE  OrderInv'
<1>0. IInv /\ Turns /\ Issues /\ Ordering /\ SlotLane /\ Responses /\ Round
  BY DEF OrderInv
<1>1. UNCHANGED <<pc, cur, callMutex, writeMutex, requestId, issued, done, sRead, lane, joining>>
  BY DEF SenderFlush, ClientReadId, DispatchStart, DispatchReadEnd, DispatchReply, serverVars
<1>2. Turns' /\ Issues' /\ SlotLane'
  BY <1>0, <1>1, TurnsKept, IssuesKept, SlotLaneKept
<1>3. Ordering'
  BY <1>0, OrderingSender, OrderingDispatchReply
<1>4. Round'
  BY <1>0, RoundSender, RoundReadId, RoundDispatchReadEnd, RoundDispatchReply
<1>5. Responses'
  <2>1. CASE SenderFlush \/ DispatchStart \/ DispatchReply
    <3>1. UNCHANGED <<down, cRead>>
      BY <2>1 DEF SenderFlush, DispatchStart, DispatchReply
    <3> QED
      BY <1>0, <1>1, <3>1, ResponsesCalm
  <2> QED
    BY <1>0, <2>1, ResponsesReadId, ResponsesDispatch
<1> QED
  BY <1>2, <1>3, <1>4, <1>5 DEF OrderInv

\* ... by the server ...
LEMMA ServerOrdered ==
  ASSUME OrderInv, IInv', ServerStep
  PROVE  OrderInv'
<1>0. IInv /\ Turns /\ Issues /\ Ordering /\ SlotLane /\ Responses /\ Round
  BY DEF OrderInv
<1>1. UNCHANGED clientVars /\ UNCHANGED issued
  BY DEF ServerStep, ServerReadResponse, ServerReadRequest, ServerJoin, WorkerTake, WorkerReadEnd,
         WorkerExec, WorkerReply, CallbackRequest, CallbackReadStart, CallbackReadEnd
<1>2. UNCHANGED <<pc, cur, callMutex, writeMutex, requestId>>
  BY <1>1 DEF clientVars
<1>3. Turns'
  BY <1>0, <1>2, TurnsKept
<1>4. Issues'
  <2>1. ASSUME NEW t \in Thread, WorkerExec(t) PROVE Issues'
    BY <1>0, <1>2, <2>1, IssuesExec
  <2>2. UNCHANGED done \/ \E t \in Thread : WorkerExec(t)
    BY DEF ServerStep, ServerReadResponse, ServerReadRequest, ServerJoin, WorkerTake, WorkerReadEnd,
           WorkerReply, CallbackRequest, CallbackReadStart, CallbackReadEnd
  <2> QED
    BY <1>0, <1>1, <1>2, <2>1, <2>2, IssuesKept
<1>5. Ordering'
  BY <1>0, OrderingReadResponse, OrderingReadRequest, OrderingServer, OrderingReadEnd, OrderingExec DEF ServerStep
<1>6. SlotLane'
  <2>1. ASSUME NEW c \in Callback, CallbackRequest(c) \/ CallbackReadStart(c) PROVE SlotLane'
    BY <1>0, <2>1, SlotLaneKept DEF CallbackRequest, CallbackReadStart
  <2> QED
    BY <1>0, <2>1, SlotLaneResponse, SlotLaneRequest, SlotLaneJoin, SlotLaneTake, SlotLaneReadEnd,
       SlotLaneRun, SlotLaneCallback DEF ServerStep
<1>7. Responses'
  BY <1>0, ResponsesServer, ResponsesExec, ResponsesReply, ResponsesCallback DEF ServerStep
<1>8. Round'
  BY <1>0, RoundServerRead, RoundWorker, RoundCallbackRequest, RoundCallbackReadStart,
     RoundCallbackReadEnd DEF ServerStep
<1> QED
  BY <1>3, <1>4, <1>5, <1>6, <1>7, <1>8 DEF OrderInv

\* ... by stuttering ...
LEMMA StutterOrdered ==
  ASSUME OrderInv, IInv', UNCHANGED vars
  PROVE  OrderInv'
<1>0. IInv /\ Turns /\ Issues /\ Ordering /\ SlotLane /\ Responses /\ Round
  BY DEF OrderInv
<1>1. /\ UNCHANGED <<pc, cur, callMutex, writeMutex, requestId, issued, done, sRead, lane, joining>>
      /\ UNCHANGED <<up, batch, down, cRead, disp, dispId, cbSt, cbId, sRequestId>>
  BY DEF vars, clientVars, serverVars
<1>2. Turns' /\ Issues' /\ SlotLane'
  BY <1>0, <1>1, TurnsKept, IssuesKept, SlotLaneKept
<1>3. Ordering'
  BY <1>0, <1>1, OrderCalm
<1>4. Responses'
  BY <1>0, <1>1, ResponsesCalm
<1>5. Pipe' = Pipe /\ DownDom' = DownDom
  BY <1>1 DEF Pipe, DownDom
<1>6. Round'
  BY <1>0, <1>1, <1>5, PipeKeepsCbs, RoundCalm
<1> QED
  BY <1>2, <1>3, <1>4, <1>6 DEF OrderInv

\* ... and so by every step.
LEMMA NextOrdered == OrderInv /\ [Next]_vars => OrderInv'
<1> SUFFICES ASSUME OrderInv, [Next]_vars PROVE OrderInv'
  OBVIOUS
<1>1. IInv'
  BY NextInv DEF OrderInv
<1>2. CASE ClientStep
  BY <1>1, <1>2, ClientOrdered, DispatchOrdered DEF ClientStep
<1>3. CASE ServerStep
  BY <1>1, <1>3, ServerOrdered
<1>4. CASE Finished \/ UNCHANGED vars
  BY <1>1, <1>4, StutterOrdered DEF Finished
<1> QED
  BY <1>2, <1>3, <1>4 DEF Next

\* The invariant gives the frame in the server's slot one owner.
LEMMA OrderOwns == OrderInv => OneServerOwner
<1> SUFFICES ASSUME OrderInv PROVE OneServerOwner
  OBVIOUS
<1>0. SlotLane /\ Round /\ sRead.id \in Nat
  BY Types DEF OrderInv
<1>1. CASE sRead = NoFrame
  <2>1. ~Req(sRead) /\ ~Cb(sRead) /\ sRead.id = 0
    BY <1>1 DEF Req, Cb, NoFrame, NoId
  <2>2. \A t \in Thread : ~(lane[t].ready \/ lane[t].st = "body")
    BY <1>0, <2>1 DEF SlotLane, LaneSlot
  <2>3. \A c \in Callback : ~(cbSt[c] # "idle" /\ cbId[c] = sRead.id)
    BY <1>0, <2>1 DEF Round, Callers
  <2>4. ServerOwners = {}
    BY <2>2, <2>3 DEF ServerOwners
  <2> QED
    BY <1>1, <2>4 DEF OneServerOwner
<1>2. CASE sRead # NoFrame
  <2>0. sRead.id # NoId
    BY <1>0, <1>2 DEF SlotLane, HandedOver
  <2>1. CASE Req(sRead)
    <3>1. PICK t \in Thread : t = sRead.lane /\ (lane[t].ready \/ lane[t].st = "body")
      BY <1>0, <2>1 DEF SlotLane, HandedOver
    <3>2. \A u \in Thread : lane[u].ready \/ lane[u].st = "body" => u = t
      BY <1>0, <3>1 DEF SlotLane, LaneSlot
    <3>3. \A c \in Callback : ~(cbSt[c] # "idle" /\ cbId[c] = sRead.id)
      BY <1>0, <2>1 DEF Round, Callers, Req
    <3>4. ServerOwners = {t}
      BY <3>1, <3>2, <3>3 DEF ServerOwners
    <3> QED
      BY <1>2, <3>4 DEF OneServerOwner
  <2>2. CASE Cb(sRead)
    <3>1. PICK c \in Callback : cbSt[c] # "idle" /\ cbId[c] = sRead.id
      BY <1>0, <2>2 DEF Round, SlotCbs, Calling
    <3>2. \A d \in Callback : cbSt[d] # "idle" /\ cbId[d] = sRead.id => d = c
      BY <1>0, <3>1 DEF Round, Callers
    <3>3. \A t \in Thread : ~(lane[t].ready \/ lane[t].st = "body")
      BY <1>0, <2>2 DEF SlotLane, LaneSlot, Req, Cb
    <3>4. ServerOwners = {c}
      BY <3>1, <3>2, <3>3 DEF ServerOwners
    <3> QED
      BY <1>2, <3>4 DEF OneServerOwner
  <2> QED
    BY <1>0, <2>0, <2>1, <2>2 DEF Req, Cb
<1> QED
  BY <1>1, <1>2

\* OneServerOwner: a frame in the server's read slot (rpc.cpp rpc_read_start,
\* server.cpp client_handler) is reserved for one thread, for any number of
\* threads, callbacks and requests.
THEOREM ServerSlotOwned == Spec => []OneServerOwner
BY InitOrdered, NextOrdered, OrderOwns, PTL DEF Spec

\* The invariant gives every response a waiting thread.
LEMMA OrderAnswers == OrderInv => NoOrphanResponse
<1> SUFFICES ASSUME OrderInv, NEW f \in Inbound, f.op = "resp" PROVE Answers(f)
  BY DEF NoOrphanResponse, Answers
<1>0. IInv /\ Responses
  BY DEF OrderInv
<1>1. ASSUME NEW g, g.id \in Nat, g.id # NoId, g.op = "resp", Cb(g) => g.op = "cb" PROVE Req(g)
  BY <1>1 DEF Req, Cb
<1>2. CASE f = cRead
  <2>1. f # NoFrame
    BY DEF NoFrame
  <2> QED
    BY <1>0, <1>1, <1>2, <2>1, Types DEF Responses, InSlotOfClient
<1>3. ASSUME NEW i \in DownDom, f = down[i] PROVE Answers(f)
  BY <1>0, <1>1, <1>3, DownType DEF Responses, Inbounds
<1> QED
  BY <1>2, <1>3 DEF Inbound, DownDom

\* NoOrphanResponse: whatever rpc_write_start_response sends has the thread that
\* issued the request waiting for it in rpc_read_start.
THEOREM ResponsesAwaited == Spec => []NoOrphanResponse
BY InitOrdered, NextOrdered, OrderAnswers, PTL DEF Spec

\* The initial state implements CallOrder's.
LEMMA InitRefines == Init => Order!Init
<1> SUFFICES ASSUME Init PROVE Order!Init
  OBVIOUS
<1>1. Running = [t \in Thread |-> 0] /\ Awaited = [t \in Thread |-> 0]
  BY DEF Init, Running, Awaited, NoLane, NoId
<1> QED
  BY <1>1 DEF Init, Order!Init

\* rpc_write_start_request implements Issue.
LEMMA StartIssues ==
  ASSUME OrderInv, NEW t \in Thread, StartRequest(t)
  PROVE  Order!Next
<1>0. IInv /\ Turns /\ Issues
  BY DEF OrderInv
<1>1. PICK id : id = requestId + 2
  OBVIOUS
<1>2. PICK sync \in BOOLEAN : sync <=> cur[t].op \in Sync
  OBVIOUS
<1>3. /\ pc[t] = "locked" /\ requestId \in Nat /\ requestId + 2 <= MaxRequest /\ MaxRequest \in Nat
  BY <1>0, Types, ConnAssumption DEF StartRequest, Turns
<1>4. /\ \A x \in Thread \ {t} : UNCHANGED <<pc[x], cur[x]>>
      /\ pc'[t] = "building" /\ cur'[t].id = id /\ cur'[t].op = cur[t].op
      /\ issued' = [issued EXCEPT ![t] = @ \cup {id}] /\ UNCHANGED <<lane, done>>
  BY <1>0, <1>1, Types DEF StartRequest, serverVars
<1>5. Awaited[t] = 0 /\ UNCHANGED Running
  BY <1>3, <1>4 DEF Awaited, Running, NoId
<1>6. \A u \in Thread : \A i \in issued[u] : i < id
  BY <1>0, <1>1, <1>3 DEF Issues, IssuesOf
<1>7. Awaited' = [Awaited EXCEPT ![t] = IF sync THEN id ELSE 0]
  <2>1. ASSUME NEW x \in Thread PROVE Awaited'[x] = IF x = t THEN (IF sync THEN id ELSE 0) ELSE Awaited[x]
    BY <1>2, <1>4 DEF Awaited, NoId
  <2> QED
    BY <2>1 DEF Awaited
<1>8. Order!Issue(t, id, sync)
  BY <1>4, <1>5, <1>6, <1>7 DEF Order!Issue
<1>9. id \in 1 .. MaxRequest
  BY <1>1, <1>3
<1> QED
  BY <1>2, <1>8, <1>9 DEF Order!Next

\* rpc_read_end in the handler implements Begin: nothing older is left anywhere.
LEMMA ReadEndBegins ==
  ASSUME OrderInv, NEW t \in Thread, WorkerReadEnd(t)
  PROVE  Order!Next
<1>0. IInv /\ Turns /\ Issues /\ Ordering /\ SlotLane
  BY DEF OrderInv
<1>1. /\ lane[t].st = "body" /\ UNCHANGED <<pc, cur, issued, done>>
      /\ \A x \in Thread \ {t} : lane'[x] = lane[x]
      /\ lane'[t].st = "exec" /\ lane'[t].id = sRead.id
  BY <1>0, Types DEF WorkerReadEnd, Lane, clientVars
<1>2. PICK id : id = sRead.id
  OBVIOUS
<1>3. Req(sRead) /\ sRead.lane = t /\ sRead.op # "term"
  BY <1>0, <1>1 DEF SlotLane, LaneSlot
<1>4. /\ Older(id) /\ id \in issued[t] /\ id \notin done[t]
      /\ \A i \in PipeDom : Req(Pipe[i]) => id < Pipe[i].id
  BY <1>0, <1>2, <1>3 DEF Ordering, SlotOrder, OnItsWay, Outstanding
<1>5. \A i \in issued[t] \ done[t] : id <= i
  <2> SUFFICES ASSUME NEW i \in issued[t] \ done[t] PROVE id <= i
    OBVIOUS
  <2>0. i \in Nat /\ id \in Nat /\ cur[t].id \in Nat
    BY <1>0, <1>2, Types
  <2>1. \/ pc[t] = "building" /\ i = cur[t].id
        \/ \E k \in PipeDom : Req(Pipe[k]) /\ Pipe[k].id = i
        \/ sRead.id = i
    BY <1>0, <1>1 DEF Ordering, Covered, CoveredBy, InPipe, InSlot, Carries
  <2> QED
    BY <1>0, <1>2, <1>4, <2>0, <2>1, PipeIds DEF Older
<1>6. Running[t] = 0 /\ UNCHANGED Awaited
  BY <1>1 DEF Running, Awaited, NoId
<1>7. Running' = [Running EXCEPT ![t] = id]
  <2>1. ASSUME NEW x \in Thread PROVE Running'[x] = IF x = t THEN id ELSE Running[x]
    BY <1>1, <1>2 DEF Running
  <2> QED
    BY <2>1 DEF Running
<1>8. Order!Begin(t, id)
  BY <1>1, <1>4, <1>5, <1>6, <1>7 DEF Order!Begin
<1>9. id \in 1 .. MaxRequest
  BY <1>0, <1>4, Types, ConnAssumption DEF Issues, IssuesOf, Turns
<1> QED
  BY <1>8, <1>9 DEF Order!Next

\* The return of the CUDA call implements End.
LEMMA ExecEnds ==
  ASSUME OrderInv, NEW t \in Thread, WorkerExec(t)
  PROVE  Order!Next
<1>0. IInv /\ SlotLane
  BY DEF OrderInv
<1>1. /\ lane[t].st = "exec" /\ UNCHANGED <<pc, cur, issued>>
      /\ \A x \in Thread \ {t} : lane'[x] = lane[x]
      /\ lane'[t].st # "exec" /\ done' = [done EXCEPT ![t] = @ \cup {lane[t].id}]
  BY <1>0, Types DEF WorkerExec, Lane, clientVars
<1>2. Running[t] = lane[t].id /\ lane[t].id # 0 /\ UNCHANGED Awaited
  BY <1>0, <1>1 DEF Running, Awaited, SlotLane, LaneSlot, Req, NoId
<1>3. Running' = [Running EXCEPT ![t] = 0]
  <2>1. ASSUME NEW x \in Thread PROVE Running'[x] = IF x = t THEN 0 ELSE Running[x]
    BY <1>1 DEF Running, NoId
  <2> QED
    BY <2>1 DEF Running
<1>4. Order!End(t)
  BY <1>1, <1>2, <1>3 DEF Order!End
<1> QED
  BY <1>4 DEF Order!Next

\* rpc_read_end in the client implements Return: everything was executed.
LEMMA ReadEndReturns ==
  ASSUME OrderInv, NEW t \in Thread, ReadEnd(t)
  PROVE  Order!Next
<1>0. IInv /\ Turns /\ Issues /\ Responses
  BY DEF OrderInv
<1>1. /\ pc[t] = "reading" /\ UNCHANGED <<lane, cur, issued, done>>
      /\ \A x \in Thread : pc'[x] = IF x = t THEN "idle" ELSE pc[x]
  BY <1>0, Types DEF ReadEnd, serverVars
<1>2. Req(cRead) /\ cRead.id = cur[t].id /\ cur[t].id # 0 /\ cur[t].op \in Sync
  BY <1>0, <1>1, Types DEF IInv, ClientSlot, Ids, Busy, Req, NoId, Turns
<1>3. PICK u \in Thread : pc[u] \in {"waiting", "reading"} /\ cur[u].id = cRead.id /\ cRead.id \in done[u]
  BY <1>0, <1>2 DEF Responses, InSlotOfClient, Answers
<1>4. u = t
  BY <1>0, <1>1, <1>2, <1>3 DEF IInv, Ids, Busy
<1>5. issued[t] = done[t]
  <2>1. IssuesOf(t) /\ cur[t].id \in done[t] /\ cur[t].id \in Nat /\ issued[t] \subseteq Nat
    BY <1>0, <1>2, <1>3, <1>4, Types DEF Issues
  <2>2. ASSUME NEW i \in issued[t] PROVE i \in done[t]
    <3>1. i <= cur[t].id
      BY <1>1, <2>1 DEF IssuesOf, Busy
    <3>2. CASE i = cur[t].id
      BY <2>1, <3>2
    <3>3. CASE i # cur[t].id
      <4>1. i < cur[t].id
        BY <2>1, <3>1, <3>3
      <4> QED
        BY <2>1, <4>1 DEF IssuesOf
    <3> QED
      BY <3>2, <3>3
  <2> QED
    BY <2>1, <2>2 DEF IssuesOf
<1>6. Awaited[t] # 0 /\ UNCHANGED Running
  BY <1>1, <1>2 DEF Awaited, Running
<1>7. Awaited' = [Awaited EXCEPT ![t] = 0]
  <2>1. ASSUME NEW x \in Thread PROVE Awaited'[x] = IF x = t THEN 0 ELSE Awaited[x]
    BY <1>1 DEF Awaited, NoId
  <2> QED
    BY <2>1 DEF Awaited
<1>8. Order!Return(t)
  BY <1>1, <1>5, <1>6, <1>7 DEF Order!Return
<1> QED
  BY <1>8 DEF Order!Next

\* The client's other steps change nothing CallOrder sees.
LEMMA ClientStutters ==
  ASSUME OrderInv, NEW t \in Thread,
         \/ \E op \in Op : LockCall(t, op)
         \/ WriteEnd(t) \/ WriteEndDeferred(t) \/ ReadStart(t)
         \/ WriteLaneTermination(t) \/ SpawnThread(t)
  PROVE  UNCHANGED <<issued, Running, done, Awaited>>
<1>0. IInv
  BY DEF OrderInv
<1>1. UNCHANGED <<issued, done, lane>>
  BY DEF LockCall, WriteEnd, WriteEndDeferred, ReadStart, WriteLaneTermination, SpawnThread, serverVars
<1>2. UNCHANGED Running
  BY <1>1 DEF Running
<1>3. \A x \in Thread \ {t} : UNCHANGED <<pc[x], cur[x]>>
  BY <1>0, Types DEF LockCall, WriteEnd, WriteEndDeferred, ReadStart, WriteLaneTermination, SpawnThread
<1>4. Awaited'[t] = Awaited[t]
  <2>1. CASE (\E op \in Op : LockCall(t, op)) \/ WriteLaneTermination(t) \/ SpawnThread(t)
    BY <1>0, <2>1, Types DEF LockCall, WriteLaneTermination, SpawnThread, Awaited
  <2>2. CASE WriteEnd(t) \/ ReadStart(t)
    BY <1>0, <2>2, Types DEF WriteEnd, ReadStart, Awaited
  <2>3. CASE WriteEndDeferred(t)
    BY <1>0, <2>3, Types DEF WriteEndDeferred, Awaited, Batched, Framed, Sync
  <2> QED
    BY <2>1, <2>2, <2>3
<1>5. UNCHANGED Awaited
  BY <1>3, <1>4 DEF Awaited
<1> QED
  BY <1>1, <1>2, <1>5

\* Nor do the server's.
LEMMA ServerStutters ==
  ASSUME OrderInv,
         \/ ServerReadResponse \/ ServerReadRequest \/ ServerJoin
         \/ \E t \in Thread : WorkerTake(t) \/ WorkerReply(t)
         \/ \E c \in Callback : CallbackRequest(c) \/ CallbackReadStart(c) \/ CallbackReadEnd(c)
  PROVE  UNCHANGED <<issued, Running, done, Awaited>>
<1>0. IInv /\ Ordering
  BY DEF OrderInv
<1>1. UNCHANGED <<issued, done, pc, cur>>
  BY DEF ServerReadResponse, ServerReadRequest, ServerJoin, WorkerTake, WorkerReply,
         CallbackRequest, CallbackReadStart, CallbackReadEnd, clientVars
<1>2. UNCHANGED Awaited
  BY <1>1 DEF Awaited
<1>3. \A x \in Thread : Running'[x] = Running[x]
  <2>1. CASE ServerReadRequest
    BY <1>0, <2>1, ReadRequestEffect DEF Running
  <2>2. CASE ServerJoin
    <3>1. /\ lane[joining].st = "exited"
          /\ \A x \in Thread : lane'[x] = IF x = joining THEN NoLane ELSE lane[x]
      BY <1>0, <2>2, Types DEF ServerJoin
    <3> QED
      BY <3>1 DEF NoLane, Running
  <2>3. ASSUME NEW t \in Thread, WorkerTake(t), NEW x \in Thread PROVE Running'[x] = Running[x]
    <3>1. lane[t].st = "wait" /\ lane'[t].st # "exec" /\ \A y \in Thread \ {t} : lane'[y] = lane[y]
      BY <1>0, <2>3, TakeEffect DEF WorkerTake
    <3> QED
      BY <3>1 DEF Running
  <2>4. ASSUME NEW t \in Thread, WorkerReply(t), NEW x \in Thread PROVE Running'[x] = Running[x]
    <3>1. lane[t].st = "reply" /\ lane'[t].st = "wait" /\ \A y \in Thread \ {t} : lane'[y] = lane[y]
      BY <1>0, <2>4, Types DEF WorkerReply, Lane
    <3> QED
      BY <3>1 DEF Running
  <2>5. CASE UNCHANGED lane
    BY <2>5 DEF Running
  <2> QED
    BY <2>1, <2>2, <2>3, <2>4, <2>5
       DEF ServerReadResponse, CallbackRequest, CallbackReadStart, CallbackReadEnd
<1>4. UNCHANGED Running
  BY <1>3 DEF Running
<1> QED
  BY <1>1, <1>2, <1>4

\* Every step implements a step of CallOrder, or none.
LEMMA StepRefines == OrderInv /\ [Next]_vars => [Order!Next]_(Order!vars)
<1> SUFFICES ASSUME OrderInv, [Next]_vars PROVE Order!Next \/ UNCHANGED <<issued, Running, done, Awaited>>
  BY DEF Order!vars
<1>1. CASE ClientStep
  <2>1. CASE SenderFlush \/ ClientReadId \/ DispatchStart \/ DispatchReadEnd \/ DispatchReply
    <3>1. UNCHANGED <<issued, done, lane, pc, cur>>
      BY <2>1 DEF SenderFlush, ClientReadId, DispatchStart, DispatchReadEnd, DispatchReply, serverVars
    <3> QED
      BY <3>1 DEF Running, Awaited
  <2> QED
    BY <1>1, <2>1, StartIssues, ReadEndReturns, ClientStutters DEF ClientStep
<1>2. CASE ServerStep
  BY <1>2, ReadEndBegins, ExecEnds, ServerStutters DEF ServerStep
<1>3. CASE Finished \/ UNCHANGED vars
  <2>1. UNCHANGED <<issued, done, lane, pc, cur>>
    BY <1>3 DEF Finished, vars, clientVars, serverVars
  <2> QED
    BY <2>1 DEF Running, Awaited
<1> QED
  BY <1>1, <1>2, <1>3 DEF Next

\* The connection implements CallOrder: batching, framing, lanes and single read
\* slots execute each thread's calls once and in order, and a synchronous call
\* returns only when nothing it could depend on is left.
THEOREM ConnectionRefines == Spec => ImplementsCallOrder
BY InitRefines, StepRefines, InitOrdered, NextOrdered, PTL DEF Spec, ImplementsCallOrder, Order!Spec

----------------------------------------------------------------------------
(* The two ends never wait for each other in a circle.  OrderInv says that  *)
(* what is under way is where it belongs; here is said that nothing a      *)
(* thread waits for has disappeared: who holds a mutex is in the middle of *)
(* a request (Held); a thread that makes a call has nothing younger on its *)
(* lane (Past), so that a lane is never behind its own fence; a join has   *)
(* its termination in the slot (Joins); every callback that waits goes     *)
(* round (Underway) and every answer that was produced is on its way back  *)
(* (Coming).                                                               *)

Held ==
  /\ writeMutex # Free => pc[writeMutex] = "building"
  /\ callMutex # Free => pc[callMutex] \in {"locked", "building"}

\* The frame f, if it is of lane t and nobody waits for its answer, is older than x.
Before(f, t, x) == Req(f) /\ f.lane = t /\ f.op \notin Sync => f.id < x
PastOf(t) ==
  pc[t] \in Busy =>
    /\ \A i \in PipeDom : Before(Pipe[i], t, cur[t].id)
    /\ Before(sRead, t, cur[t].id)
    /\ lane[t].st = "exec" /\ lane[t].run \notin Sync => lane[t].id < cur[t].id
Past == \A t \in Thread : PastOf(t)

Joins ==
  joining # Free /\ lane[joining].st # "exited" =>
    Req(sRead) /\ sRead.lane = joining /\ sRead.op = "term"

\* The ids of callbacks begin with 3.
Late == sRequestId >= 1 /\ \A c \in Callback : cbSt[c] # "idle" => cbId[c] >= 3

\* The callback x is on its way to the client, there, or on its way back.
GoesRound(x) ==
  \/ \E k \in DownDom : down[k].id = x
  \/ cRead.id = x
  \/ disp = "running" /\ dispId = x
  \/ \E i \in PipeDom : Pipe[i].id = x
  \/ sRead.id = x
Underway == \A c \in Callback : cbSt[c] = "waiting" => GoesRound(cbId[c])

ComingTo(t) ==
  pc[t] = "waiting" =>
    /\ cur[t].id \in issued[t]
    /\ cur[t].id \in done[t] =>
         \/ lane[t].st = "reply" /\ lane[t].id = cur[t].id
         \/ \E k \in DownDom : down[k].id = cur[t].id
         \/ cRead.id = cur[t].id
Coming == \A t \in Thread : ComingTo(t)

Nothing == Held /\ Past /\ Joins /\ Late /\ Underway /\ Coming
StuckInv == OrderInv /\ Nothing

\* A lane does not have its next request behind the fence that it executes.
LEMMA FenceAlone ==
  ASSUME OrderInv, Past, NEW t \in Thread, lane[t].st = "exec", lane[t].run = "fence"
  PROVE  ~lane[t].ready
<1> SUFFICES ASSUME lane[t].ready PROVE FALSE
  OBVIOUS
<1>0. /\ lane[t].id \in Nat /\ cur[t].id \in Nat /\ sRead.id \in Nat
      /\ issued[t] \subseteq Nat
  BY Types DEF OrderInv
<1>1. Req(sRead) /\ sRead.lane = t /\ sRead.op \in Op \cup {"term"}
  BY DEF OrderInv, SlotLane, LaneSlot, HandedOver
<1>2. AwaitedBy(t, lane[t].id) /\ lane[t].id < sRead.id
  BY <1>1 DEF OrderInv, Ordering, LaneOrder, Sync
<1>3. pc[t] \in Busy /\ cur[t].id = lane[t].id
  BY <1>2 DEF AwaitedBy, Busy
<1>4. CASE sRead.op = "term"
  <2>1. sRead.id < cur[t].id
    BY <1>1, <1>3, <1>4 DEF Past, PastOf, Before, Sync
  <2> QED
    BY <1>0, <1>2, <1>3, <2>1
<1>5. CASE sRead.op # "term"
  <2>1. sRead.id \in issued[t]
    BY <1>1, <1>5 DEF OrderInv, Ordering, SlotOrder, OnItsWay, Outstanding
  <2>2. sRead.id <= cur[t].id
    BY <1>3, <2>1 DEF OrderInv, Issues, IssuesOf
  <2> QED
    BY <1>0, <1>2, <1>3, <2>2
<1> QED
  BY <1>4, <1>5

\* If no thread of the client can go on, its slot is empty, and so is the stream into it.
LEMMA ClientAtRest ==
  ASSUME StuckInv, ~ClientCanMove, \A t \in Thread : ~ThreadCanMove(t)
  PROVE  /\ writeMutex = Free /\ callMutex = Free /\ batch = <<>> /\ disp = "idle"
         /\ cRead = NoFrame /\ down = <<>>
         /\ \A t \in Thread : pc[t] \in {"idle", "gone", "waiting"}
<1>0. /\ pc \in [Thread -> {"idle", "locked", "building", "waiting", "reading", "gone"}]
      /\ writeMutex \in Thread \cup {Free} /\ callMutex \in Thread \cup {Free}
      /\ disp \in {"idle", "reading", "running"} /\ cRead.id \in Nat
  BY Types DEF StuckInv, OrderInv, IInv, TypeOK
<1>1. \A t \in Thread : pc[t] \notin {"building", "reading"}
  BY DEF ThreadCanMove
<1>2. writeMutex = Free
  BY <1>0, <1>1 DEF StuckInv, Nothing, Held
<1>3. \A t \in Thread : pc[t] \in {"idle", "gone", "waiting"}
  BY <1>0, <1>1, <1>2 DEF ThreadCanMove
<1>4. callMutex = Free
  BY <1>0, <1>3 DEF StuckInv, Nothing, Held
<1>5. batch = <<>> /\ disp = "idle"
  BY <1>0, <1>2 DEF ClientCanMove
<1>6. cRead = NoFrame
  <2> SUFFICES ASSUME cRead # NoFrame PROVE FALSE
    OBVIOUS
  <2>1. cRead.id # NoId /\ (Req(cRead) => Answers(cRead))
    BY DEF StuckInv, OrderInv, Responses, InSlotOfClient
  <2>2. CASE Req(cRead)
    BY <1>3, <2>1, <2>2 DEF Answers, ThreadCanMove
  <2>3. CASE Cb(cRead)
    <3>1. PICK c \in Callback : cbSt[c] # "idle" /\ cbId[c] = cRead.id
      BY <2>3 DEF StuckInv, OrderInv, Round, ClientCbs, Calling
    <3>2. cRead.id >= 3 /\ cRead.id % 2 = 1
      BY <2>3, <3>1 DEF StuckInv, Nothing, Late, Cb
    <3> QED
      BY <1>0, <1>5, <3>2 DEF ClientCanMove
  <2> QED
    BY <1>0, <2>1, <2>2, <2>3 DEF Req, Cb
<1>7. down = <<>>
  BY <1>6 DEF ClientCanMove
<1> QED
  BY <1>2, <1>3, <1>4, <1>5, <1>6, <1>7

\* If no thread of the server can go on either, its slot is empty, it joins nobody and it
\* has read everything.
LEMMA ServerAtRest ==
  ASSUME StuckInv, ~ReaderCanMove, \A t \in Thread : ~WorkerCanMove(t),
         \A c \in Callback : ~CallbackCanMove(c)
  PROVE  sRead = NoFrame /\ joining = Free /\ up = <<>>
<1>0. /\ lane \in [Thread -> Lane] /\ sRead.id \in Nat
      /\ cbSt \in [Callback -> {"idle", "waiting", "reading"}]
      /\ joining \in Thread \cup {Free}
  BY Types DEF StuckInv, OrderInv, IInv, TypeOK
<1>1. sRead = NoFrame
  <2> SUFFICES ASSUME sRead # NoFrame PROVE FALSE
    OBVIOUS
  <2>1. sRead.id # NoId
    BY DEF StuckInv, OrderInv, SlotLane, HandedOver
  <2>2. CASE Req(sRead)
    <3>1. PICK t \in Thread : t = sRead.lane /\ (lane[t].ready \/ lane[t].st = "body")
      BY <2>2 DEF StuckInv, OrderInv, SlotLane, HandedOver
    <3>2. lane[t].ready
      BY <3>1 DEF WorkerCanMove
    <3>3. lane[t].st \in {"none", "wait", "body", "exec", "reply", "exited"}
      BY <1>0 DEF Lane
    <3>4. lane[t].st \notin {"none", "body", "exited"}
      BY <3>2 DEF StuckInv, OrderInv, SlotLane, LaneSlot
    <3>5. lane[t].st = "exec" /\ lane[t].run = "fence"
      BY <3>2, <3>3, <3>4 DEF WorkerCanMove
    <3> QED
      BY <3>2, <3>5, FenceAlone DEF StuckInv, Nothing
  <2>3. CASE Cb(sRead)
    <3>1. PICK c \in Callback : cbSt[c] # "idle" /\ cbId[c] = sRead.id
      BY <2>3 DEF StuckInv, OrderInv, Round, SlotCbs, Calling
    <3> QED
      BY <1>0, <3>1 DEF CallbackCanMove
  <2> QED
    BY <1>0, <2>1, <2>2, <2>3 DEF Req, Cb
<1>2. joining = Free
  <2>1. ~Req(sRead)
    BY <1>1 DEF Req, NoFrame, NoId
  <2> QED
    BY <2>1 DEF StuckInv, Nothing, Joins, ReaderCanMove
<1> QED
  BY <1>1, <1>2 DEF ReaderCanMove

\* With both ends at rest nothing is left of a callback or of a request.
LEMMA RestOrMoves == StuckInv => StopsOnlyWhenDone
<1> SUFFICES ASSUME StuckInv, ~CanMove
             PROVE  AtRest
  BY DEF StopsOnlyWhenDone
<1>0. /\ ~ClientCanMove /\ ~ReaderCanMove
      /\ \A t \in Thread : ~ThreadCanMove(t) /\ ~WorkerCanMove(t)
      /\ \A c \in Callback : ~CallbackCanMove(c)
  BY DEF CanMove
<1>1. /\ writeMutex = Free /\ callMutex = Free /\ batch = <<>> /\ disp = "idle"
      /\ cRead = NoFrame /\ down = <<>>
      /\ \A t \in Thread : pc[t] \in {"idle", "gone", "waiting"}
  BY <1>0, ClientAtRest
<1>2. sRead = NoFrame /\ joining = Free /\ up = <<>>
  BY <1>0, ServerAtRest
<1>3. /\ lane \in [Thread -> Lane] /\ pend \in Nat
      /\ cbSt \in [Callback -> {"idle", "waiting", "reading"}]
      /\ \A t \in Thread : cur[t].id \in Nat /\ issued[t] \subseteq Nat
  BY Types DEF StuckInv, OrderInv, IInv, TypeOK
<1>4. DownDom = {} /\ PipeDom = {} /\ cRead.id = 0 /\ sRead.id = 0 /\ ~Req(sRead)
  BY <1>1, <1>2 DEF DownDom, PipeDom, Pipe, NoFrame, NoId, Req
<1>5. Quiet
  <2>1. \A c \in Callback : cbSt[c] # "waiting"
    <3> SUFFICES ASSUME NEW c \in Callback, cbSt[c] = "waiting" PROVE FALSE
      OBVIOUS
    <3>1. GoesRound(cbId[c]) /\ cbId[c] >= 3
      BY DEF StuckInv, Nothing, Underway, Late
    <3> QED
      BY <1>1, <1>4, <3>1 DEF GoesRound
  <2>2. \A c \in Callback : cbSt[c] = "idle"
    BY <1>0, <1>3, <2>1 DEF CallbackCanMove
  <2>3. pend = 0
    BY <1>0, <1>3, <2>2, ConnAssumption DEF CallbackCanMove
  <2> QED
    BY <2>2, <2>3 DEF Quiet
<1>6. ASSUME NEW t \in Thread
      PROVE  lane[t].st \in {"none", "wait"} /\ ~lane[t].ready
  <2>1. ~lane[t].ready /\ lane[t].st # "exited"
    BY <1>2, <1>4, ConnAssumption DEF StuckInv, OrderInv, SlotLane, LaneSlot, Free
  <2>2. lane[t].st \notin {"body", "reply", "exec"}
    BY <1>0, <1>5 DEF WorkerCanMove
  <2> QED
    BY <1>3, <2>1, <2>2 DEF Lane
<1>7. ASSUME NEW t \in Thread
      PROVE  issued[t] = done[t]
  <2>1. \A id \in issued[t] \ done[t] : CoveredBy(t, id)
    BY DEF StuckInv, OrderInv, Ordering, Covered
  <2>2. \A id : ~CoveredBy(t, id)
    BY <1>1, <1>4, <1>6 DEF CoveredBy, InPipe, InSlot, Carries
  <2>3. done[t] \subseteq issued[t]
    BY DEF StuckInv, OrderInv, Issues, IssuesOf
  <2> QED
    BY <2>1, <2>2, <2>3
<1>8. ASSUME NEW t \in Thread, pc[t] = "waiting"
      PROVE  FALSE
  <2>1. cur[t].id \in done[t] /\ cur[t].id # 0
    BY <1>7, <1>8, <1>3 DEF StuckInv, Nothing, Coming, ComingTo, OrderInv, IInv, Ids, Busy
  <2> QED
    BY <1>4, <1>6, <1>8, <2>1 DEF StuckInv, Nothing, Coming, ComingTo
<1> QED
  BY <1>1, <1>2, <1>5, <1>6, <1>7, <1>8 DEF AtRest

----------------------------------------------------------------------------
(* Nothing is kept by each step.                                           *)

\* The mutexes: a thread holds them while it builds a request.
LEMMA HeldClient ==
  ASSUME OrderInv, Held, NEW t \in Thread,
         \/ \E op \in Op : LockCall(t, op)
         \/ StartRequest(t) \/ WriteEnd(t) \/ WriteEndDeferred(t)
         \/ ReadStart(t) \/ ReadEnd(t)
         \/ WriteLaneTermination(t) \/ SpawnThread(t)
  PROVE  Held'
<1>0. /\ pc \in [Thread -> {"idle", "locked", "building", "waiting", "reading", "gone"}]
      /\ writeMutex \in Thread \cup {Free} /\ callMutex \in Thread \cup {Free}
      /\ t # Free
  BY Types, ConnAssumption DEF OrderInv, IInv, TypeOK, Free
<1>1. CASE \E op \in Op : LockCall(t, op)
  BY <1>0, <1>1 DEF LockCall, Held
<1>2. CASE StartRequest(t)
  <2>1. callMutex = t
    BY <1>2 DEF StartRequest, OrderInv, Turns
  <2> QED
    BY <1>0, <1>2, <2>1 DEF StartRequest, Held
<1>3. CASE WriteEnd(t) \/ WriteEndDeferred(t)
  BY <1>3 DEF WriteEnd, WriteEndDeferred, Held
<1>4. CASE ReadStart(t) \/ ReadEnd(t) \/ WriteLaneTermination(t) \/ SpawnThread(t)
  BY <1>0, <1>4 DEF ReadStart, ReadEnd, WriteLaneTermination, SpawnThread, Held
<1> QED
  BY <1>1, <1>2, <1>3, <1>4

\* Requests move on from the pipe to the slot and from there to the worker; a new one is
\* nobody's past.
LEMMA PastMoved ==
  ASSUME Past,
         \A u \in Thread : pc'[u] \in Busy => pc[u] \in Busy /\ cur'[u].id = cur[u].id,
         \A i \in PipeDom' : \/ \E j \in PipeDom : Pipe'[i] = Pipe[j]
                             \/ \A u \in Thread : pc'[u] \in Busy => Before(Pipe'[i], u, cur[u].id),
         sRead' = sRead \/ ~Req(sRead') \/ (\E j \in PipeDom : sRead' = Pipe[j]),
         \A u \in Thread : lane'[u].st = "exec" =>
           /\ lane'[u].run = lane[u].run
           /\ \/ lane[u].st = "exec" /\ lane'[u].id = lane[u].id
              \/ /\ lane'[u].id = sRead.id /\ Req(sRead) /\ sRead.lane = u
                 /\ lane[u].run = sRead.op
  PROVE  Past'
<1> SUFFICES ASSUME NEW u \in Thread, pc'[u] \in Busy
             PROVE  /\ \A i \in PipeDom' : Before(Pipe'[i], u, cur[u].id)
                    /\ Before(sRead', u, cur[u].id)
                    /\ lane'[u].st = "exec" /\ lane'[u].run \notin Sync => lane'[u].id < cur[u].id
  BY DEF Past, PastOf, Before, Req, Busy
<1>1. /\ \A i \in PipeDom : Before(Pipe[i], u, cur[u].id)
      /\ Before(sRead, u, cur[u].id)
      /\ lane[u].st = "exec" /\ lane[u].run \notin Sync => lane[u].id < cur[u].id
  BY DEF Past, PastOf
<1>2. \A i \in PipeDom' : Before(Pipe'[i], u, cur[u].id)
  BY <1>1
<1>3. Before(sRead', u, cur[u].id)
  BY <1>1 DEF Before
<1>4. lane'[u].st = "exec" /\ lane'[u].run \notin Sync => lane'[u].id < cur[u].id
  BY <1>1 DEF Before
<1> QED
  BY <1>2, <1>3, <1>4

\* ... the client's threads: when a thread starts a call, all that is under way is older.
LEMMA PastClient ==
  ASSUME OrderInv, Past, NEW t \in Thread,
         \/ \E op \in Op : LockCall(t, op)
         \/ StartRequest(t) \/ WriteEnd(t) \/ WriteEndDeferred(t)
         \/ ReadStart(t) \/ ReadEnd(t)
         \/ WriteLaneTermination(t) \/ SpawnThread(t)
  PROVE  Past'
<1>0. /\ IInv /\ Wire /\ requestId \in Nat
      /\ pc \in [Thread -> {"idle", "locked", "building", "waiting", "reading", "gone"}]
      /\ cur \in [Thread -> [id : Nat, op : Op \cup {"none"}]]
      /\ UNCHANGED <<sRead, lane>>
  BY Types DEF OrderInv, IInv, LockCall, StartRequest, WriteEnd, WriteEndDeferred, ReadStart, ReadEnd,
               WriteLaneTermination, SpawnThread, serverVars
<1>1. CASE \/ \E op \in Op : LockCall(t, op)
           \/ ReadStart(t) \/ ReadEnd(t) \/ SpawnThread(t)
  <2>1. Pipe' = Pipe
    BY <1>1 DEF LockCall, ReadStart, ReadEnd, SpawnThread, Pipe
  <2>2. \A u \in Thread : pc'[u] \in Busy => pc[u] \in Busy /\ cur'[u].id = cur[u].id
    BY <1>0, <1>1 DEF LockCall, ReadStart, ReadEnd, SpawnThread, Busy
  <2>3. PipeDom' = PipeDom
    BY <2>1 DEF PipeDom
  <2> QED
    BY <1>0, <2>1, <2>2, <2>3, PastMoved
<1>2. CASE StartRequest(t)
  <2>1. Pipe' = Pipe /\ PipeDom' = PipeDom
    BY <1>2 DEF StartRequest, Pipe, PipeDom
  <2>2. /\ \A u \in Thread \ {t} : pc'[u] = pc[u] /\ cur'[u] = cur[u]
        /\ cur'[t].id = requestId + 2
    BY <1>0, <1>2 DEF StartRequest
  <2>3. ASSUME NEW f, Req(f), f.id \in Nat, OnItsWay(f) PROVE f.id < requestId + 2
    BY <1>0, <2>3 DEF OnItsWay, Older
  <2>4. /\ \A i \in PipeDom : Before(Pipe[i], t, requestId + 2)
        /\ Before(sRead, t, requestId + 2)
    BY <1>0, <2>3, PipeIds, Types DEF OrderInv, Ordering, PipeOrder, SlotOrder, Before
  <2>5. lane[t].st = "exec" => lane[t].id < requestId + 2
    BY <1>0, Types DEF OrderInv, Ordering, LaneOrder, Older
  <2>6. PastOf(t)'
    BY <1>0, <2>1, <2>2, <2>4, <2>5 DEF PastOf, Before, Req
  <2>7. ASSUME NEW u \in Thread \ {t} PROVE PastOf(u)'
    BY <1>0, <2>1, <2>2 DEF Past, PastOf, Before, Req
  <2> QED
    BY <2>6, <2>7 DEF Past
<1>3. CASE WriteEnd(t) \/ WriteEndDeferred(t) \/ WriteLaneTermination(t)
  <2>1. PICK f \in UpFrame : Grown(f) /\ f.lane = t /\ (f.op \in Sync \/ pc'[t] \notin Busy)
    <3>1. CASE WriteEnd(t) \/ WriteEndDeferred(t)
      <4>1. pc[t] = "building" /\ cur[t].op \in Op
        BY <3>1 DEF WriteEnd, WriteEndDeferred, Op
      <4>2. RequestFrame(t) \in UpFrame /\ RequestFrame(t).lane = t /\ RequestFrame(t).op = cur[t].op
        BY <1>0, <4>1, RequestIsUp DEF RequestFrame
      <4>3. Grown(RequestFrame(t))
        BY <1>0, <3>1, <4>2, PipeWritten, PipeBatched DEF WriteEnd, WriteEndDeferred
      <4>4. cur[t].op \in Sync \/ pc'[t] \notin Busy
        BY <1>0, <3>1 DEF WriteEnd, WriteEndDeferred, Busy
      <4> QED
        BY <4>2, <4>3, <4>4
    <3>2. CASE WriteLaneTermination(t)
      <4>1. PICK f : f = [id |-> requestId + 2, lane |-> t, op |-> "term"]
        OBVIOUS
      <4>2. f \in UpFrame /\ f.lane = t
        BY <1>0, <4>1 DEF UpFrame, Frame, Id, IInv, Ids
      <4>3. Grown(f)
        BY <1>0, <3>2, <4>1, <4>2, PipeWritten DEF WriteLaneTermination
      <4>4. pc'[t] \notin Busy
        BY <1>0, <3>2 DEF WriteLaneTermination, Busy
      <4> QED
        BY <4>2, <4>3, <4>4
    <3> QED
      BY <1>3, <3>1, <3>2
  <2>2. \A u \in Thread : pc'[u] \in Busy => pc[u] \in Busy /\ cur'[u].id = cur[u].id
    BY <1>0, <1>3 DEF WriteEnd, WriteEndDeferred, WriteLaneTermination, Busy
  <2>3. \A u \in Thread : pc'[u] \in Busy => Before(f, u, cur[u].id)
    BY <2>1 DEF Before
  <2>4. \A i \in PipeDom' : \/ \E j \in PipeDom : Pipe'[i] = Pipe[j]
                            \/ \A u \in Thread : pc'[u] \in Busy => Before(Pipe'[i], u, cur[u].id)
    BY <2>1, <2>3 DEF Grown
  <2> QED
    BY <1>0, <2>2, <2>4, PastMoved
<1> QED
  BY <1>1, <1>2, <1>3

\* A response arrives by way of the worker, the stream and the slot.
LEMMA ComingMoved ==
  ASSUME Coming, UNCHANGED issued,
         \A u \in Thread : pc'[u] = "waiting" => /\ pc[u] = "waiting" /\ cur'[u] = cur[u]
                                                 /\ cur[u].id \in done'[u] => cur[u].id \in done[u],
         \A u \in Thread : pc[u] = "waiting" /\ lane[u].st = "reply" /\ lane[u].id = cur[u].id =>
           \/ lane'[u].st = "reply" /\ lane'[u].id = lane[u].id
           \/ \E k \in DownDom' : down'[k].id = lane[u].id,
         \A k \in DownDom : (\E j \in DownDom' : down'[j].id = down[k].id) \/ cRead'.id = down[k].id,
         \A u \in Thread : pc'[u] = "waiting" /\ cRead.id = cur[u].id => cRead'.id = cur[u].id
  PROVE  Coming'
<1> SUFFICES ASSUME NEW u \in Thread, pc'[u] = "waiting"
             PROVE  /\ cur[u].id \in issued[u]
                    /\ cur[u].id \in done[u] =>
                         \/ lane'[u].st = "reply" /\ lane'[u].id = cur[u].id
                         \/ \E k \in DownDom' : down'[k].id = cur[u].id
                         \/ cRead'.id = cur[u].id
  BY DEF Coming, ComingTo
<1>1. /\ cur[u].id \in issued[u]
      /\ cur[u].id \in done[u] =>
           \/ lane[u].st = "reply" /\ lane[u].id = cur[u].id
           \/ \E k \in DownDom : down[k].id = cur[u].id
           \/ cRead.id = cur[u].id
  BY DEF Coming, ComingTo
<1> QED
  BY <1>1

\* ... the client's threads: a call that has been written is issued and not yet made.
LEMMA ComingClient ==
  ASSUME OrderInv, Coming, NEW t \in Thread,
         \/ \E op \in Op : LockCall(t, op)
         \/ StartRequest(t) \/ WriteEnd(t) \/ WriteEndDeferred(t)
         \/ ReadStart(t) \/ ReadEnd(t)
         \/ WriteLaneTermination(t) \/ SpawnThread(t)
  PROVE  Coming'
<1>0. /\ pc \in [Thread -> {"idle", "locked", "building", "waiting", "reading", "gone"}]
      /\ cur \in [Thread -> [id : Nat, op : Op \cup {"none"}]]
      /\ issued \in [Thread -> SUBSET Nat]
      /\ UNCHANGED <<lane, down, done>> /\ DownDom' = DownDom
  BY Types DEF OrderInv, LockCall, StartRequest, WriteEnd, WriteEndDeferred, ReadStart, ReadEnd,
               WriteLaneTermination, SpawnThread, serverVars, DownDom
<1>1. ASSUME NEW u \in Thread \ {t} PROVE ComingTo(u)'
  <2>1. pc'[u] = pc[u] /\ cur'[u] = cur[u] /\ issued'[u] = issued[u]
    BY <1>0 DEF LockCall, StartRequest, WriteEnd, WriteEndDeferred, ReadStart, ReadEnd,
                WriteLaneTermination, SpawnThread
  <2>2. pc[u] = "waiting" /\ cRead.id = cur[u].id => cRead'.id = cur[u].id
    <3>1. CASE ReadEnd(t)
      <4>1. pc[t] = "reading" /\ cRead.id = cur[t].id
        BY <3>1 DEF ReadEnd, OrderInv, IInv, ClientSlot
      <4>2. pc[u] = "waiting" => cur[u].id # cur[t].id
        BY <4>1 DEF OrderInv, IInv, Ids, Busy
      <4> QED
        BY <4>1, <4>2
    <3>2. CASE ~ReadEnd(t)
      BY <3>2 DEF LockCall, StartRequest, WriteEnd, WriteEndDeferred, ReadStart,
                  WriteLaneTermination, SpawnThread
    <3> QED
      BY <3>1, <3>2
  <2> QED
    BY <1>0, <2>1, <2>2 DEF Coming, ComingTo
<1>2. ComingTo(t)'
  <2>1. CASE WriteEnd(t)
    <3>1. cur[t].id \in issued[t] /\ cur[t].id \notin done[t]
      BY <2>1 DEF WriteEnd, OrderInv, Issues, IssuesOf
    <3> QED
      BY <1>0, <2>1, <3>1 DEF WriteEnd, ComingTo
  <2>2. CASE ~WriteEnd(t)
    <3>1. pc'[t] # "waiting"
      BY <1>0, <2>2 DEF LockCall, StartRequest, WriteEndDeferred, ReadStart, ReadEnd,
                        WriteLaneTermination, SpawnThread
    <3> QED
      BY <3>1 DEF ComingTo
  <2> QED
    BY <2>1, <2>2
<1> QED
  BY <1>1, <1>2 DEF Coming

\* A callback goes round from place to place.
LEMMA UnderwayMoved ==
  ASSUME OrderInv, Underway,
         \A c \in Callback : cbSt'[c] = "waiting" =>
           (cbSt[c] = "waiting" /\ cbId'[c] = cbId[c]) \/ GoesRound(cbId[c])',
         \A k \in DownDom : (\E j \in DownDom' : down'[j].id = down[k].id) \/ cRead'.id = down[k].id,
         Cb(cRead) => cRead'.id = cRead.id \/ (disp' = "running" /\ dispId' = cRead.id),
         disp = "running" => \/ disp' = "running" /\ dispId' = dispId
                             \/ \E i \in PipeDom' : Pipe'[i].id = dispId,
         \A i \in PipeDom : Cb(Pipe[i]) => \/ \E j \in PipeDom' : Pipe'[j].id = Pipe[i].id
                                           \/ sRead'.id = Pipe[i].id,
         \A c \in Callback : cbSt'[c] = "waiting" /\ Cb(sRead) /\ sRead.id = cbId[c] => sRead'.id = cbId[c]
  PROVE  Underway'
<1> SUFFICES ASSUME NEW c \in Callback, cbSt'[c] = "waiting", cbSt[c] = "waiting", cbId'[c] = cbId[c]
             PROVE  \/ \E k \in DownDom' : down'[k].id = cbId[c]
                    \/ cRead'.id = cbId[c]
                    \/ disp' = "running" /\ dispId' = cbId[c]
                    \/ \E i \in PipeDom' : Pipe'[i].id = cbId[c]
                    \/ sRead'.id = cbId[c]
  BY DEF Underway, GoesRound
<1>1. cbId[c] % 2 = 1
  BY DEF OrderInv, Round, Callers
<1>2. GoesRound(cbId[c])
  BY DEF Underway
<1>3. CASE \E k \in DownDom : down[k].id = cbId[c]
  BY <1>3
<1>4. CASE cRead.id = cbId[c]
  BY <1>1, <1>4 DEF Cb
<1>5. CASE disp = "running" /\ dispId = cbId[c]
  BY <1>5
<1>6. CASE \E i \in PipeDom : Pipe[i].id = cbId[c]
  BY <1>1, <1>6 DEF Cb
<1>7. CASE sRead.id = cbId[c]
  BY <1>1, <1>7 DEF Cb
<1> QED
  BY <1>2, <1>3, <1>4, <1>5, <1>6, <1>7 DEF GoesRound

\* The client's threads do not get in a callback's way: what they take from the slot is
\* their own response.
LEMMA UnderwayClient ==
  ASSUME OrderInv, Underway, NEW t \in Thread,
         \/ \E op \in Op : LockCall(t, op)
         \/ StartRequest(t) \/ WriteEnd(t) \/ WriteEndDeferred(t)
         \/ ReadStart(t) \/ ReadEnd(t)
         \/ WriteLaneTermination(t) \/ SpawnThread(t)
  PROVE  Underway'
<1>0. /\ IInv /\ Wire /\ requestId \in Nat
      /\ UNCHANGED <<sRead, cbSt, cbId, down, disp, dispId>> /\ DownDom' = DownDom
  BY Types DEF OrderInv, IInv, LockCall, StartRequest, WriteEnd, WriteEndDeferred, ReadStart, ReadEnd,
               WriteLaneTermination, SpawnThread, serverVars, DownDom
<1>1. Cb(cRead) => cRead'.id = cRead.id
  <2>1. CASE ReadEnd(t)
    BY <2>1 DEF ReadEnd, OrderInv, IInv, ClientSlot, Ids, Cb
  <2>2. CASE ~ReadEnd(t)
    BY <2>2 DEF LockCall, StartRequest, WriteEnd, WriteEndDeferred, ReadStart,
                WriteLaneTermination, SpawnThread
  <2> QED
    BY <2>1, <2>2
<1>2. \A i \in PipeDom : \E j \in PipeDom' : Pipe'[j].id = Pipe[i].id
  <2>1. CASE \/ \E op \in Op : LockCall(t, op)
             \/ StartRequest(t) \/ ReadStart(t) \/ ReadEnd(t) \/ SpawnThread(t)
    <3>1. Pipe' = Pipe /\ PipeDom' = PipeDom
      BY <2>1 DEF LockCall, StartRequest, ReadStart, ReadEnd, SpawnThread, Pipe, PipeDom
    <3> QED
      BY <3>1
  <2>2. CASE WriteEnd(t) \/ WriteEndDeferred(t)
    <3>1. pc[t] = "building" /\ cur[t].op \in Op
      BY <2>2 DEF WriteEnd, WriteEndDeferred, Op
    <3>2. Grown(RequestFrame(t))
      BY <1>0, <2>2, <3>1, RequestIsUp, PipeWritten, PipeBatched DEF WriteEnd, WriteEndDeferred
    <3> QED
      BY <3>2 DEF Grown
  <2>3. CASE WriteLaneTermination(t)
    <3>1. PICK f : f = [id |-> requestId + 2, lane |-> t, op |-> "term"]
      OBVIOUS
    <3>2. f \in UpFrame
      BY <1>0, <3>1 DEF UpFrame, Frame, Id, IInv, Ids
    <3>3. Grown(f)
      BY <1>0, <2>3, <3>1, <3>2, PipeWritten DEF WriteLaneTermination
    <3> QED
      BY <3>3 DEF Grown
  <2> QED
    BY <2>1, <2>2, <2>3
<1> QED
  BY <1>0, <1>1, <1>2, UnderwayMoved

\* The client's threads keep it.
LEMMA ClientNothing ==
  ASSUME StuckInv, NEW t \in Thread,
         \/ \E op \in Op : LockCall(t, op)
         \/ StartRequest(t) \/ WriteEnd(t) \/ WriteEndDeferred(t)
         \/ ReadStart(t) \/ ReadEnd(t)
         \/ WriteLaneTermination(t) \/ SpawnThread(t)
  PROVE  Nothing'
<1>0. OrderInv /\ Held /\ Past /\ Joins /\ Late /\ Underway /\ Coming
  BY DEF StuckInv, Nothing
<1>1. UNCHANGED <<sRead, lane, joining, cbSt, cbId, sRequestId>>
  BY DEF LockCall, StartRequest, WriteEnd, WriteEndDeferred, ReadStart, ReadEnd,
         WriteLaneTermination, SpawnThread, serverVars
<1>2. Joins' /\ Late'
  BY <1>0, <1>1 DEF Joins, Late, Req
<1>3. Held' /\ Past'
  BY <1>0, HeldClient, PastClient
<1>4. Underway' /\ Coming'
  BY <1>0, UnderwayClient, ComingClient
<1> QED
  BY <1>2, <1>3, <1>4 DEF Nothing

\* The client's reader loses nothing of the stream.
LEMMA DownKept ==
  ASSUME IInv, down # <<>>, down' = Tail(down), cRead' = Head(down)
  PROVE  \A k \in DownDom : (\E j \in DownDom' : down'[j].id = down[k].id) \/ cRead'.id = down[k].id
<1>1. down \in Seq(Frame) /\ Len(down) \in Nat \ {0}
  BY Types
<1>2. \A k \in DownDom \ {1} : k - 1 \in DownDom' /\ down'[k - 1] = down[k]
  BY <1>1 DEF DownDom
<1>3. down[1] = Head(down)
  BY <1>1
<1> QED
  BY <1>2, <1>3

\* The sender, the reader and the dispatcher of the client keep it.
LEMMA DispatchNothing ==
  ASSUME StuckInv, SenderFlush \/ ClientReadId \/ DispatchStart \/ DispatchReadEnd \/ DispatchReply
  PROVE  Nothing'
<1>0. OrderInv /\ IInv /\ Wire /\ Held /\ Past /\ Joins /\ Late /\ Underway /\ Coming
  BY DEF StuckInv, Nothing, OrderInv, IInv
<1>1. /\ UNCHANGED <<pc, cur, callMutex, writeMutex, requestId, issued, done>>
      /\ UNCHANGED <<sRead, lane, joining, cbSt, cbId, sRequestId>>
  BY DEF SenderFlush, ClientReadId, DispatchStart, DispatchReadEnd, DispatchReply, serverVars
<1>2. Held' /\ Joins' /\ Late'
  BY <1>0, <1>1 DEF Held, Joins, Late, Req
<1>3. CASE SenderFlush \/ DispatchStart
  <2>1. Pipe' = Pipe /\ PipeDom' = PipeDom
    BY <1>0, <1>3, PipeFlushed DEF SenderFlush, DispatchStart, Pipe, PipeDom
  <2>2. UNCHANGED <<down, cRead, dispId>> /\ DownDom' = DownDom
        /\ (disp = "running" => disp' = "running")
    BY <1>3 DEF SenderFlush, DispatchStart, DownDom
  <2>3. Past'
    BY <1>0, <1>1, <2>1, PastMoved
  <2>4. Underway'
    BY <1>0, <1>1, <2>1, <2>2, UnderwayMoved
  <2>5. Coming'
    BY <1>0, <1>1, <2>2, ComingMoved
  <2> QED
    BY <1>2, <2>3, <2>4, <2>5 DEF Nothing
<1>4. CASE ClientReadId
  <2>1. Pipe' = Pipe /\ PipeDom' = PipeDom /\ UNCHANGED <<disp, dispId>>
    BY <1>4 DEF ClientReadId, Pipe, PipeDom
  <2>2. /\ cRead.id = 0 /\ down # <<>> /\ down' = Tail(down) /\ cRead' = Head(down)
    BY <1>4 DEF ClientReadId, NoFrame, NoId
  <2>3. \A k \in DownDom : (\E j \in DownDom' : down'[j].id = down[k].id) \/ cRead'.id = down[k].id
    BY <1>0, <2>2, DownKept
  <2>4. Past'
    BY <1>0, <1>1, <2>1, PastMoved
  <2>5. ~Cb(cRead)
    BY <2>2 DEF Cb
  <2>6. Underway'
    BY <1>0, <1>1, <2>1, <2>3, <2>5, UnderwayMoved
  <2>7. \A u \in Thread : pc[u] = "waiting" => cur[u].id # 0
    BY <1>0 DEF IInv, Ids, Busy
  <2>8. Coming'
    BY <1>0, <1>1, <2>2, <2>3, <2>7, ComingMoved
  <2> QED
    BY <1>2, <2>4, <2>6, <2>8 DEF Nothing
<1>5. CASE DispatchReadEnd
  <2>1. /\ Pipe' = Pipe /\ PipeDom' = PipeDom /\ UNCHANGED down /\ DownDom' = DownDom
        /\ disp = "reading" /\ disp' = "running" /\ dispId' = cRead.id
    BY <1>5 DEF DispatchReadEnd, Pipe, PipeDom, DownDom
  <2>2. \A u \in Thread : cRead.id # cur[u].id
    BY <1>0, <2>1 DEF IInv, ClientSlot, Ids
  <2>3. Past'
    BY <1>0, <1>1, <2>1, PastMoved
  <2>4. Underway'
    BY <1>0, <1>1, <2>1, UnderwayMoved
  <2>5. Coming'
    BY <1>0, <1>1, <2>1, <2>2, ComingMoved
  <2> QED
    BY <1>2, <2>3, <2>4, <2>5 DEF Nothing
<1>6. CASE DispatchReply
  <2>1. PICK f : f = [id |-> dispId, lane |-> Free, op |-> "resp"]
    OBVIOUS
  <2>2. f \in UpFrame /\ f.id = dispId /\ ~Req(f)
    BY <1>0, <1>6, <2>1, Types DEF DispatchReply, IInv, ClientSlot, UpFrame, Frame, Id, Req
  <2>3. Grown(f)
    BY <1>0, <1>6, <2>1, <2>2, PipeWritten DEF DispatchReply
  <2>4. UNCHANGED <<down, cRead>> /\ DownDom' = DownDom
    BY <1>6 DEF DispatchReply, DownDom
  <2>5. \A i \in PipeDom' : \/ \E j \in PipeDom : Pipe'[i] = Pipe[j]
                            \/ \A u \in Thread : pc'[u] \in Busy => Before(Pipe'[i], u, cur[u].id)
    BY <2>2, <2>3 DEF Grown, Before
  <2>6. Past'
    BY <1>0, <1>1, <2>5, PastMoved
  <2>7. /\ \E i \in PipeDom' : Pipe'[i].id = dispId
        /\ \A i \in PipeDom : \E j \in PipeDom' : Pipe'[j].id = Pipe[i].id
    BY <2>2, <2>3 DEF Grown
  <2>8. Underway'
    BY <1>0, <1>1, <2>4, <2>7, UnderwayMoved
  <2>9. Coming'
    BY <1>0, <1>1, <2>4, ComingMoved
  <2> QED
    BY <1>2, <2>6, <2>8, <2>9 DEF Nothing
<1> QED
  BY <1>3, <1>4, <1>5, <1>6

\* The server's reader takes the head of the pipe into the slot.
LEMMA ReadNothing ==
  ASSUME StuckInv, ServerReadResponse \/ ServerReadRequest
  PROVE  Nothing'
<1>0. OrderInv /\ IInv /\ Wire /\ Ordering /\ Held /\ Past /\ Joins /\ Late /\ Underway /\ Coming
  BY DEF StuckInv, Nothing, OrderInv, IInv
<1>1. /\ UNCHANGED <<clientVars, issued, done, down, cbSt, cbId, sRequestId>>
      /\ joining = Free /\ sRead = NoFrame /\ up # <<>> /\ sRead' = Head(up) /\ up' = Tail(up)
  BY DEF ServerReadResponse, ServerReadRequest
<1>2. UNCHANGED <<pc, cur, callMutex, writeMutex, batch, cRead, disp, dispId>> /\ DownDom' = DownDom
  BY <1>1 DEF clientVars, DownDom
<1>3. Held' /\ Late'
  BY <1>0, <1>1, <1>2 DEF Held, Late
<1>4. \A u \in Thread : /\ lane'[u].st = lane[u].st \/ (lane[u].st = "none" /\ lane'[u].st = "wait")
                        /\ lane'[u].id = lane[u].id /\ lane'[u].run = lane[u].run
  BY <1>0, ReadRequestEffect DEF ServerReadResponse
<1>5. /\ 1 \in PipeDom /\ Pipe[1] = sRead'
      /\ \A i \in PipeDom' : i + 1 \in PipeDom /\ Pipe'[i] = Pipe[i + 1]
      /\ \A i \in PipeDom \ {1} : i - 1 \in PipeDom' /\ Pipe'[i - 1] = Pipe[i]
  BY <1>0, <1>1, <1>2, PipeRead
<1>6. Past'
  BY <1>0, <1>2, <1>4, <1>5, PastMoved
<1>7. Joins'
  <2>1. CASE ServerReadResponse
    BY <1>1, <2>1 DEF ServerReadResponse, Joins
  <2>2. CASE ServerReadRequest
    <3>1. Req(sRead')
      BY <1>0, <1>1, <2>2, HeadOfPipe DEF ServerReadRequest
    <3>2. joining' = IF sRead'.op = "term" THEN sRead'.lane ELSE Free
      BY <1>1, <2>2 DEF ServerReadRequest
    <3> QED
      BY <3>1, <3>2 DEF Joins, Req
  <2> QED
    BY <2>1, <2>2
<1>8. Underway'
  <2>1. ~Cb(sRead)
    BY <1>1 DEF Cb, NoFrame, NoId
  <2>2. \A i \in PipeDom : (\E j \in PipeDom' : Pipe'[j].id = Pipe[i].id) \/ sRead'.id = Pipe[i].id
    BY <1>5
  <2> QED
    BY <1>0, <1>1, <1>2, <2>1, <2>2, UnderwayMoved
<1>9. Coming'
  BY <1>0, <1>1, <1>2, <1>4, ComingMoved
<1> QED
  BY <1>3, <1>6, <1>7, <1>8, <1>9 DEF Nothing

\* A worker that ends its wait, or its arguments, gives up the frame of its own lane.
LEMMA TakeNothing ==
  ASSUME StuckInv, NEW t \in Thread, WorkerTake(t) \/ WorkerReadEnd(t)
  PROVE  Nothing'
<1>0. /\ OrderInv /\ IInv /\ SlotLane /\ Held /\ Past /\ Joins /\ Late /\ Underway /\ Coming
      /\ lane \in [Thread -> Lane] /\ joining \in Thread \cup {Free}
  BY Types DEF StuckInv, Nothing, OrderInv, IInv, TypeOK
<1>1. UNCHANGED <<clientVars, issued, done, up, down, cbSt, cbId, sRequestId, joining>>
  BY DEF WorkerTake, WorkerReadEnd
<1>2. /\ UNCHANGED <<pc, cur, callMutex, writeMutex, batch, cRead, disp, dispId>>
      /\ DownDom' = DownDom /\ Pipe' = Pipe /\ PipeDom' = PipeDom
  BY <1>1 DEF clientVars, DownDom, Pipe, PipeDom
<1>3. Held' /\ Late'
  BY <1>0, <1>1, <1>2 DEF Held, Late
<1>4. Req(sRead) /\ sRead.lane = t /\ lane[t].st \in {"wait", "body"}
  BY <1>0 DEF WorkerTake, WorkerReadEnd, SlotLane, LaneSlot
<1>5. /\ \A u \in Thread \ {t} : lane'[u] = lane[u]
      /\ WorkerTake(t) => lane'[t].st \in {"exited", "body"}
      /\ WorkerReadEnd(t) => /\ lane'[t].st = "exec" /\ lane'[t].id = sRead.id
                             /\ lane'[t].run = lane[t].run /\ lane[t].st = "body"
  BY <1>0, TakeEffect DEF WorkerReadEnd, Lane
<1>6. sRead' = sRead \/ ~Req(sRead')
  BY DEF WorkerTake, WorkerReadEnd, Req, NoFrame, NoId
<1>7. lane[t].st = "body" => lane[t].run = sRead.op /\ sRead.op # "term"
  BY <1>0 DEF SlotLane, LaneSlot
<1>8. Past'
  <2>1. \A u \in Thread : lane'[u].st = "exec" =>
          /\ lane'[u].run = lane[u].run
          /\ \/ lane[u].st = "exec" /\ lane'[u].id = lane[u].id
             \/ /\ lane'[u].id = sRead.id /\ Req(sRead) /\ sRead.lane = u
                /\ lane[u].run = sRead.op
    BY <1>4, <1>5, <1>7
  <2> QED
    BY <1>0, <1>2, <1>6, <2>1, PastMoved
<1>9. Joins'
  <2>1. CASE WorkerTake(t)
    <3>1. lane[t].op = sRead.op /\ (lane[t].op = "term" => joining = t /\ lane'[t].st = "exited")
      <4>1. lane[t].ready
        BY <2>1 DEF WorkerTake
      <4>2. lane[t].op = sRead.op
        BY <1>0, <4>1 DEF SlotLane, LaneSlot
      <4>3. sRead.op = "term" => joining = t
        BY <1>0, <1>4 DEF SlotLane, HandedOver
      <4>4. lane[t].op = "term" => lane'[t].st = "exited"
        BY <1>0, <2>1 DEF WorkerTake, Lane
      <4> QED
        BY <4>2, <4>3, <4>4
    <3>2. joining # Free /\ lane[joining].st # "exited" => joining = t /\ lane[t].op = "term"
      BY <1>0, <1>4, <3>1 DEF Joins
    <3>3. joining # Free /\ joining # t => lane'[joining] = lane[joining]
      BY <1>0, <1>5
    <3> QED
      BY <1>1, <1>4, <3>1, <3>2, <3>3 DEF Joins
  <2>2. CASE WorkerReadEnd(t)
    <3>1. sRead.op # "term" /\ lane[t].st = "body"
      BY <1>5, <1>7, <2>2
    <3>2. ~(joining # Free /\ lane[joining].st # "exited")
      BY <1>0, <3>1 DEF Joins
    <3>3. joining # Free /\ joining # t => lane'[joining] = lane[joining]
      BY <1>0, <1>5
    <3> QED
      BY <1>1, <3>1, <3>2, <3>3 DEF Joins
  <2> QED
    BY <2>1, <2>2
<1>10. Underway'
  <2>1. ~Cb(sRead)
    BY <1>4 DEF Req, Cb
  <2> QED
    BY <1>0, <1>1, <1>2, <2>1, UnderwayMoved
<1>11. Coming'
  <2>1. \A u \in Thread : lane[u].st = "reply" => lane'[u] = lane[u]
    BY <1>4, <1>5
  <2> QED
    BY <1>0, <1>1, <1>2, <2>1, ComingMoved
<1> QED
  BY <1>3, <1>8, <1>9, <1>10, <1>11 DEF Nothing

\* A worker that executes and answers, and the join of one that has ended.
LEMMA RunNothing ==
  ASSUME StuckInv, NEW t \in Thread,
         WorkerExec(t) \/ WorkerReply(t) \/ (ServerJoin /\ t = joining)
  PROVE  Nothing'
<1>0. /\ OrderInv /\ IInv /\ SlotLane /\ Held /\ Past /\ Joins /\ Late /\ Underway /\ Coming
      /\ lane \in [Thread -> Lane] /\ done \in [Thread -> SUBSET Nat]
      /\ joining \in Thread \cup {Free}
      /\ \A u \in Thread : cur[u].id \in Nat /\ lane[u].id \in Nat
  BY Types DEF StuckInv, Nothing, OrderInv, IInv, TypeOK
<1>1. UNCHANGED <<clientVars, issued, up, sRead, cbSt, cbId, sRequestId>>
  BY DEF WorkerExec, WorkerReply, ServerJoin
<1>2. /\ UNCHANGED <<pc, cur, callMutex, writeMutex, batch, cRead, disp, dispId>>
      /\ Pipe' = Pipe /\ PipeDom' = PipeDom
  BY <1>1 DEF clientVars, Pipe, PipeDom
<1>3. Held' /\ Late'
  BY <1>0, <1>1, <1>2 DEF Held, Late
<1>4. /\ \A u \in Thread \ {t} : lane'[u] = lane[u] /\ done'[u] = done[u]
      /\ lane[t].st \in {"exec", "reply", "exited"} /\ lane'[t].st \in {"reply", "wait", "none"}
  BY <1>0 DEF WorkerExec, WorkerReply, ServerJoin, NoLane, Lane
<1>5. Past'
  BY <1>0, <1>1, <1>2, <1>4, PastMoved
<1>6. Joins'
  <2>1. CASE ServerJoin
    BY <2>1 DEF ServerJoin, Joins
  <2>2. CASE WorkerExec(t) \/ WorkerReply(t)
    <3>1. lane[t].st # "exited" /\ joining' = joining
      BY <2>2 DEF WorkerExec, WorkerReply
    <3>2. joining # Free /\ joining # t => lane'[joining] = lane[joining]
      BY <1>0, <1>4
    <3> QED
      BY <1>0, <1>1, <3>1, <3>2 DEF Joins, Req
  <2> QED
    BY <2>1, <2>2
<1>7. /\ \A k \in DownDom : \E j \in DownDom' : down'[j].id = down[k].id
      /\ WorkerReply(t) => \E j \in DownDom' : down'[j].id = lane[t].id
  <2>1. CASE WorkerReply(t)
    <3>1. PICK f : f = [id |-> lane[t].id, lane |-> Free, op |-> "resp"]
      OBVIOUS
    <3>2. f \in Frame /\ f.id = lane[t].id
      BY <1>0, <3>1 DEF Frame, Id
    <3>3. DownGrown(f)
      BY <1>0, <2>1, <3>1, <3>2, DownSent DEF WorkerReply
    <3> QED
      BY <3>2, <3>3 DEF DownGrown
  <2>2. CASE ~WorkerReply(t)
    <3>1. down' = down /\ DownDom' = DownDom
      BY <2>2 DEF WorkerExec, ServerJoin, DownDom
    <3> QED
      BY <2>2, <3>1
  <2> QED
    BY <2>1, <2>2
<1>8. Underway'
  BY <1>0, <1>1, <1>2, <1>7, UnderwayMoved
<1>9. Coming'
  <2>1. CASE WorkerReply(t) \/ (ServerJoin /\ t = joining)
    <3>1. UNCHANGED done /\ (ServerJoin => lane[t].st # "reply")
      BY <1>4, <2>1 DEF WorkerReply, ServerJoin
    <3>2. \A u \in Thread : pc[u] = "waiting" /\ lane[u].st = "reply" /\ lane[u].id = cur[u].id =>
            \/ lane'[u].st = "reply" /\ lane'[u].id = lane[u].id
            \/ \E k \in DownDom' : down'[k].id = lane[u].id
      <4>1. CASE WorkerReply(t)
        BY <1>4, <1>7, <4>1
      <4>2. CASE ServerJoin /\ t = joining
        BY <1>4, <3>1, <4>2
      <4>3. CASE WorkerExec(t)
        BY <1>4, <4>3 DEF WorkerExec
      <4> QED
        BY <4>1, <4>2, <4>3
    <3> QED
      BY <1>0, <1>1, <1>2, <1>7, <3>1, <3>2, ComingMoved
  <2>2. CASE WorkerExec(t)
    <3>1. /\ lane[t].st = "exec" /\ done'[t] = done[t] \cup {lane[t].id}
          /\ lane'[t].id = lane[t].id /\ (lane[t].run \in Sync => lane'[t].st = "reply")
          /\ UNCHANGED down /\ DownDom' = DownDom
      BY <1>0, <2>2 DEF WorkerExec, Lane, DownDom
    <3>2. ASSUME NEW u \in Thread \ {t} PROVE ComingTo(u)'
      BY <1>0, <1>1, <1>2, <1>4, <3>1 DEF Coming, ComingTo
    <3>3. pc[t] = "waiting" /\ cur[t].id = lane[t].id => lane[t].run \in Sync
      BY <1>0, <3>1 DEF Past, PastOf, Busy
    <3>4. ComingTo(t)'
      BY <1>0, <1>1, <1>2, <3>1, <3>3 DEF Coming, ComingTo
    <3> QED
      BY <3>2, <3>4 DEF Coming
  <2> QED
    BY <2>1, <2>2
<1> QED
  BY <1>3, <1>5, <1>6, <1>8, <1>9 DEF Nothing

\* A callback starts, finds its response and takes it.
LEMMA CallbackNothing ==
  ASSUME StuckInv, NEW c \in Callback,
         CallbackRequest(c) \/ CallbackReadStart(c) \/ CallbackReadEnd(c)
  PROVE  Nothing'
<1>0. /\ OrderInv /\ IInv /\ Round /\ Held /\ Past /\ Joins /\ Late /\ Underway /\ Coming
      /\ cbSt \in [Callback -> {"idle", "waiting", "reading"}] /\ cbId \in [Callback -> Nat]
      /\ sRequestId \in Nat
  BY Types DEF StuckInv, Nothing, OrderInv, IInv
<1>1. UNCHANGED <<clientVars, issued, done, up, lane, joining>>
  BY DEF CallbackRequest, CallbackReadStart, CallbackReadEnd
<1>2. /\ UNCHANGED <<pc, cur, callMutex, writeMutex, batch, cRead, disp, dispId>>
      /\ Pipe' = Pipe /\ PipeDom' = PipeDom
  BY <1>1 DEF clientVars, Pipe, PipeDom
<1>3. Held'
  BY <1>0, <1>2 DEF Held
<1>4. Late'
  BY <1>0 DEF CallbackRequest, CallbackReadStart, CallbackReadEnd, Late
<1>5. sRead' = sRead \/ (~Req(sRead) /\ ~Req(sRead'))
  <2>1. CASE CallbackReadEnd(c)
    BY <1>0, <2>1 DEF CallbackReadEnd, Round, Callers, Req, NoFrame, NoId
  <2>2. CASE ~CallbackReadEnd(c)
    BY <2>2 DEF CallbackRequest, CallbackReadStart
  <2> QED
    BY <2>1, <2>2
<1>6. Past'
  BY <1>0, <1>1, <1>2, <1>5, PastMoved
<1>7. Joins'
  BY <1>0, <1>1, <1>5 DEF Joins, Req
<1>8. /\ \A k \in DownDom : \E j \in DownDom' : down'[j].id = down[k].id
      /\ CallbackRequest(c) => \E j \in DownDom' : down'[j].id = cbId'[c]
  <2>1. CASE CallbackRequest(c)
    <3>1. PICK f : f = [id |-> sRequestId + 2, lane |-> Free, op |-> "cb"]
      OBVIOUS
    <3>2. f \in Frame /\ f.id = sRequestId + 2 /\ cbId'[c] = sRequestId + 2
      BY <1>0, <2>1, <3>1 DEF Frame, Id, CallbackRequest
    <3>3. DownGrown(f)
      BY <1>0, <2>1, <3>1, <3>2, DownSent DEF CallbackRequest
    <3> QED
      BY <3>2, <3>3 DEF DownGrown
  <2>2. CASE ~CallbackRequest(c)
    <3>1. down' = down /\ DownDom' = DownDom
      BY <2>2 DEF CallbackReadStart, CallbackReadEnd, DownDom
    <3> QED
      BY <2>2, <3>1
  <2> QED
    BY <2>1, <2>2
<1>9. Underway'
  <2>1. \A d \in Callback \ {c} : cbSt'[d] = cbSt[d] /\ cbId'[d] = cbId[d]
    BY <1>0 DEF CallbackRequest, CallbackReadStart, CallbackReadEnd
  <2>2. CallbackRequest(c) => GoesRound(cbId[c])'
    BY <1>8 DEF GoesRound
  <2>3. ~CallbackRequest(c) => cbSt'[c] # "waiting"
    BY <1>0 DEF CallbackReadStart, CallbackReadEnd
  <2>4. \A d \in Callback : cbSt'[d] = "waiting" =>
          (cbSt[d] = "waiting" /\ cbId'[d] = cbId[d]) \/ GoesRound(cbId[d])'
    BY <2>1, <2>2, <2>3
  <2>5. ASSUME NEW d \in Callback, cbSt'[d] = "waiting", Cb(sRead), sRead.id = cbId[d]
        PROVE  sRead'.id = cbId[d]
    <3>1. CASE CallbackReadEnd(c)
      <4>1. cbSt[c] = "reading" /\ cbId[c] = sRead.id /\ d # c
        BY <1>0, <2>3, <2>5, <3>1 DEF CallbackReadEnd, CallbackRequest, Round, Callers
      <4>2. cbSt[d] = "waiting"
        BY <2>1, <2>5, <4>1
      <4> QED
        BY <1>0, <2>5, <4>1, <4>2 DEF Round, Callers
    <3>2. CASE ~CallbackReadEnd(c)
      BY <2>5, <3>2 DEF CallbackRequest, CallbackReadStart
    <3> QED
      BY <3>1, <3>2
  <2> QED
    BY <1>0, <1>2, <1>8, <2>4, <2>5, UnderwayMoved
<1>10. Coming'
  BY <1>0, <1>1, <1>2, <1>8, ComingMoved
<1> QED
  BY <1>3, <1>4, <1>6, <1>7, <1>9, <1>10 DEF Nothing

\* A new connection has nothing under way.
LEMMA InitStuck == Init => StuckInv
<1> SUFFICES ASSUME Init PROVE StuckInv
  OBVIOUS
<1>1. Held /\ Joins /\ Late
  BY DEF Init, Held, Joins, Late
<1>2. Past /\ Underway /\ Coming
  BY DEF Init, Past, PastOf, Underway, Coming, ComingTo, Busy
<1> QED
  BY <1>1, <1>2, InitOrdered DEF StuckInv, Nothing

\* Every step keeps the invariant.
LEMMA NextStuck == StuckInv /\ [Next]_vars => StuckInv'
<1> SUFFICES ASSUME StuckInv, [Next]_vars PROVE StuckInv'
  OBVIOUS
<1>1. OrderInv'
  BY NextOrdered DEF StuckInv
<1>2. CASE ClientStep
  BY <1>1, <1>2, ClientNothing, DispatchNothing DEF ClientStep, StuckInv
<1>3. CASE ServerStep
  <2>1. ServerJoin => joining \in Thread
    BY DEF ServerJoin, StuckInv, OrderInv, IInv, TypeOK
  <2> QED
    BY <1>1, <1>3, <2>1, ReadNothing, TakeNothing, RunNothing, CallbackNothing DEF ServerStep, StuckInv
<1>4. CASE Finished \/ UNCHANGED vars
  <2>1. UNCHANGED vars
    BY <1>4 DEF Finished
  <2>2. /\ UNCHANGED <<pc, cur, callMutex, writeMutex, issued, done, sRead, lane, joining>>
        /\ UNCHANGED <<up, batch, down, cRead, disp, dispId, cbSt, cbId, sRequestId>>
    BY <2>1 DEF vars, clientVars, serverVars
  <2>3. Pipe' = Pipe /\ PipeDom' = PipeDom /\ DownDom' = DownDom
    BY <2>2 DEF Pipe, PipeDom, DownDom
  <2>4. Nothing'
    BY <2>2, <2>3 DEF StuckInv, Nothing, Held, Past, PastOf, Before, Req, Joins, Late, Underway,
                      GoesRound, Coming, ComingTo
  <2> QED
    BY <1>1, <2>4 DEF StuckInv
<1> QED
  BY <1>2, <1>3, <1>4 DEF Next

\* The client's threads, its sender, reader and dispatcher, the server's reader, its
\* workers and CUDA's threads never wait for each other in a circle: as long as a call, a
\* request or a callback is unfinished one of them can go on (StopsOnlyWhenDone), for any
\* number of threads, callbacks and requests.
THEOREM ConnectionNeverStuck == Spec => []StopsOnlyWhenDone
BY InitStuck, NextStuck, RestOrMoves, PTL DEF Spec
=============================================================================
