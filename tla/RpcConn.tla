------------------------------ MODULE RpcConn ------------------------------
(***************************************************************************)
(* One established connection between an application process (the client  *)
(* shim, rpc.cpp and client.cpp) and its forked server child (server.cpp), *)
(* up to the first transport failure.                                      *)
(*                                                                         *)
(* Both ends own a conn_t.  An application thread sends requests on its    *)
(* own lane; a request is built while the thread holds call_mutex and      *)
(* write_mutex and is then written to the transport or appended to the     *)
(* deferred batch.  Each end reads its inbound stream through ONE slot,    *)
(* conn->read_id: the reader fills it, whoever the frame is for consumes   *)
(* the rest of the frame and rpc_read_end empties it.  On the server every *)
(* lane has a worker thread with a one-place hand-off (lupine_lane), and   *)
(* CUDA threads send host callbacks back to the client.                    *)
(*                                                                         *)
(* A frame stands for its id, lane and op words and its payload.  The      *)
(* transport (h2.cpp) is a reliable FIFO byte stream in each direction.    *)
(***************************************************************************)
EXTENDS Naturals, Sequences, FiniteSets

CONSTANTS
  Thread,      \* application threads; a thread's lane id is its thread id
  Callback,    \* CUDA threads of the server child that run host callbacks
  MaxRequest   \* bound on request_id: the client stops issuing beyond it

ASSUME ConnAssumption ==
  /\ MaxRequest \in Nat
  /\ Thread \cap Callback = {} /\ Callback # {}
  /\ "free" \notin Thread            \* a lane is not an unlocked mutex

\* What the properties tell apart among the several hundred CUDA operations.
Sync == {"call", "hostfn", "fence"}   \* rpc_wait_for_response
Batched == {"post"}                   \* rpc_write_end_deferred, small request
Framed == {"bulk"}                    \* rpc_write_end_deferred, framed payload
Op == Sync \cup Batched \cup Framed

Free == "free"            \* an unlocked mutex
Dispatcher == "dispatcher"
NoId == 0                 \* conn->read_id = 0: the slot is empty
NoFrame == [id |-> NoId, lane |-> Free, op |-> "none"]

VARIABLES
  \* the client's conn_t and its threads
  callMutex, writeMutex,  \* holder, or Free
  requestId,              \* conn->request_id, even
  batch,                  \* deferred_write_state->bytes, as whole frames
  pc, cur,                \* per thread: where it is, the request it is making
  cRead,                  \* the frame read_id names, NoFrame when read_id = 0
  disp, dispId,           \* rpc_client_dispatch_thread
  \* the transport
  up, down,
  \* the server child's conn_t and its threads
  sRequestId,             \* conn->request_id, odd
  sRead,
  joining,                \* lane the reader is joining after a termination
  lane,                   \* per lane: the worker and its hand-off place
  pend,                   \* host callbacks CUDA has accepted and not started
  cbSt, cbId,             \* the CUDA threads running them
  \* history
  issued, done            \* per lane: ids issued, ids whose CUDA call was made

clientVars == <<callMutex, writeMutex, requestId, batch, pc, cur, cRead, disp, dispId>>
serverVars == <<sRequestId, sRead, joining, lane, pend, cbSt, cbId>>
vars == <<clientVars, up, down, serverVars, issued, done>>

Id == Nat
Frame == [id : Id, lane : Thread \cup {Free}, op : Op \cup {"term", "resp", "cb", "none"}]
Lane == [st : {"none", "wait", "body", "exec", "reply", "exited"},
         ready : BOOLEAN,                 \* lane->ready
         op : Op \cup {"term", "none"},   \* lane->op, the hand-off place
         run : Op \cup {"term", "none"},  \* the worker's own copy of op
         id : Id]                         \* request_id of the handler
NoLane == [st |-> "none", ready |-> FALSE, op |-> "none", run |-> "none", id |-> NoId]

Init ==
  /\ callMutex = Free /\ writeMutex = Free
  /\ requestId = 0 /\ batch = <<>>
  /\ pc = [t \in Thread |-> "idle"]
  /\ cur = [t \in Thread |-> [id |-> NoId, op |-> "none"]]
  /\ cRead = NoFrame /\ disp = "idle" /\ dispId = NoId
  /\ up = <<>> /\ down = <<>>
  /\ sRequestId = 1 /\ sRead = NoFrame /\ joining = Free
  /\ lane = [t \in Thread |-> NoLane]
  /\ pend = 0
  /\ cbSt = [c \in Callback |-> "idle"] /\ cbId = [c \in Callback |-> NoId]
  /\ issued = [t \in Thread |-> {}] /\ done = [t \in Thread |-> {}]

----------------------------------------------------------------------------
(* Client: building and sending a request.                                 *)

\* rpc_write_start_request, first half: call_mutex.
LockCall(t, op) ==
  /\ pc[t] = "idle" /\ requestId + 2 <= MaxRequest
  /\ callMutex = Free /\ callMutex' = t
  /\ pc' = [pc EXCEPT ![t] = "locked"]
  /\ cur' = [cur EXCEPT ![t] = [id |-> NoId, op |-> op]]
  /\ UNCHANGED <<writeMutex, requestId, batch, cRead, disp, dispId, up, down,
                 serverVars, issued, done>>

\* rpc_write_start_request, second half: write_mutex and the request id.
StartRequest(t) ==
  /\ pc[t] = "locked"
  /\ writeMutex = Free /\ writeMutex' = t
  /\ requestId' = requestId + 2
  /\ cur' = [cur EXCEPT ![t].id = requestId + 2]
  /\ pc' = [pc EXCEPT ![t] = "building"]
  /\ issued' = [issued EXCEPT ![t] = @ \cup {requestId + 2}]
  /\ UNCHANGED <<callMutex, batch, cRead, disp, dispId, up, down, serverVars, done>>

RequestFrame(t) == [id |-> cur[t].id, lane |-> t, op |-> cur[t].op]

\* Wrong: the batch goes out behind the request that flushes it.
WrittenFirst(frames) == up \o frames \o batch

\* rpc_flush_deferred_locked followed by rpc_http2_writev: what is on the wire
\* after `frames` have been written directly.
Written(frames) == up \o batch \o frames

\* rpc_write_end: flush the batch, write, release both mutexes; the caller goes
\* on to rpc_read_start.
WriteEnd(t) ==
  /\ pc[t] = "building" /\ cur[t].op \in Sync
  /\ up' = Written(<<RequestFrame(t)>>) /\ batch' = <<>>
  /\ writeMutex' = Free /\ callMutex' = Free
  /\ pc' = [pc EXCEPT ![t] = "waiting"]
  /\ UNCHANGED <<requestId, cur, cRead, disp, dispId, down, serverVars, issued, done>>

\* rpc_write_end_deferred: a small request joins the batch, a framed payload is
\* written at once behind whatever the batch holds.  No response is awaited.
WriteEndDeferred(t) ==
  /\ pc[t] = "building" /\ cur[t].op \in Batched \cup Framed
  /\ IF cur[t].op \in Framed
       THEN up' = Written(<<RequestFrame(t)>>) /\ batch' = <<>>
       ELSE batch' = Append(batch, RequestFrame(t)) /\ UNCHANGED up
  /\ writeMutex' = Free /\ callMutex' = Free
  /\ pc' = [pc EXCEPT ![t] = "idle"]
  /\ UNCHANGED <<requestId, cur, cRead, disp, dispId, down, serverVars, issued, done>>

\* Wrong: the sender waits for a second request.
SenderFlushFull ==
  /\ writeMutex = Free /\ Len(batch) > 1
  /\ up' = Written(<<>>) /\ batch' = <<>>
  /\ UNCHANGED <<callMutex, writeMutex, requestId, pc, cur, cRead, disp, dispId,
                 down, serverVars, issued, done>>

\* rpc_deferred_sender: the coalescing window has passed.
SenderFlush ==
  /\ writeMutex = Free /\ batch # <<>>
  /\ up' = Written(<<>>) /\ batch' = <<>>
  /\ UNCHANGED <<callMutex, writeMutex, requestId, pc, cur, cRead, disp, dispId,
                 down, serverVars, issued, done>>

\* ~rpc_thread_lane: an exiting thread terminates its lane.
WriteLaneTermination(t) ==
  /\ pc[t] = "idle" /\ requestId + 2 <= MaxRequest
  /\ callMutex = Free /\ writeMutex = Free
  /\ requestId' = requestId + 2
  /\ up' = Written(<<[id |-> requestId + 2, lane |-> t, op |-> "term"]>>)
  /\ batch' = <<>>
  /\ pc' = [pc EXCEPT ![t] = "gone"]
  /\ UNCHANGED <<callMutex, writeMutex, cur, cRead, disp, dispId, down,
                 serverVars, issued, done>>

\* A new thread gets the thread id, and with it the lane id, of an exited one.
SpawnThread(t) ==
  /\ pc[t] = "gone"
  /\ pc' = [pc EXCEPT ![t] = "idle"]
  /\ UNCHANGED <<callMutex, writeMutex, requestId, batch, cur, cRead, disp, dispId,
                 up, down, serverVars, issued, done>>

----------------------------------------------------------------------------
(* Client: the inbound stream.                                             *)

\* _rpc_read_id_dispatch
ClientReadId ==
  /\ cRead = NoFrame /\ down # <<>>
  /\ cRead' = Head(down) /\ down' = Tail(down)
  /\ UNCHANGED <<callMutex, writeMutex, requestId, batch, pc, cur, disp, dispId,
                 up, serverVars, issued, done>>

\* Wrong: any frame in the slot will do.
ReadStartAny(t) ==
  /\ pc[t] = "waiting" /\ cRead # NoFrame
  /\ pc' = [pc EXCEPT ![t] = "reading"]
  /\ UNCHANGED <<callMutex, writeMutex, requestId, batch, cur, cRead, disp, dispId,
                 up, down, serverVars, issued, done>>

\* rpc_read_start: the slot holds the response to this thread's request.
ReadStart(t) ==
  /\ pc[t] = "waiting" /\ cRead.id = cur[t].id
  /\ pc' = [pc EXCEPT ![t] = "reading"]
  /\ UNCHANGED <<callMutex, writeMutex, requestId, batch, cur, cRead, disp, dispId,
                 up, down, serverVars, issued, done>>

\* rpc_read ... rpc_read_end: the call returns to the application.
ReadEnd(t) ==
  /\ pc[t] = "reading"
  /\ cRead' = NoFrame
  /\ pc' = [pc EXCEPT ![t] = "idle"]
  /\ UNCHANGED <<callMutex, writeMutex, requestId, batch, cur, disp, dispId,
                 up, down, serverVars, issued, done>>

\* rpc_dispatch with parity 1: the slot holds a request of the server.
DispatchStart ==
  /\ disp = "idle" /\ cRead.id >= 2 /\ cRead.id % 2 = 1
  /\ disp' = "reading"
  /\ UNCHANGED <<callMutex, writeMutex, requestId, batch, pc, cur, cRead, dispId,
                 up, down, serverVars, issued, done>>

\* rpc_read ... rpc_read_end; the host callback then runs on this thread.
DispatchReadEnd ==
  /\ disp = "reading"
  /\ dispId' = cRead.id /\ cRead' = NoFrame
  /\ disp' = "running"
  /\ UNCHANGED <<callMutex, writeMutex, requestId, batch, pc, cur,
                 up, down, serverVars, issued, done>>

\* The callback has returned: rpc_write_start_response ... rpc_write_end, which
\* takes write_mutex only and flushes the deferred batch first.
DispatchReply ==
  /\ disp = "running" /\ writeMutex = Free
  /\ up' = Written(<<[id |-> dispId, lane |-> Free, op |-> "resp"]>>) /\ batch' = <<>>
  /\ disp' = "idle" /\ dispId' = NoId
  /\ UNCHANGED <<callMutex, writeMutex, requestId, pc, cur, cRead,
                 down, serverVars, issued, done>>

----------------------------------------------------------------------------
(* Server: the reader of client_handler.                                   *)

\* A response to a callback (the server's own parity): leave it in the slot for
\* the CUDA thread that waits in rpc_read_start.
ServerReadResponse ==
  /\ joining = Free /\ sRead = NoFrame /\ up # <<>> /\ Head(up).id % 2 = 1
  /\ sRead' = Head(up) /\ up' = Tail(up)
  /\ UNCHANGED <<clientVars, down, sRequestId, joining, lane, pend, cbSt, cbId,
                 issued, done>>

\* A request: create the lane on first use, hand the op to its worker.  After a
\* termination the reader goes on to join the worker.
ServerReadRequest ==
  /\ joining = Free /\ sRead = NoFrame /\ up # <<>> /\ Head(up).id % 2 = 0
  /\ LET f == Head(up) IN
       /\ sRead' = f /\ up' = Tail(up)
       /\ lane' = [lane EXCEPT ![f.lane].st = IF @ = "none" THEN "wait" ELSE @,
                               ![f.lane].ready = TRUE, ![f.lane].op = f.op]
       /\ joining' = IF f.op = "term" THEN f.lane ELSE Free
  /\ UNCHANGED <<clientVars, down, sRequestId, pend, cbSt, cbId, issued, done>>

\* lane->worker.join(); lanes.erase(lane_id)
ServerJoin ==
  /\ joining # Free /\ lane[joining].st = "exited"
  /\ lane' = [lane EXCEPT ![joining] = NoLane]
  /\ joining' = Free
  /\ UNCHANGED <<clientVars, up, down, sRequestId, sRead, pend, cbSt, cbId, issued, done>>

----------------------------------------------------------------------------
(* Server: a lane worker.                                                  *)

\* Wrong: the frame is released before its arguments are read.
WorkerTakeReleases(t) ==
  /\ lane[t].st = "wait" /\ lane[t].ready
  /\ lane' = [lane EXCEPT ![t].ready = FALSE, ![t].run = lane[t].op,
                          ![t].st = IF lane[t].op = "term" THEN "exited" ELSE "body"]
  /\ sRead' = NoFrame
  /\ UNCHANGED <<clientVars, up, down, sRequestId, joining, pend, cbSt, cbId, issued, done>>

\* Wrong: a termination is not released.
WorkerTakeKeeps(t) ==
  /\ lane[t].st = "wait" /\ lane[t].ready
  /\ lane' = [lane EXCEPT ![t].ready = FALSE, ![t].run = lane[t].op,
                          ![t].st = IF lane[t].op = "term" THEN "exited" ELSE "body"]
  /\ UNCHANGED <<clientVars, up, down, sRequestId, sRead, joining, pend, cbSt, cbId, issued, done>>

\* The worker takes the op from its place; a termination releases the frame and
\* ends the thread.
WorkerTake(t) ==
  /\ lane[t].st = "wait" /\ lane[t].ready
  /\ IF lane[t].op = "term"
       THEN /\ lane' = [lane EXCEPT ![t].ready = FALSE, ![t].run = lane[t].op,
                                    ![t].st = "exited"]
            /\ sRead' = NoFrame
       ELSE /\ lane' = [lane EXCEPT ![t].ready = FALSE, ![t].run = lane[t].op,
                                    ![t].st = "body"]
            /\ UNCHANGED sRead
  /\ UNCHANGED <<clientVars, up, down, sRequestId, joining, pend, cbSt, cbId, issued, done>>

\* The handler has read its arguments: rpc_read_end frees the reader and
\* returns the id the response will carry.
WorkerReadEnd(t) ==
  /\ lane[t].st = "body"
  /\ lane' = [lane EXCEPT ![t].st = "exec", ![t].id = sRead.id]
  /\ sRead' = NoFrame
  /\ UNCHANGED <<clientVars, up, down, sRequestId, joining, pend, cbSt, cbId, issued, done>>

\* CUDA has no host callback left to run (a fence waits for that).
Quiet == pend = 0 /\ \A c \in Callback : cbSt[c] = "idle"

\* Wrong: a fire-and-forget request is answered too.
WorkerExecAnswers(t) ==
  /\ lane[t].st = "exec"
  /\ lane[t].run = "fence" => Quiet
  /\ done' = [done EXCEPT ![t] = @ \cup {lane[t].id}]
  /\ pend' = IF lane[t].run = "hostfn" THEN pend + 1 ELSE pend
  /\ lane' = [lane EXCEPT ![t].st = "reply"]
  /\ UNCHANGED <<clientVars, up, down, sRequestId, sRead, joining, cbSt, cbId, issued>>

\* The handler's CUDA call returns.
WorkerExec(t) ==
  /\ lane[t].st = "exec"
  /\ lane[t].run = "fence" => Quiet
  /\ done' = [done EXCEPT ![t] = @ \cup {lane[t].id}]
  /\ pend' = IF lane[t].run = "hostfn" THEN pend + 1 ELSE pend
  /\ lane' = [lane EXCEPT ![t].st = IF lane[t].run \in Sync THEN "reply" ELSE "wait"]
  /\ UNCHANGED <<clientVars, up, down, sRequestId, sRead, joining, cbSt, cbId, issued>>

\* rpc_write_start_response ... rpc_write_end.  The lane word of a response is
\* whatever conn->read_lane_id holds by now; no reader looks at it.
WorkerReply(t) ==
  /\ lane[t].st = "reply"
  /\ down' = Append(down, [id |-> lane[t].id, lane |-> Free, op |-> "resp"])
  /\ lane' = [lane EXCEPT ![t].st = "wait"]
  /\ UNCHANGED <<clientVars, up, sRequestId, sRead, joining, pend, cbSt, cbId, issued, done>>

----------------------------------------------------------------------------
(* Server: lupine_graph_host_callback and lupine_stream_callback, on a CUDA *)
(* thread.                                                                 *)

CallbackRequest(c) ==
  /\ cbSt[c] = "idle" /\ pend > 0
  /\ pend' = pend - 1
  /\ sRequestId' = sRequestId + 2
  /\ cbId' = [cbId EXCEPT ![c] = sRequestId + 2]
  /\ down' = Append(down, [id |-> sRequestId + 2, lane |-> Free, op |-> "cb"])
  /\ cbSt' = [cbSt EXCEPT ![c] = "waiting"]
  /\ UNCHANGED <<clientVars, up, sRead, joining, lane, issued, done>>

\* rpc_read_start, rpc_read
CallbackReadStart(c) ==
  /\ cbSt[c] = "waiting" /\ sRead.id = cbId[c]
  /\ cbSt' = [cbSt EXCEPT ![c] = "reading"]
  /\ UNCHANGED <<clientVars, up, down, sRequestId, sRead, joining, lane, pend, cbId, issued, done>>

\* rpc_read_end
CallbackReadEnd(c) ==
  /\ cbSt[c] = "reading"
  /\ sRead' = NoFrame
  /\ cbSt' = [cbSt EXCEPT ![c] = "idle"]
  /\ UNCHANGED <<clientVars, up, down, sRequestId, joining, lane, pend, cbId, issued, done>>

----------------------------------------------------------------------------

\* The application makes no further call and everything it issued is finished.
Finished ==
  /\ \A t \in Thread : pc[t] = "idle"
  /\ batch = <<>> /\ up = <<>> /\ down = <<>>
  /\ cRead = NoFrame /\ sRead = NoFrame /\ disp = "idle" /\ joining = Free
  /\ \A t \in Thread : lane[t].st \in {"none", "wait"}
  /\ Quiet
  /\ UNCHANGED vars

ClientStep ==
  \/ \E t \in Thread :
       \/ \E op \in Op : LockCall(t, op)
       \/ StartRequest(t) \/ WriteEnd(t) \/ WriteEndDeferred(t)
       \/ ReadStart(t) \/ ReadEnd(t)
       \/ WriteLaneTermination(t) \/ SpawnThread(t)
  \/ SenderFlush \/ ClientReadId
  \/ DispatchStart \/ DispatchReadEnd \/ DispatchReply

ServerStep ==
  \/ ServerReadResponse \/ ServerReadRequest \/ ServerJoin
  \/ \E t \in Thread : WorkerTake(t) \/ WorkerReadEnd(t) \/ WorkerExec(t) \/ WorkerReply(t)
  \/ \E c \in Callback : CallbackRequest(c) \/ CallbackReadStart(c) \/ CallbackReadEnd(c)

Next == ClientStep \/ ServerStep \/ Finished

Spec == Init /\ [][Next]_vars

\* Every thread that can run eventually does: the application's own threads once
\* inside a call (never the decision to make one), the deferred sender when its
\* window ends, the readers, the dispatcher, the lane workers and CUDA's threads.
\* A contended mutex is obtained in the end because each holder makes a bounded
\* number of steps and the bounded client makes finitely many calls.
Fairness ==
  /\ \A t \in Thread :
       /\ WF_vars(StartRequest(t) \/ WriteEnd(t) \/ WriteEndDeferred(t)
                   \/ ReadStart(t) \/ ReadEnd(t))
       /\ WF_vars(WorkerTake(t) \/ WorkerReadEnd(t) \/ WorkerExec(t) \/ WorkerReply(t))
  /\ \A c \in Callback :
       WF_vars(CallbackRequest(c) \/ CallbackReadStart(c) \/ CallbackReadEnd(c))
  /\ WF_vars(SenderFlush)
  /\ WF_vars(ClientReadId)
  /\ WF_vars(DispatchStart \/ DispatchReadEnd \/ DispatchReply)
  /\ WF_vars(ServerReadResponse \/ ServerReadRequest \/ ServerJoin)

FairSpec == Spec /\ Fairness

----------------------------------------------------------------------------
(* Properties.                                                             *)

\* Every variable has its type, and request ids stay within the bound.
TypeOK ==
  /\ callMutex \in Thread \cup {Free}
  /\ writeMutex \in Thread \cup {Free}
  /\ requestId \in Id
  /\ batch \in Seq(Frame) /\ up \in Seq(Frame) /\ down \in Seq(Frame)
  /\ pc \in [Thread -> {"idle", "locked", "building", "waiting", "reading", "gone"}]
  /\ cur \in [Thread -> [id : Id, op : Op \cup {"none"}]]
  /\ cRead \in Frame /\ sRead \in Frame
  /\ disp \in {"idle", "reading", "running"} /\ dispId \in Id
  /\ sRequestId \in Id
  /\ joining \in Thread \cup {Free}
  /\ lane \in [Thread -> Lane]
  /\ pend \in Nat
  /\ cbSt \in [Callback -> {"idle", "waiting", "reading"}]
  /\ cbId \in [Callback -> Id]
  /\ issued \in [Thread -> SUBSET Id] /\ done \in [Thread -> SUBSET Id]

\* Who may consume the frame in the server's slot: the worker it was handed to,
\* or the CUDA thread whose callback it answers.
ServerOwners ==
  {t \in Thread : lane[t].ready \/ lane[t].st = "body"}
    \cup {c \in Callback : cbSt[c] # "idle" /\ cbId[c] = sRead.id}

\* A frame in the server's read slot is reserved for exactly one thread from the
\* moment the reader fills the slot until that thread's rpc_read_end, and no
\* thread consumes the stream while the slot is empty (rpc.cpp:482-484); in
\* particular a busy lane's hand-off place is never overwritten.
OneServerOwner ==
  IF sRead = NoFrame THEN ServerOwners = {} ELSE \E o \in Thread \cup Callback : ServerOwners = {o}

\* The frame in the client's read slot is reserved for whoever rpc_read_start or
\* rpc_dispatch woke up: never two threads, nor a thread and the dispatcher, and
\* the slot is not refilled or emptied under a reader ("once this returns, the
\* matching frame is reserved for the caller until rpc_read_end()").
OneClientReader ==
  /\ \A t \in Thread : pc[t] = "reading" =>
       /\ cRead # NoFrame /\ cRead.id = cur[t].id
       /\ disp # "reading"
       /\ \A u \in Thread \ {t} : pc[u] # "reading"
  /\ disp = "reading" => cRead # NoFrame /\ cRead.id % 2 = 1

\* The frames on their way to the client or in its slot.
Inbound == {down[i] : i \in 1..Len(down)} \cup {cRead}

\* No response is ever an orphan: a response in flight has exactly the thread
\* waiting for it that issued the request, and the CUDA call was made.  An orphan
\* would stay in the client's slot for ever and stop every other call.
NoOrphanResponse ==
  \A f \in Inbound : f.op = "resp" =>
    \E t \in Thread : /\ pc[t] \in {"waiting", "reading"}
                      /\ cur[t].id = f.id /\ f.id \in done[t]

\* The call an application thread is waiting in, and the one its worker executes.
Awaited ==
  [t \in Thread |->
     IF pc[t] \in {"building", "waiting", "reading"} /\ cur[t].op \in Sync THEN cur[t].id ELSE NoId]
Running == [t \in Thread |-> IF lane[t].st = "exec" THEN lane[t].id ELSE NoId]

Order == INSTANCE CallOrder WITH Id <- 1 .. MaxRequest, running <- Running, awaited <- Awaited

\* The connection implements CallOrder: nothing is reordered, skipped or repeated
\* between rpc_write_start_request and the CUDA call, whether a request was
\* batched, framed or synchronous, and a synchronous call returns only when every
\* earlier call of its thread, the fire-and-forget ones included, has been
\* executed ("synchronous calls flush this buffer before writing their own
\* request").
ImplementsCallOrder == Order!Spec

\* Can a thread of the client or of the server go on by itself?  The guards of the
\* steps in Fairness.
ThreadCanMove(t) ==
  \/ pc[t] \in {"building", "reading"}
  \/ pc[t] = "locked" /\ writeMutex = Free
  \/ pc[t] = "waiting" /\ cRead.id = cur[t].id
WorkerCanMove(t) ==
  \/ lane[t].st = "wait" /\ lane[t].ready
  \/ lane[t].st \in {"body", "reply"}
  \/ lane[t].st = "exec" /\ (lane[t].run = "fence" => Quiet)
CallbackCanMove(c) ==
  \/ cbSt[c] = "idle" /\ pend > 0
  \/ cbSt[c] = "waiting" /\ sRead.id = cbId[c]
  \/ cbSt[c] = "reading"
ClientCanMove ==
  \/ writeMutex = Free /\ batch # <<>>
  \/ cRead = NoFrame /\ down # <<>>
  \/ disp = "idle" /\ cRead.id >= 2 /\ cRead.id % 2 = 1
  \/ disp = "reading"
  \/ disp = "running" /\ writeMutex = Free
ReaderCanMove ==
  \/ joining = Free /\ sRead = NoFrame /\ up # <<>>
  \/ joining # Free /\ lane[joining].st = "exited"
CanMove ==
  \/ \E t \in Thread : ThreadCanMove(t) \/ WorkerCanMove(t)
  \/ \E c \in Callback : CallbackCanMove(c)
  \/ ClientCanMove \/ ReaderCanMove

\* Every call has returned, every request has been executed, every callback has been
\* answered, nothing is under way and both mutexes are free for the next call.
AtRest ==
  /\ \A t \in Thread : /\ pc[t] \in {"idle", "gone"} /\ issued[t] = done[t]
                       /\ lane[t].st \in {"none", "wait"} /\ ~lane[t].ready
  /\ callMutex = Free /\ writeMutex = Free
  /\ batch = <<>> /\ up = <<>> /\ down = <<>>
  /\ cRead = NoFrame /\ sRead = NoFrame /\ disp = "idle" /\ joining = Free
  /\ Quiet

\* The two ends never wait for each other in a circle: as long as anything is left
\* to do some thread can go on, though a busy lane keeps the one read slot, a fence
\* waits for callbacks whose responses arrive through that slot, and the reader joins
\* the worker of an exiting thread before it reads on.
StopsOnlyWhenDone == CanMove \/ AtRest

\* A synchronous call returns.
CallsReturn == \A t \in Thread : pc[t] = "waiting" ~> pc[t] = "idle"

\* Every request issued, awaited or not, is eventually executed.
RequestsExecute ==
  \A t \in Thread, k \in 1..(MaxRequest \div 2) :
    2 * k \in issued[t] ~> 2 * k \in done[t]
=============================================================================
