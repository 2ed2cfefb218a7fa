---------------------------- MODULE ServerChild ----------------------------
(***************************************************************************)
(* The end of a connection: how a server child (client_handler, server.cpp *)
(* and server_checkpoint.cpp) reacts when the client disconnects or when   *)
(* SIGTERM asks for a graceful exit.  Module RpcConn describes the same    *)
(* threads while the transport works; here it stops working.               *)
(*                                                                         *)
(* The reader fills the slot conn.read_id and hands requests to the lane   *)
(* workers; when it can read no more it stops every worker in turn, sets   *)
(* conn.closed and finishes: join the signal thread, drain the CUDA calls, *)
(* checkpoint, exit.                                                       *)
(***************************************************************************)
EXTENDS Naturals, FiniteSets

CONSTANTS
  Lane,        \* lane ids the client may use
  MaxLanes,    \* MAX_LANES
  HostFn,      \* does the application launch host callbacks?
  Rest,        \* what can still be read once the socket is down
  MaxFrame     \* bound on the requests that are read

\* Nothing, whole frames, or frames of which the last one is incomplete.
ASSUME ChildAssumption ==
  /\ Lane # {} /\ MaxLanes \in Nat /\ MaxFrame \in Nat
  /\ HostFn \in BOOLEAN /\ Rest \in {"nothing", "frames", "partial"}

Op == {"call", "post", "fence", "term"} \cup IF HostFn THEN {"hostfn"} ELSE {}

VARIABLES
  sock,              \* "up", "down" (the peer is gone or SHUT_RDWR was called), or
                     \* "eof" (and a read has failed: every later one fails too)
  frames,            \* requests read so far
  reader, target,    \* client_handler: where it is, the lane it is joining
  todo,              \* lanes its shutdown loop has still to stop
  slot,              \* conn.read_id: "empty", "request", "response" or "stop" (-1)
  closed,            \* conn.closed
  lanes,             \* domain of the map `lanes`
  worker,            \* per lane: the thread and its hand-off place
  pend, cb,          \* host callbacks accepted by CUDA; the CUDA thread running one
  term,              \* sigterm_received
  sig,               \* the signal thread: "watch", "T" in the pipe, "joined"
  requested,         \* checkpoint_requested
  checkpointed       \* the provider was asked to checkpoint

connVars == <<slot, closed, lanes, worker, pend, cb>>
finishVars == <<term, sig, requested, checkpointed>>
vars == <<sock, frames, reader, target, todo, connVars, finishVars>>

NoWorker == [st |-> "none", ready |-> FALSE, op |-> "none", run |-> "none"]

Init ==
  /\ sock = "up" /\ frames = 0
  /\ reader = "wait" /\ target = "none" /\ todo = {}
  /\ slot = "empty" /\ closed = FALSE /\ lanes = {}
  /\ worker = [l \in Lane |-> NoWorker]
  /\ pend = 0 /\ cb = "idle"
  /\ term = FALSE /\ sig = "watch" /\ requested = FALSE /\ checkpointed = FALSE

----------------------------------------------------------------------------
(* The reader loop of client_handler                                       *)

Readable == sock = "up" \/ (sock = "down" /\ Rest # "nothing")

\* May a read inside a frame fail?  Then the stream is at its end.
Broken == sock = "eof" \/ (sock = "down" /\ Rest = "partial")

\* A request id is read into the slot.
ReadRequestId ==
  /\ reader = "wait" /\ slot = "empty" /\ ~closed
  /\ Readable /\ frames < MaxFrame
  /\ frames' = frames + 1
  /\ slot' = "request" /\ reader' = "words"
  /\ UNCHANGED <<sock, target, todo, closed, lanes, worker, pend, cb, finishVars>>

\* The id of the response to a callback: left in the slot for the CUDA thread.
ReadResponseId ==
  /\ reader = "wait" /\ slot = "empty" /\ ~closed
  /\ Readable /\ cb = "waiting"
  /\ slot' = "response" /\ cb' = "answered"
  /\ UNCHANGED <<sock, frames, reader, target, todo, closed, lanes, worker, pend, finishVars>>

\* The loop ends: nothing more to read, or another thread closed the connection.
ReadFails ==
  /\ reader = "wait"
  /\ closed \/ (slot = "empty" /\ sock # "up")
  /\ reader' = "tear" /\ todo' = lanes
  /\ UNCHANGED <<sock, frames, target, connVars, finishVars>>

HandOver(l, op) ==
  worker' = [worker EXCEPT ![l].ready = TRUE, ![l].op = op,
                           ![l].st = IF @ = "none" THEN "wait" ELSE @]

\* Lane and op words: create the lane on first use and hand the request over.
ReadWords(l, op) ==
  /\ reader = "words" /\ sock # "eof" /\ (l \in lanes \/ Cardinality(lanes) < MaxLanes)
  /\ HandOver(l, op) /\ lanes' = lanes \cup {l}
  /\ reader' = IF op = "term" THEN "join" ELSE "wait"
  /\ target' = l
  /\ UNCHANGED <<sock, frames, todo, slot, closed, pend, cb, finishVars>>

\* The words are not there, or there is no room for another lane, or (first
\* request) the connection's checkpoint cannot be restored: the loop ends and the
\* slot keeps the id.
WordsFail ==
  /\ reader = "words"
  /\ \/ Broken /\ sock' = "eof"
     \/ Cardinality(lanes) >= MaxLanes /\ (\E l \in Lane : l \notin lanes) /\ UNCHANGED sock
     \/ frames = 1 /\ UNCHANGED sock
  /\ reader' = "tear" /\ todo' = lanes
  /\ UNCHANGED <<frames, target, connVars, finishVars>>

\* lane->worker.join(); lanes.erase(lane_id)
JoinTerminated ==
  /\ reader = "join" /\ worker[target].st = "exited"
  /\ worker' = [worker EXCEPT ![target] = NoWorker]
  /\ lanes' = lanes \ {target}
  /\ reader' = "wait"
  /\ UNCHANGED <<sock, frames, target, todo, slot, closed, pend, cb, finishVars>>

----------------------------------------------------------------------------
(* A lane worker                                                           *)

\* The op is taken from its place; a termination releases the slot and ends the
\* thread, and so does any op while the slot holds -1.
WorkerTake(l) ==
  /\ worker[l].st = "wait" /\ worker[l].ready
  /\ LET stop == slot = "stop" \/ worker[l].op = "term" IN
       /\ worker' = [worker EXCEPT ![l].ready = FALSE, ![l].run = worker[l].op,
                                   ![l].st = IF stop THEN "exited" ELSE "body"]
       /\ slot' = IF stop THEN "empty" ELSE slot
  /\ UNCHANGED <<sock, frames, reader, target, todo, closed, lanes, pend, cb, finishVars>>

\* The handler has its arguments: rpc_read_end.
WorkerRead(l) ==
  /\ worker[l].st = "body" /\ sock # "eof"
  /\ worker' = [worker EXCEPT ![l].st = "exec"]
  /\ slot' = "empty"
  /\ UNCHANGED <<sock, frames, reader, target, todo, closed, lanes, pend, cb, finishVars>>

\* The handler returns -1, because it cannot read its arguments or, having
\* already called rpc_read_end, cannot write its response: the worker calls
\* rpc_read_end (again) and ends.
WorkerFails(l) ==
  /\ \/ worker[l].st = "body" /\ Broken /\ sock' = "eof"
     \/ worker[l].st = "reply" /\ (sock # "up" \/ closed) /\ UNCHANGED sock
  /\ worker' = [worker EXCEPT ![l].st = "exited"]
  /\ slot' = "empty"
  /\ UNCHANGED <<frames, reader, target, todo, closed, lanes, pend, cb, finishVars>>

\* The CUDA call returns; a fence waits for the host callbacks.
WorkerExec(l) ==
  /\ worker[l].st = "exec"
  /\ worker[l].run = "fence" => pend = 0 /\ cb = "idle"
  /\ worker' = [worker EXCEPT ![l].st = IF worker[l].run = "post" THEN "wait" ELSE "reply"]
  /\ pend' = IF worker[l].run = "hostfn" THEN pend + 1 ELSE pend
  /\ UNCHANGED <<sock, frames, reader, target, todo, slot, closed, lanes, cb, finishVars>>

\* A write succeeds until SHUT_RDWR or the end; a peer that has just gone does not
\* prevent it.
Writable == ~closed /\ ~requested

WorkerReply(l) ==
  /\ worker[l].st = "reply" /\ Writable
  /\ worker' = [worker EXCEPT ![l].st = "wait"]
  /\ UNCHANGED <<sock, frames, reader, target, todo, slot, closed, lanes, pend, cb, finishVars>>

----------------------------------------------------------------------------
(* lupine_graph_host_callback, on a CUDA thread                            *)

\* Write the request; failing, the callback is given up.
CallbackStart ==
  /\ cb = "idle" /\ pend > 0
  /\ pend' = pend - 1
  /\ \/ Writable /\ cb' = "waiting"
     \/ (closed \/ sock # "up") /\ UNCHANGED cb
  /\ UNCHANGED <<sock, frames, reader, target, todo, slot, closed, lanes, worker, finishVars>>

\* rpc_read_start returns with the response in the slot, ... rpc_read_end.
CallbackRead ==
  /\ cb = "answered" /\ slot = "response" /\ ~closed /\ sock # "eof"
  /\ cb' = "idle" /\ slot' = "empty"
  /\ UNCHANGED <<sock, frames, reader, target, todo, closed, lanes, worker, pend, finishVars>>

\* rpc_read_start cannot read the response's words: the connection is closed.
CallbackReadFails ==
  /\ cb = "answered" /\ slot = "response" /\ Broken
  /\ cb' = "idle" /\ closed' = TRUE /\ sock' = "eof"
  /\ UNCHANGED <<frames, reader, target, todo, slot, lanes, worker, pend, finishVars>>

\* rpc_read_start finds the connection closed.
CallbackClosed ==
  /\ cb \in {"waiting", "answered"} /\ closed
  /\ cb' = "idle"
  /\ UNCHANGED <<sock, frames, reader, target, todo, slot, closed, lanes, worker, pend, finishVars>>

----------------------------------------------------------------------------
(* The end of client_handler                                               *)

\* One round of the shutdown loop: when the slot is empty, put -1 into it and
\* hand the lane a termination, ...
TearStop(l) ==
  /\ reader = "tear" /\ l \in todo /\ slot = "empty"
  /\ slot' = "stop" /\ HandOver(l, "term")
  /\ todo' = todo \ {l} /\ target' = l
  /\ reader' = "tearjoin"
  /\ UNCHANGED <<sock, frames, closed, lanes, pend, cb, finishVars>>

\* Wrong: the worker is not joined.
TearJoinDetached ==
  /\ reader = "tearjoin"
  /\ reader' = "tear"
  /\ UNCHANGED <<sock, frames, target, todo, connVars, finishVars>>

\* ... then join its worker.
TearJoin ==
  /\ reader = "tearjoin" /\ worker[target].st = "exited"
  /\ reader' = "tear"
  /\ UNCHANGED <<sock, frames, target, todo, connVars, finishVars>>

TearDone ==
  /\ reader = "tear" /\ todo = {}
  /\ closed' = TRUE /\ sock' = "eof"
  /\ reader' = "quit"
  /\ UNCHANGED <<frames, target, todo, slot, lanes, worker, pend, cb, finishVars>>

\* lupine_server_checkpoint_child_finish: write 'Q' and join the signal thread,
\* which handles a 'T' that is ahead of it in the pipe first; ...
FinishQuit ==
  /\ reader = "quit" /\ sig # "T"
  /\ sig' = "joined" /\ reader' = "restore"
  /\ UNCHANGED <<sock, frames, target, todo, connVars, term, requested, checkpointed>>

\* ... restore the previous signal handler; ...
FinishRestore ==
  /\ reader = "restore" /\ reader' = "decide"
  /\ UNCHANGED <<sock, frames, target, todo, connVars, finishVars>>

\* Wrong: only the signal thread's flag counts.
ShouldCheckpointFlag == requested

\* ... after a SIGTERM drain the CUDA calls and checkpoint.
ShouldCheckpoint == term \/ requested
FinishDecide ==
  /\ reader = "decide" /\ reader' = "exited"
  /\ checkpointed' = ShouldCheckpoint
  /\ UNCHANGED <<sock, frames, target, todo, connVars, term, sig, requested>>

----------------------------------------------------------------------------
(* SIGTERM and the network                                                 *)

\* checkpoint_sigterm_handler; once the previous handler is back, SIGTERM no
\* longer reaches it.
Sigterm ==
  /\ ~term /\ reader \notin {"decide", "exited"}
  /\ term' = TRUE
  /\ sig' = IF sig = "watch" THEN "T" ELSE sig
  /\ UNCHANGED <<sock, frames, reader, target, todo, connVars, requested, checkpointed>>

\* Wrong: the connection is left open.
SignalThreadOpen ==
  /\ sig = "T"
  /\ sig' = "joined" /\ requested' = TRUE
  /\ UNCHANGED <<sock, frames, reader, target, todo, connVars, term, checkpointed>>

\* wait_for_shutdown
SignalThread ==
  /\ sig = "T"
  /\ sig' = "joined" /\ requested' = TRUE
  /\ sock' = IF sock = "up" THEN "down" ELSE sock
  /\ UNCHANGED <<frames, reader, target, todo, connVars, term, checkpointed>>

Disconnect ==
  /\ sock = "up" /\ sock' = "down"
  /\ UNCHANGED <<frames, reader, target, todo, connVars, finishVars>>

Reader ==
  \/ ReadFails \/ JoinTerminated \/ WordsFail
  \/ \E l \in Lane, op \in Op : ReadWords(l, op)
  \/ \E l \in Lane : TearStop(l)
  \/ TearJoin \/ TearDone \/ FinishQuit \/ FinishRestore \/ FinishDecide

Worker(l) == WorkerTake(l) \/ WorkerRead(l) \/ WorkerFails(l) \/ WorkerExec(l) \/ WorkerReply(l)

CudaThread == CallbackStart \/ CallbackRead \/ CallbackReadFails \/ CallbackClosed

Next ==
  \/ ReadRequestId \/ ReadResponseId \/ Reader
  \/ \E l \in Lane : Worker(l)
  \/ CudaThread
  \/ Sigterm \/ SignalThread \/ Disconnect

Spec == Init /\ [][Next]_vars

\* Every thread of the child goes on while it can; the client owes it nothing:
\* it need not send requests, nor answer callbacks.
FairSpec ==
  /\ Spec
  /\ WF_vars(Reader) /\ WF_vars(CudaThread) /\ WF_vars(SignalThread)
  /\ \A l \in Lane : WF_vars(Worker(l))

----------------------------------------------------------------------------
(* Properties.                                                             *)

\* Every variable has its type, and only lanes of the map are left to stop.
TypeOK ==
  /\ sock \in {"up", "down", "eof"} /\ frames \in 0..MaxFrame
  /\ reader \in {"wait", "words", "join", "tear", "tearjoin", "quit", "restore",
                 "decide", "exited"}
  /\ target \in Lane \cup {"none"} /\ todo \subseteq lanes /\ lanes \subseteq Lane
  /\ slot \in {"empty", "request", "response", "stop"} /\ closed \in BOOLEAN
  /\ worker \in [Lane -> [st : {"none", "wait", "body", "exec", "reply", "exited"},
                          ready : BOOLEAN, op : Op \cup {"none"}, run : Op \cup {"none"}]]
  /\ pend \in Nat /\ cb \in {"idle", "waiting", "answered"}
  /\ term \in BOOLEAN /\ requested \in BOOLEAN /\ checkpointed \in BOOLEAN
  /\ sig \in {"watch", "T", "joined"}

\* From the moment the child finishes, no lane worker is left to make a CUDA
\* call: the checkpoint sees the state every executed request left, and the
\* clean-up that follows cannot pull staging memory from under a handler
\* ("checkpoint it after shutdown has drained").
CheckpointQuiesced ==
  reader \in {"quit", "restore", "decide", "exited"} =>
    \A l \in Lane : worker[l].st \in {"none", "exited"}

\* A SIGTERM that reaches the child's handler is never lost: the child
\* checkpoints before it exits, wherever the signal hits, the window between
\* joining the signal thread and restoring the handler included.
TermCheckpoints == reader = "exited" /\ term => checkpointed

\* The graceful drain ends: after SIGTERM the child exits ("asks every connection
\* child to finish its in-flight CUDA calls, and waits for those children to
\* exit").  Not ensured; ExitsUnlessTrapped says what is.
ExitsOnTerm == term ~> reader = "exited"

\* A worker inside a synchronization that waits for a host callback.
Blocked(l) == worker[l].st = "exec" /\ worker[l].run = "fence" /\ (pend > 0 \/ cb # "idle")

\* The reader waits for a slot that nobody will empty: the rest of the frame could
\* not be read, or it was handed to a worker that had already returned.
OrphanSlot ==
  /\ reader \in {"wait", "tear"} /\ slot # "empty" /\ (slot = "response" => cb = "idle")
  /\ \A l \in Lane : \/ worker[l].st \in {"none", "exited"}
                     \/ worker[l].st = "wait" /\ ~worker[l].ready
                     \/ Blocked(l)

\* The reader joins a worker whose callback waits for an answer that only the
\* reader could receive, or for conn.closed, which only the reader sets.
BlockedJoin == reader \in {"join", "tearjoin"} /\ Blocked(target) /\ ~closed

\* Can a thread of the child go on by itself?  The guards of Reader, Worker,
\* CudaThread and SignalThread.
ReaderCanMove ==
  \/ reader = "wait" /\ (closed \/ (slot = "empty" /\ sock # "up"))
  \/ /\ reader = "words"
     /\ \/ Broken \/ frames = 1
        \/ sock # "eof" /\ \E l \in Lane : l \in lanes \/ Cardinality(lanes) < MaxLanes
        \/ Cardinality(lanes) >= MaxLanes /\ \E l \in Lane : l \notin lanes
  \/ reader \in {"join", "tearjoin"} /\ worker[target].st = "exited"
  \/ reader = "tear" /\ (todo = {} \/ slot = "empty")
  \/ reader = "quit" /\ sig # "T"
  \/ reader \in {"restore", "decide"}
WorkerCanMove(l) ==
  \/ worker[l].st = "wait" /\ worker[l].ready
  \/ worker[l].st = "body" /\ (sock # "eof" \/ Broken)
  \/ worker[l].st = "exec" /\ ~Blocked(l)
  \/ worker[l].st = "reply" /\ (Writable \/ sock # "up" \/ closed)
CudaCanMove ==
  \/ cb = "idle" /\ pend > 0 /\ (Writable \/ closed \/ sock # "up")
  \/ cb = "answered" /\ slot = "response" /\ ((~closed /\ sock # "eof") \/ Broken)
  \/ cb \in {"waiting", "answered"} /\ closed
CanMove == ReaderCanMove \/ (\E l \in Lane : WorkerCanMove(l)) \/ CudaCanMove \/ sig = "T"

\* Once SIGTERM has come or the client has gone, all threads of the child wait for
\* each other only in one of these two ways: whatever else they do, one of them can
\* go on until the child has exited.
NoThirdTrap ==
  term \/ sock # "up" => CanMove \/ reader = "exited" \/ OrphanSlot \/ BlockedJoin

\* After SIGTERM, or once its client has gone, the child exits and releases its
\* GPU memory, unless it is caught for ever in one of these two ways, each of
\* which the code allows: there is no third one.
ExitsUnlessTrapped ==
  term \/ sock # "up" ~> reader = "exited" \/ [](OrphanSlot \/ BlockedJoin)
=============================================================================
