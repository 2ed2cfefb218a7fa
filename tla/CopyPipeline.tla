---------------------------- MODULE CopyPipeline ----------------------------
(***************************************************************************)
(* Host-to-device copies on the server of one connection: the staging ring *)
(* and its spills (copy_pipeline.cpp), the teardown of the CUDA contexts   *)
(* that own them, and the HTTP/2 receive window that fire-and-forget       *)
(* payloads stay charged to (h2.cpp).                                      *)
(*                                                                         *)
(* The lane workers run the handlers.  A copy reads its payload from the   *)
(* connection, so it owns the read slot (`turn`) until rpc_read_end; a     *)
(* lifecycle call has read its arguments before it starts.  Sizes are in   *)
(* units: a copy is one unit of arguments and Units units of payload, and  *)
(* a ring slot holds one unit.  One device, with its primary context and   *)
(* one that the application creates and destroys.                          *)
(***************************************************************************)
EXTENDS Naturals, Sequences, FiniteSets, FiniteSetsExt

CONSTANTS
  Copier,   \* lanes whose threads copy
  Manager,  \* lanes whose threads create and destroy contexts
  Calls,    \* the calls the application makes
  Slot,     \* the ring (LUPINE_ASYNC_HTOD_SLOT_COUNT)
  Spill,    \* places for spills: the host memory CUDA can still pin
  Window,   \* LUPINE_FF_STAGING_WINDOW_BYTES
  Units     \* payload of a copy

ASSUME CopyAssumption ==
  /\ Window \in Nat \ {0} /\ Window % 2 = 0 /\ Units \in Nat \ {0} /\ Slot \cap Spill = {}
  /\ IsFiniteSet(Slot) /\ IsFiniteSet(Spill)
  /\ "nobody" \notin Copier \cup Manager \cup Slot \cup Spill

Worker == Copier \cup Manager
Copy == {"async", "sync"}
OfPrimary == {"retain", "release", "reset"}
Teardown == {"release", "reset", "destroy", "detach"}
Life == Teardown \cup {"retain", "create"}

Primary == "primary"
Created == "created"
NoCtx == "none"
Ctx == {Primary, Created}
Nobody == "nobody"
Buf == Slot \cup Spill
MaxHeld == Window \div 2     \* kH2MaxHeldBytes

VARIABLES
  \* the client and the stream
  queue,       \* the request issued and not yet started, if any
  unread,      \* units written by the client and not received by the server
  credit,      \* units of them the server's window admits
  \* h2_transport
  staged,      \* units received and not read: local_out
  consumed,    \* units credited to nghttp2 and not announced yet
  windowHeld,  \* window_held
  hold, holdUnits,  \* window_hold, window_hold_bytes
  \* lane workers
  turn, pc, job,
  left, fills,  \* of the copy whose turn it is: payload to read, buffer it is read into
  \* lupine_staging_state
  lifecycle,   \* holder of lifecycle_mutex
  active,      \* holder of staging_operation_active
  teardownCtx, teardownDev, created, primary,
  buf,
  \* CUDA
  live,
  \* history: a copy was started in a context that a call was destroying, or had
  \* failed to destroy
  raced

stream == <<queue, unread, credit, staged, consumed, windowHeld, hold, holdUnits>>
staging == <<lifecycle, active, teardownCtx, teardownDev, created, primary, buf>>
vars == <<stream, turn, pc, job, left, fills, staging, live, raced>>

NoJob == [op |-> "none", ctx |-> NoCtx]

\* A staging buffer: a ring slot, or a spill.  "pinned" memory is allocated;
\* memory that is "gone" was freed by its context's end while the record still
\* points at it.  busy: a DMA may still read it.
Empty == [st |-> "available", ctx |-> NoCtx, held |-> 0, mem |-> "none", busy |-> FALSE]

Init ==
  /\ queue = <<>> /\ unread = 0 /\ credit = Window
  /\ staged = 0 /\ consumed = 0 /\ windowHeld = 0 /\ hold = FALSE /\ holdUnits = 0
  /\ turn = Nobody /\ pc = [w \in Worker |-> "idle"] /\ job = [w \in Worker |-> NoJob]
  /\ left = 0 /\ fills = Nobody
  /\ lifecycle = Nobody /\ active = Nobody
  /\ teardownCtx = {} /\ teardownDev = FALSE /\ created = {} /\ primary = NoCtx
  /\ buf = [b \in Buf |-> Empty]
  /\ live = {} /\ raced = FALSE

Goto(w, l) == pc' = [pc EXCEPT ![w] = l]

----------------------------------------------------------------------------
(* The client, and the window.                                             *)

\* An application thread issues a copy on its lane, while the server may still
\* be busy with the one before.
Issue(w, op, c) ==
  /\ queue = <<>>
  /\ queue' = <<[w |-> w, op |-> op, ctx |-> c]>>
  /\ unread' = unread + 1 + Units
  /\ UNCHANGED <<credit, staged, consumed, windowHeld, hold, holdUnits,
                 turn, pc, job, left, fills, staging, live, raced>>

\* nghttp2_session_consume: a WINDOW_UPDATE goes out once half of the window is
\* credited.  `spent` units of it have just been used up.
Consume(spent, n) ==
  IF consumed + n > 0 /\ 2 * (consumed + n) >= Window
    THEN credit' = credit - spent + consumed + n /\ consumed' = 0
    ELSE credit' = credit - spent /\ consumed' = consumed + n

\* Wrong: everything received under a hold is held.
HeldOfUncapped(n) == IF hold THEN n ELSE 0

\* h2_on_data_chunk_recv_callback: how much of n received units stays charged.
HeldOf(n) == IF hold THEN Min({n, MaxHeld - windowHeld}) ELSE 0

\* h2_read_from_net, by the reader or by the worker whose turn it is, when
\* local_out does not have what it wants.
Receive ==
  /\ staged = 0
  /\ \E n \in 1 .. Min({unread, credit}) :
       /\ unread' = unread - n /\ staged' = n
       /\ windowHeld' = windowHeld + HeldOf(n)
       /\ holdUnits' = holdUnits + HeldOf(n)
       /\ Consume(n, n - HeldOf(n))
  /\ UNCHANGED <<queue, hold, turn, pc, job, left, fills, staging, live, raced>>

\* rpc_http2_window_release
WindowRelease(n) ==
  /\ windowHeld' = windowHeld - Min({n, windowHeld})
  /\ Consume(0, n)

----------------------------------------------------------------------------
(* The buffers.                                                            *)

HeldBy(bs) == Cardinality(UNION {{b} \X (1 .. buf[b].held) : b \in bs})
OfCtx(c) == {b \in Buf : buf[b].ctx = c}
InFlight(c) == {b \in OfCtx(c) : buf[b].st = "in_flight"}

\* cuEventQuery on a published completion: the events of a context that has
\* ended, or that CUDA has put in error, prove nothing.
Failing(c, sick) == {b \in InFlight(c) : sick \/ buf[b].mem = "gone"}
Complete(c, sick) == {b \in InFlight(c) \ Failing(c, sick) : ~buf[b].busy}
Quarantined(b) == [buf[b] EXCEPT !.st = "quarantined", !.held = 0]

\* lupine_async_htod_free_host; a DMA under it would go on reading.
Freed(b) == [Empty EXCEPT !.busy = buf[b].busy]

\* lupine_async_htod_reclaim: a finished slot is available again and keeps its
\* memory, a finished spill is freed; both give their window back.
Reclaimed(c, sick) ==
  [b \in Buf |->
     IF b \in Failing(c, sick) THEN Quarantined(b)
     ELSE IF b \notin Complete(c, sick) THEN buf[b]
     ELSE IF b \in Slot THEN [buf[b] EXCEPT !.st = "available", !.held = 0] ELSE Freed(b)]
ReclaimReleases(c, sick) == HeldBy(Failing(c, sick) \cup Complete(c, sick))

\* Wrong: an event that is not ready does not stop the slot from being freed.
RetiredBusy(c, sick) ==
  [b \in Buf |->
     IF b \in Failing(c, sick) THEN Quarantined(b)
     ELSE IF b \in OfCtx(c) /\ buf[b].st # "quarantined" THEN Freed(b)
     ELSE buf[b]]

\* lupine_async_htod_retire_context: free what is proven idle; leave what is
\* running or unproven to the end of the context.
Retired(c, sick) ==
  [b \in Buf |->
     IF b \in Failing(c, sick) THEN Quarantined(b)
     ELSE IF b \in Complete(c, sick) \/ (b \in OfCtx(c) /\ buf[b].st = "available")
       THEN Freed(b) ELSE buf[b]]
RetireReleases(c, sick) ==
  HeldBy(Failing(c, sick) \cup Complete(c, sick) \cup {b \in OfCtx(c) : buf[b].st = "available"})

\* lupine_async_htod_forget_context: drop the handles and free nothing.
Forgotten(c) == [b \in Buf |-> IF b \in OfCtx(c) THEN Empty ELSE buf[b]]

----------------------------------------------------------------------------
(* Starting a call.                                                        *)

\* Some other call is tearing c down.
TearingDown(c) == \E w \in Worker : job[w].op \in Teardown /\ job[w].ctx = c

\* The call that was to end the application's context failed: the context is there,
\* and the server has forgotten that the application created it.
Disowned(c) == c = Created /\ c \in live \ created

\* The reader hands the next copy to its lane's worker, which reads the
\* arguments, keeps the turn for the payload and looks up its context.
StartCopy(w) ==
  /\ turn = Nobody /\ queue # <<>> /\ Head(queue).w = w /\ pc[w] = "idle" /\ staged > 0
  /\ LET r == Head(queue) IN
       /\ job' = [job EXCEPT ![w] = [op |-> r.op, ctx |-> r.ctx]]
       /\ Goto(w, IF r.ctx \in live THEN "acquire" ELSE "drain")
       /\ raced' = (raced \/ TearingDown(r.ctx) \/ Disowned(r.ctx))
  /\ turn' = w /\ left' = Units /\ queue' = <<>> /\ staged' = staged - 1
  /\ UNCHANGED <<unread, credit, consumed, windowHeld, hold, holdUnits, fills, staging, live>>

\* Wrong: a refused copy leaves its payload in the stream.
RefusedUnread == "end"

\* Where a copy goes that the teardown turns away.
Refused == "drain"

\* lupine_staging_operation: wait for the running operation, unless the context
\* or the device is being torn down.
Acquire(w) ==
  /\ pc[w] = "acquire"
  /\ LET c == job[w].ctx IN
       IF c \in teardownCtx \/ teardownDev
         THEN Goto(w, Refused) /\ UNCHANGED <<active, primary>>
         ELSE /\ active = Nobody /\ active' = w
              /\ primary' = IF c \in created THEN primary ELSE c
              /\ Goto(w, IF job[w].op = "async" THEN "slot" ELSE "sync")
  /\ UNCHANGED <<stream, turn, job, left, fills, lifecycle, teardownCtx, teardownDev,
                 created, buf, live, raced>>

----------------------------------------------------------------------------
(* cuMemcpyHtoDAsync: lupine_server_copy_htod_async                        *)

\* rpc_http2_window_hold_begin, before a payload part is read into buffer b
Hold(b) == fills' = b /\ hold' = TRUE /\ holdUnits' = 0

Available(c, sick) == {s \in Slot : Reclaimed(c, sick)[s].st = "available"}
Own(c, sick) == {s \in Available(c, sick) : buf[s].ctx = c}
Vacant(c, sick) == {s \in Available(c, sick) : buf[s].ctx = NoCtx}
Fresh(c, b) == [Freed(b) EXCEPT !.ctx = c, !.mem = "pinned"]

\* lupine_async_htod_acquire_slot finds a slot of this context, or an empty one,
\* or replaces an idle one of another context.
TakeSlot(w) ==
  /\ pc[w] = "slot" /\ job[w].op = "async"
  /\ \E sick \in BOOLEAN :
       LET c == job[w].ctx IN
       /\ WindowRelease(ReclaimReleases(c, sick))
       /\ \E s \in Available(c, sick) :
            /\ Hold(s)
            /\ \/ s \in Own(c, sick) /\ buf' = Reclaimed(c, sick)
               \/ /\ Own(c, sick) = {} /\ c \in live
                  /\ Vacant(c, sick) # {} => s \in Vacant(c, sick)
                  /\ buf' = [Reclaimed(c, sick) EXCEPT ![s] = Fresh(c, s)]
  /\ Goto(w, "fill")
  /\ UNCHANGED <<queue, unread, staged, turn, job, left, lifecycle, active,
                 teardownCtx, teardownDev, created, primary, live, raced>>

\* The ring when no slot could be prepared: every idle slot was reset in the
\* attempt, because CUDA had no memory for it.
Stripped(c, sick) ==
  [b \in Buf |-> IF b \in Available(c, sick) THEN Freed(b) ELSE Reclaimed(c, sick)[b]]

\* The poll budget is used up with every slot taken, or no slot can be prepared:
\* the rest of the payload goes to a spill, or nowhere.
TakeSpill(w) ==
  /\ pc[w] = "slot" /\ job[w].op = "async"
  /\ \E sick \in BOOLEAN :
       LET c == job[w].ctx IN
       /\ Own(c, sick) = {}
       /\ WindowRelease(ReclaimReleases(c, sick))
       /\ \/ /\ c \in live
             /\ \E x \in Spill :
                  /\ Stripped(c, sick)[x] = Empty
                  /\ buf' = [Stripped(c, sick) EXCEPT ![x] = [Fresh(c, x) EXCEPT !.st = "filling"]]
                  /\ Hold(x)
             /\ Goto(w, "fill")
          \/ /\ buf' = Stripped(c, sick)
             /\ Goto(w, "drain") /\ UNCHANGED <<fills, hold, holdUnits>>
  /\ UNCHANGED <<queue, unread, staged, turn, job, left, lifecycle, active,
                 teardownCtx, teardownDev, created, primary, live, raced>>

\* A unit of payload is in the buffer: rpc_http2_window_hold_end charges it, the
\* copy is submitted, and unless a spill goes on, its completion is published.
\* A copy that reports an error may have been queued all the same.
Fill(w) ==
  /\ pc[w] = "fill" /\ staged > 0
  /\ staged' = staged - 1 /\ left' = left - 1
  /\ \E copied, recorded, queued \in BOOLEAN :
       LET b == fills
           last == left = 1
           goesOn == b \in Spill /\ copied /\ ~last
           held == buf[b].held + holdUnits
           kept == goesOn \/ recorded IN
       /\ copied => queued
       /\ buf' = [buf EXCEPT ![b] =
                    [buf[b] EXCEPT !.busy = @ \/ queued, !.held = IF kept THEN held ELSE 0,
                                   !.st = CASE goesOn -> "filling"
                                            [] ~goesOn /\ recorded -> "in_flight"
                                            [] OTHER -> "quarantined"]]
       /\ WindowRelease(IF kept THEN 0 ELSE held)
       /\ holdUnits' = 0 /\ hold' = goesOn
       /\ fills' = IF goesOn THEN b ELSE Nobody
       /\ Goto(w, CASE goesOn -> "fill"
                    [] ~goesOn /\ copied /\ (recorded \/ b \in Spill) ->
                         IF last THEN "end" ELSE "slot"
                    [] OTHER -> "drain")
  /\ UNCHANGED <<queue, unread, turn, job, lifecycle, active,
                 teardownCtx, teardownDev, created, primary, live, raced>>

\* rpc_drain_payload
Drain(w) ==
  /\ pc[w] = "drain"
  /\ IF left = 0
       THEN Goto(w, "end") /\ UNCHANGED <<staged, left>>
       ELSE /\ staged > 0 /\ staged' = staged - 1
            /\ left' = left - 1 /\ UNCHANGED pc
  /\ UNCHANGED <<queue, unread, credit, consumed, windowHeld, hold, holdUnits,
                 turn, job, fills, staging, live, raced>>

\* The operation of an asynchronous copy ends, then rpc_read_end; a synchronous
\* copy keeps its operation until it has answered.
ReadEnd(w) ==
  /\ pc[w] = "end" /\ turn' = Nobody
  /\ IF job[w].op = "async"
       THEN /\ active' = IF active = w THEN Nobody ELSE active
            /\ Goto(w, "idle") /\ job' = [job EXCEPT ![w] = NoJob]
       ELSE Goto(w, "reply") /\ UNCHANGED <<active, job>>
  /\ UNCHANGED <<stream, left, fills, lifecycle, teardownCtx, teardownDev,
                 created, primary, buf, live, raced>>

Reply(w) ==
  /\ pc[w] = "reply"
  /\ active' = IF active = w THEN Nobody ELSE active
  /\ Goto(w, "idle") /\ job' = [job EXCEPT ![w] = NoJob]
  /\ UNCHANGED <<stream, turn, left, fills, lifecycle, teardownCtx, teardownDev,
                 created, primary, buf, live, raced>>

----------------------------------------------------------------------------
\* cuMemcpyHtoD: each part of the payload is credited on receipt, copied and
\* waited for; after a failure the rest is drained.
CopySync(w) ==
  /\ pc[w] = "sync" /\ staged > 0
  /\ staged' = staged - 1 /\ left' = left - 1
  /\ \/ Goto(w, IF left = 1 THEN "end" ELSE "sync")
     \/ Goto(w, "drain")
  /\ UNCHANGED <<queue, unread, credit, consumed, windowHeld, hold, holdUnits,
                 turn, job, fills, staging, live, raced>>

----------------------------------------------------------------------------
(* Context lifecycle calls.                                                *)

\* The worker of a lifecycle call has read its arguments.
StartLife(w, op) ==
  /\ turn = Nobody /\ pc[w] = "idle"
  /\ job' = [job EXCEPT ![w] = [op |-> op, ctx |-> IF op \in OfPrimary THEN Primary ELSE Created]]
  /\ Goto(w, IF op \in Teardown THEN "mark" ELSE "make")
  /\ UNCHANGED <<stream, turn, left, fills, staging, live, raced>>

\* cuCtxCreate or cuDevicePrimaryCtxRetain under lifecycle_mutex, and what is
\* noted of the context.
Make(w) ==
  /\ pc[w] = "make" /\ lifecycle = Nobody
  /\ LET c == job[w].ctx IN
       \/ UNCHANGED <<live, created, primary>>
       \/ /\ job[w].op = "create" /\ c \notin live
          /\ live' = live \cup {c} /\ created' = created \cup {c} /\ UNCHANGED primary
       \/ /\ job[w].op = "retain"
          /\ live' = live \cup {c} /\ primary' = c /\ UNCHANGED created
  /\ Goto(w, "idle") /\ job' = [job EXCEPT ![w] = NoJob]
  /\ UNCHANGED <<stream, turn, left, fills, lifecycle, active, teardownCtx, teardownDev, buf, raced>>

\* lifecycle_mutex, then lupine_server_prepare_context_destroy or
\* lupine_server_prepare_primary_context: operations are turned away from here on...
Mark(w) ==
  /\ pc[w] = "mark" /\ lifecycle = Nobody /\ lifecycle' = w /\ Goto(w, "quiesce")
  /\ IF job[w].op \in OfPrimary
       THEN teardownDev' = TRUE /\ UNCHANGED teardownCtx
       ELSE teardownCtx' = teardownCtx \cup {job[w].ctx} /\ UNCHANGED teardownDev
  /\ UNCHANGED <<stream, turn, job, left, fills, active, created, primary, buf, live, raced>>

\* The context whose staging goes: the one named, or the one believed primary.
Target(w) == IF job[w].op \in OfPrimary THEN primary ELSE job[w].ctx

\* ... and once the running one is over, what is idle is freed.
Quiesce(w) ==
  /\ pc[w] = "quiesce" /\ active = Nobody
  /\ LET c == Target(w) IN
       IF c = NoCtx
         THEN UNCHANGED <<teardownCtx, buf, windowHeld, consumed, credit>>
         ELSE /\ teardownCtx' = teardownCtx \cup {c}
              /\ \E sick \in BOOLEAN :
                   buf' = Retired(c, sick) /\ WindowRelease(RetireReleases(c, sick))
  /\ Goto(w, "cuda")
  /\ UNCHANGED <<queue, unread, staged, hold, holdUnits, turn, job, left, fills,
                 lifecycle, active, teardownDev, created, primary, live, raced>>

\* The CUDA call: the context ends, and with it its DMAs and its memory, or the
\* call fails, or (release, detach) the context has other users.
Cuda(w) ==
  /\ pc[w] = "cuda" /\ Goto(w, "finish")
  /\ LET c == job[w].ctx IN
       \/ UNCHANGED <<live, buf>>
       \/ /\ c \in live /\ live' = live \ {c}
          /\ buf' = [b \in Buf |->
                       IF buf[b].ctx = c /\ buf[b].mem = "pinned"
                         THEN [buf[b] EXCEPT !.mem = "gone", !.busy = FALSE] ELSE buf[b]]
  /\ UNCHANGED <<stream, turn, job, left, fills, lifecycle, active, teardownCtx, teardownDev,
                 created, primary, raced>>

\* Wrong: the handles are dropped with their window still charged.
ForgetReleasesNone(c) == 0

\* What lupine_async_htod_forget_context gives back.
ForgetReleases(c) == HeldBy(OfCtx(c))

\* lupine_server_forget_context_metadata
Forget(c) ==
  /\ buf' = Forgotten(c) /\ WindowRelease(ForgetReleases(c))
  /\ created' = created \ {c} /\ primary' = IF primary = c THEN NoCtx ELSE primary

\* lupine_server_finish_context_destroy, _detach and _primary_context: forget
\* what is certainly or possibly gone, and let operations in again.
Finish(w) ==
  /\ pc[w] = "finish"
  /\ LET c == Target(w)
         gone == job[w].op \in {"destroy", "reset"} \/ job[w].ctx \notin live IN
       /\ \/ /\ c # NoCtx /\ active = Nobody /\ Forget(c)
          \/ /\ c = NoCtx \/ ~gone
             /\ UNCHANGED <<buf, created, primary, windowHeld, consumed, credit>>
       /\ teardownCtx' = teardownCtx \ {c}
       /\ teardownDev' = (teardownDev /\ job[w].op \notin OfPrimary)
  /\ lifecycle' = Nobody /\ Goto(w, "idle") /\ job' = [job EXCEPT ![w] = NoJob]
  /\ UNCHANGED <<queue, unread, staged, hold, holdUnits, turn, left, fills,
                 active, live, raced>>

----------------------------------------------------------------------------
(* The GPU finishes a copy.                                                *)
GpuDone(b) ==
  /\ buf[b].busy /\ buf' = [buf EXCEPT ![b].busy = FALSE]
  /\ UNCHANGED <<stream, turn, pc, job, left, fills, lifecycle, active, teardownCtx, teardownDev,
                 created, primary, live, raced>>

Step(w) ==
  \/ StartCopy(w) \/ Acquire(w) \/ TakeSlot(w) \/ TakeSpill(w) \/ Fill(w) \/ Drain(w)
  \/ CopySync(w) \/ ReadEnd(w) \/ Reply(w)
  \/ Make(w) \/ Mark(w) \/ Quiesce(w) \/ Cuda(w) \/ Finish(w)

Next ==
  \/ \E w \in Worker : Step(w)
  \/ \E w \in Copier, op \in Copy \cap Calls, c \in Ctx : Issue(w, op, c)
  \/ \E w \in Manager, op \in Life \cap Calls : StartLife(w, op)
  \/ Receive \/ \E b \in Buf : GpuDone(b)

\* Workers run, and obtain a lock that keeps being released; the transport runs.
\* Nothing says that a copy in a ring slot or a spill ever finishes: its stream
\* may be waiting for the application.
Fairness ==
  /\ \A w \in Worker : SF_vars(Step(w))
  /\ WF_vars(Receive)

Spec == Init /\ [][Next]_vars /\ Fairness

----------------------------------------------------------------------------
TypeOK ==
  /\ queue \in {<<>>} \cup
       {<<[w |-> w, op |-> o, ctx |-> c]>> : w \in Worker, o \in Copy, c \in Ctx}
  /\ {unread, credit, staged, consumed, windowHeld, holdUnits} \subseteq 0 .. (Window + 2 * Units)
  /\ {turn, lifecycle, active} \subseteq Worker \cup {Nobody} /\ fills \in Buf \cup {Nobody}
  /\ left \in 0 .. Units
  /\ teardownCtx \cup created \cup live \subseteq Ctx /\ primary \in Ctx \cup {NoCtx}

\* Every path through a handler reads exactly the payload of its own request:
\* refused, out of memory, failing half-way or spilled, a copy leaves the
\* stream where the next request begins.
StreamInSync ==
  staged + unread = (IF queue = <<>> THEN 0 ELSE 1 + Units) + left

\* The window stays accounted for: window_held is what the buffers are charged
\* with plus the hold in progress, never more than half of the window, and
\* nothing else is missing from what the client may send.
WindowConserved ==
  /\ windowHeld = HeldBy(Buf) + holdUnits /\ windowHeld <= MaxHeld
  /\ credit + consumed + windowHeld = Window

\* Memory that a DMA may still read is never freed, nor offered as idle, nor does
\* the server read a payload into memory its context took away.  Not ensured if the
\* application copies in a context that it is destroying, nor if it copies in one it
\* failed to destroy: that one is then taken for the primary context, and the slots of
\* the real primary context outlive it.
StagingSafe ==
  /\ \A b \in Buf : buf[b].busy /\ ~raced => buf[b].mem = "pinned" /\ buf[b].st # "available"
  /\ fills # Nobody /\ ~raced => buf[fills].mem = "pinned"

\* Can a worker go on by itself, or the transport?  The guards of Step and Receive.
WorkerCanMove(w) ==
  \/ turn = Nobody /\ queue # <<>> /\ Head(queue).w = w /\ pc[w] = "idle" /\ staged > 0
  \/ pc[w] = "acquire" /\ (job[w].ctx \in teardownCtx \/ teardownDev \/ active = Nobody)
  \/ pc[w] \in {"slot", "end", "reply", "cuda"}
  \/ pc[w] \in {"fill", "sync"} /\ staged > 0
  \/ pc[w] = "drain" /\ (left = 0 \/ staged > 0)
  \/ pc[w] \in {"make", "mark"} /\ lifecycle = Nobody
  \/ pc[w] = "quiesce" /\ active = Nobody
  \/ /\ pc[w] = "finish"
     /\ \/ active = Nobody \/ Target(w) = NoCtx
        \/ job[w].op \notin {"destroy", "reset"} /\ job[w].ctx \in live
ReceiveCanMove == staged = 0 /\ unread > 0 /\ credit > 0

\* Whatever the GPU does not finish, and wherever copies and teardowns meet, they do
\* not all wait, for each other, for a lock or for a window that staging has used up:
\* nothing moves only when there is nothing left to do.
NoCircularWait ==
  \/ ReceiveCanMove \/ \E w \in Worker : WorkerCanMove(w)
  \/ queue = <<>> /\ \A w \in Worker : pc[w] = "idle"

\* Every call ends, though no asynchronous copy need ever finish: staging that
\* is never retired cannot close the window on the payload being read, and
\* copies and teardowns do not wait for each other in a circle.
CallsEnd == \A w \in Worker : pc[w] # "idle" ~> pc[w] = "idle"
=============================================================================
