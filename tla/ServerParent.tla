---------------------------- MODULE ServerParent ----------------------------
(***************************************************************************)
(* The server's parent process (main, server.cpp) and the broker through   *)
(* which its connection children exchange CUDA shareable descriptors       *)
(* (ipc.cpp).  The parent polls the listening socket and one broker socket *)
(* per child, forks a child per connection, reaps children, and on SIGTERM *)
(* terminates and waits for them.  It never touches CUDA; what a child     *)
(* does at its end is module ServerChild.                                  *)
(***************************************************************************)
EXTENDS Naturals, FiniteSets

CONSTANTS
  Child,     \* pids: bounds the connections
  MaxExport, \* bound on the allocations a child exports
  MaxFd,     \* descriptors the parent may have besides its fixed ones
  MaxBacklog \* bound on the connections that wait

ASSUME ParentAssumption ==
  /\ IsFiniteSet(Child)
  /\ MaxFd \in Nat /\ MaxBacklog \in Nat /\ MaxExport \in Nat

\* Tokens are random, hence distinct; a token names its exporter.
Token == Child \X (1..MaxExport)

VARIABLES
  pc, pid,               \* main: where it is; the child it forked last
  back,                  \* where lupine_reap_connection_children returns to
  term, chld,            \* lupine_parent_termination_requested, _child_exited
  termPend, chldPend,    \* SIGTERM, SIGCHLD pending while blocked
  backlog,               \* connections not yet accepted
  ready, listen,         \* what the last poll reported: broker sockets, listener
  known,                 \* connection_children
  broker,                \* broker_fds, by child
  parked,                \* static map `fds` of lupine_ipc_broker_parent_handle
  child,                 \* the processes
  sig,                   \* SIGTERM at a child: "none", "pending" (blocked), "taken"
  ex,                    \* a child's lupine_ipc_broker_exchange
  registered             \* tokens whose exporter was told that they are good

signals == <<term, chld, termPend, chldPend>>
parent == <<pc, pid, back, backlog, ready, listen, known, broker, parked>>
children == <<child, sig, ex, registered>>
vars == <<parent, signals, children>>

NoToken == <<>>
Idle == [st |-> "idle", cmd |-> "none", tok |-> NoToken, ok |-> FALSE]

Alive(c) == child[c] \in {"born", "run"}
Gone == pc \in {"exited", "dead"}

Init ==
  /\ pc = "test" /\ pid = "none" /\ back = "test"
  /\ term = FALSE /\ chld = FALSE /\ termPend = FALSE /\ chldPend = FALSE
  /\ backlog = 0 /\ ready = {} /\ listen = FALSE
  /\ known = {} /\ broker = {} /\ parked = {}
  /\ child = [c \in Child |-> "none"] /\ sig = [c \in Child |-> "none"]
  /\ ex = [c \in Child |-> Idle] /\ registered = {}

----------------------------------------------------------------------------
(* The loop of main                                                        *)

\* The flags are tested: reap first, then leave the loop on SIGTERM.
Test ==
  /\ pc = "test"
  /\ pc' = IF chld THEN "reap" ELSE IF term THEN "shut" ELSE "gap"
  /\ back' = "tested"
  /\ UNCHANGED <<pid, backlog, ready, listen, known, broker, parked, signals, children>>

TestedTerm ==
  /\ pc = "tested" /\ pc' = IF term THEN "shut" ELSE "gap"
  /\ UNCHANGED <<pid, back, backlog, ready, listen, known, broker, parked, signals, children>>

\* poll is entered; until here a signal only sets its flag.
PollEnter ==
  /\ pc = "gap" /\ pc' = "poll"
  /\ UNCHANGED <<pid, back, backlog, ready, listen, known, broker, parked, signals, children>>

Readable(c) == ex[c].st = "sent" \/ ~Alive(c)
Event == backlog > 0 \/ \E c \in broker : Readable(c)

\* Wrong: the listener waits until no child has a request.
PollReturnsBrokerFirst ==
  /\ pc = "poll" /\ Event
  /\ ready' = {c \in broker : Readable(c)}
  /\ listen' = (backlog > 0 /\ \A c \in broker : ~Readable(c))
  /\ pc' = "serve"
  /\ UNCHANGED <<pid, back, backlog, known, broker, parked, signals, children>>

PollReturns ==
  /\ pc = "poll" /\ Event
  /\ ready' = {c \in broker : Readable(c)} /\ listen' = (backlog > 0)
  /\ pc' = "serve"
  /\ UNCHANGED <<pid, back, backlog, known, broker, parked, signals, children>>

Fds == Cardinality(broker) + Cardinality(parked)

\* Wrong: a request without a descriptor is acknowledged.
ParksAlways(c) == TRUE

\* Does the parent get the descriptor that came with a registration?  The kernel
\* discards it when the table is full.
Parks(c) == Fds < MaxFd

\* lupine_ipc_broker_parent_handle: one request, and its reply unless the child
\* has gone meanwhile; the socket of a dead child is dropped, what it parked stays.
Serve(c) ==
  /\ pc = "serve" /\ c \in ready
  /\ ready' = ready \ {c}
  /\ LET asked == ex[c].st = "sent"
         regs == asked /\ ex[c].cmd = "register"
         ok == IF regs THEN Parks(c) ELSE ex[c].tok \in parked
     IN /\ parked' = IF regs /\ Fds < MaxFd THEN parked \cup {ex[c].tok} ELSE parked
        /\ broker' = IF asked /\ Alive(c) THEN broker ELSE broker \ {c}
        /\ ex' = IF ~asked THEN ex
                 ELSE [ex EXCEPT ![c] = IF Alive(c) THEN [@ EXCEPT !.st = "answered", !.ok = ok]
                                        ELSE Idle]
  /\ UNCHANGED <<pc, pid, back, backlog, listen, known, signals, child, sig, registered>>

Served ==
  /\ pc = "serve" /\ ready = {}
  /\ pc' = IF listen THEN "accept" ELSE "test"
  /\ UNCHANGED <<pid, back, backlog, ready, listen, known, broker, parked, signals, children>>

\* accept, and the test of the termination flag after it.
Accept ==
  /\ pc = "accept" /\ Fds < MaxFd
  /\ backlog' = backlog - 1
  /\ pc' = IF term THEN "shut" ELSE "fork"
  /\ UNCHANGED <<pid, back, ready, listen, known, broker, parked, signals, children>>

\* No descriptor is left: the connection stays in the backlog.
AcceptFails ==
  /\ pc = "accept" /\ Fds >= MaxFd
  /\ pc' = "test"
  /\ UNCHANGED <<pid, back, backlog, ready, listen, known, broker, parked, signals, children>>

\* With SIGTERM blocked: socketpair (two descriptors beside the connection's), fork.
Fork(c) ==
  /\ pc = "fork" /\ Fds + 3 <= MaxFd
  /\ child[c] = "none"
  /\ child' = [child EXCEPT ![c] = "born"]
  /\ broker' = broker \cup {c}
  /\ pid' = c /\ pc' = "forked"
  /\ UNCHANGED <<back, backlog, ready, listen, known, parked, signals, sig, ex, registered>>

\* socketpair or fork fails: the connection is closed, SIGTERM unblocked.
ForkFails ==
  /\ pc = "fork"
  /\ pc' = "test"
  /\ term' = (term \/ termPend) /\ termPend' = FALSE
  /\ UNCHANGED <<pid, back, backlog, ready, listen, known, broker, parked, chld, chldPend, children>>

\* The parent's half after fork.
ForkDone ==
  /\ pc = "forked"
  /\ known' = known \cup {pid} /\ pid' = "none"
  /\ pc' = "test"
  /\ term' = (term \/ termPend) /\ termPend' = FALSE
  /\ UNCHANGED <<back, backlog, ready, listen, broker, parked, chld, chldPend, children>>

----------------------------------------------------------------------------
(* lupine_reap_connection_children, with SIGCHLD blocked                   *)

\* Wrong: the pid stays in the set.
ReapOneKeeps(c) ==
  /\ pc = "reap" /\ child[c] = "zombie"
  /\ child' = [child EXCEPT ![c] = "gone"]
  /\ UNCHANGED <<parent, signals, sig, ex, registered>>

ReapOne(c) ==
  /\ pc = "reap" /\ child[c] = "zombie"
  /\ child' = [child EXCEPT ![c] = "gone"]
  /\ known' = known \ {c}
  /\ UNCHANGED <<pc, pid, back, backlog, ready, listen, broker, parked, signals, sig, ex, registered>>

ReapNone ==
  /\ pc = "reap" /\ \A c \in Child : child[c] # "zombie"
  /\ pc' = "clear"
  /\ UNCHANGED <<pid, back, backlog, ready, listen, known, broker, parked, signals, children>>

ReapClear ==
  /\ pc = "clear"
  /\ chld' = chldPend /\ chldPend' = FALSE
  /\ pc' = back
  /\ UNCHANGED <<pid, back, backlog, ready, listen, known, broker, parked, term, termPend, children>>

----------------------------------------------------------------------------
(* After the loop                                                          *)

\* The listener is closed, then the children that have ended are reaped.
Shut ==
  /\ pc = "shut"
  /\ backlog' = 0
  /\ pc' = "reap" /\ back' = "kill"
  /\ UNCHANGED <<pid, ready, listen, known, broker, parked, signals, children>>

SigtermTo(C) ==
  sig' = [c \in Child |-> IF c \notin C \/ ~Alive(c) \/ sig[c] = "taken" THEN sig[c]
                          ELSE IF child[c] = "born" THEN "pending" ELSE "taken"]

Kill ==
  /\ pc = "kill" /\ SigtermTo(known)
  /\ pc' = "wait"
  /\ UNCHANGED <<pid, back, backlog, ready, listen, known, broker, parked, signals, child, ex, registered>>

\* waitpid(-1, ...) blocks; the broker sockets are no longer read.
Wait(c) ==
  /\ pc = "wait" /\ known # {} /\ child[c] = "zombie"
  /\ child' = [child EXCEPT ![c] = "gone"]
  /\ known' = known \ {c}
  /\ UNCHANGED <<pc, pid, back, backlog, ready, listen, broker, parked, signals, sig, ex, registered>>

\* main returns, and with it go its sockets and the parked descriptors.
Exit ==
  /\ pc = "wait" /\ known = {}
  /\ pc' = "exited" /\ ready' = {} /\ broker' = {} /\ parked' = {}
  /\ UNCHANGED <<pid, back, backlog, listen, known, signals, children>>

----------------------------------------------------------------------------
(* The children                                                            *)

\* Wrong: SIGTERM is not blocked around fork, and until its own handler is
\* installed the child runs the one it inherited, which only sets a flag.
ChildStartUnmasked(c) ==
  /\ child[c] = "born"
  /\ child' = [child EXCEPT ![c] = "run"] /\ sig' = [sig EXCEPT ![c] = "none"]
  /\ UNCHANGED <<parent, signals, ex, registered>>

\* The child's half after fork: it drops the sockets of its siblings, installs its
\* own SIGTERM handler and unblocks the signal.
ChildStart(c) ==
  /\ child[c] = "born"
  /\ child' = [child EXCEPT ![c] = "run"]
  /\ sig' = [sig EXCEPT ![c] = IF @ = "pending" THEN "taken" ELSE @]
  /\ UNCHANGED <<parent, signals, ex, registered>>

\* lupine_ipc_broker_exchange sends a request: cuMemExportToShareableHandle ...
Export(c) ==
  /\ child[c] = "run" /\ ex[c] = Idle /\ ~Gone
  /\ LET n == Cardinality({t \in registered : t[1] = c}) + 1 IN
       /\ n <= MaxExport
       /\ ex' = [ex EXCEPT ![c] =
                   [st |-> "sent", cmd |-> "register", tok |-> <<c, n>>, ok |-> FALSE]]
  /\ UNCHANGED <<parent, signals, child, sig, registered>>

\* ... or cuMemImportFromShareableHandle of a token the client was given.
Import(c, t) ==
  /\ child[c] = "run" /\ ex[c] = Idle /\ ~Gone
  /\ ex' = [ex EXCEPT ![c] = [st |-> "sent", cmd |-> "get", tok |-> t, ok |-> FALSE]]
  /\ UNCHANGED <<parent, signals, child, sig, registered>>

\* The reply ends the exchange.
Reply(c) ==
  /\ child[c] = "run" /\ ex[c].st = "answered"
  /\ registered' = IF ex[c].cmd = "register" /\ ex[c].ok THEN registered \cup {ex[c].tok} ELSE registered
  /\ ex' = [ex EXCEPT ![c] = Idle]
  /\ UNCHANGED <<parent, signals, child, sig>>

\* The parent has gone: recvmsg fails, the reply is zeroed, and its status 0 reads
\* as success to an exporter (an importer has no descriptor).
ReplyLost(c) ==
  /\ child[c] = "run" /\ ex[c].st = "sent" /\ Gone
  /\ registered' = IF ex[c].cmd = "register" THEN registered \cup {ex[c].tok} ELSE registered
  /\ ex' = [ex EXCEPT ![c] = Idle]
  /\ UNCHANGED <<parent, signals, child, sig>>

\* Wrong: SIGCHLD is not blocked while the flag is cleared.
SigchldUnmasked == chld' = TRUE /\ UNCHANGED chldPend

\* SIGCHLD at the parent.
Sigchld ==
  IF pc \in {"reap", "clear"}
    THEN chldPend' = TRUE /\ UNCHANGED chld
    ELSE chld' = TRUE /\ UNCHANGED chldPend

\* A signal interrupts poll (EINTR).
Interrupt == pc' = IF pc = "poll" THEN "test" ELSE pc

Ends(c) ==
  /\ child' = [child EXCEPT ![c] = "zombie"]
  /\ Sigchld /\ Interrupt
  /\ UNCHANGED <<pid, back, backlog, ready, listen, known, broker, parked, term, termPend, sig, ex, registered>>

\* The client has gone, or SIGTERM was taken: the child ends once its workers have
\* returned, and a worker in an exchange has not.
ChildExit(c) == child[c] = "run" /\ ex[c] = Idle /\ Ends(c)

\* A child that cannot start, or is killed.
ChildCrash(c) == Alive(c) /\ Ends(c)

----------------------------------------------------------------------------
(* The outside                                                             *)

Connect ==
  /\ ~Gone /\ pc \notin {"kill", "wait"} /\ back # "kill"
  /\ backlog < MaxBacklog
  /\ backlog' = backlog + 1
  /\ UNCHANGED <<pc, pid, back, ready, listen, known, broker, parked, signals, children>>

\* SIGTERM, to the parent alone or to its process group.
Sigterm ==
  /\ ~term /\ ~termPend /\ ~Gone
  /\ IF pc \in {"fork", "forked"}
       THEN termPend' = TRUE /\ UNCHANGED term
       ELSE term' = TRUE /\ UNCHANGED termPend
  /\ Interrupt
  /\ \E group \in {{}, Child} : SigtermTo(group)
  /\ UNCHANGED <<pid, back, backlog, ready, listen, known, broker, parked, chld, chldPend, child, ex, registered>>

ParentCrash ==
  /\ ~Gone
  /\ pc' = "dead" /\ ready' = {} /\ broker' = {} /\ parked' = {}
  /\ UNCHANGED <<pid, back, backlog, listen, known, signals, children>>

Main ==
  \/ Test \/ TestedTerm \/ PollEnter \/ PollReturns \/ Served \/ Accept \/ AcceptFails
  \/ ForkFails \/ ForkDone \/ ReapNone \/ ReapClear \/ Shut \/ Kill \/ Exit
  \/ \E c \in Child : Serve(c) \/ Fork(c) \/ ReapOne(c) \/ Wait(c)

Proc(c) ==
  ChildStart(c) \/ Export(c) \/ Reply(c) \/ ReplyLost(c) \/ ChildExit(c) \/ ChildCrash(c)
  \/ \E t \in registered : Import(c, t)

Next == Main \/ (\E c \in Child : Proc(c)) \/ Connect \/ Sigterm \/ ParentCrash

Spec == Init /\ [][Next]_vars

\* The scheduler runs every process.  A child that took SIGTERM ends once it is not
\* in an exchange (ServerChild says when that may fail); an application need not
\* export, import or exit.
FairSpec ==
  /\ Spec /\ WF_vars(Main)
  /\ \A c \in Child : /\ WF_vars(ChildStart(c)) /\ WF_vars(Reply(c)) /\ WF_vars(ReplyLost(c))
                      /\ WF_vars(sig[c] = "taken" /\ ChildExit(c))

----------------------------------------------------------------------------
(* Properties.                                                             *)

\* A child's side of an exchange.
Exchange == [st : {"idle", "sent", "answered"}, cmd : {"none", "register", "get"},
             tok : Token \cup {NoToken}, ok : BOOLEAN]

\* Every variable has its type.
TypeOK ==
  /\ pc \in {"test", "tested", "gap", "poll", "serve", "accept", "fork", "forked", "reap",
             "clear", "shut", "kill", "wait", "exited", "dead"}
  /\ pid \in Child \cup {"none"} /\ back \in {"test", "tested", "kill"}
  /\ term \in BOOLEAN /\ chld \in BOOLEAN /\ termPend \in BOOLEAN /\ chldPend \in BOOLEAN
  /\ backlog \in 0..MaxBacklog /\ ready \subseteq broker /\ listen \in BOOLEAN
  /\ known \subseteq Child /\ broker \subseteq Child /\ parked \subseteq Token
  /\ child \in [Child -> {"none", "born", "run", "zombie", "gone"}]
  /\ sig \in [Child -> {"none", "pending", "taken"}]
  /\ ex \in [Child -> Exchange]
  /\ registered \subseteq Token

\* A child that has ended is always announced until it is reaped: wherever the
\* SIGCHLD hits, the flag or a pending signal is left of it.
ZombieAnnounced ==
  (\E c \in Child : child[c] = "zombie") /\ ~Gone
    => chld \/ chldPend \/ pc \in {"reap", "kill", "wait"} \/ back = "kill"

\* connection_children is exactly the set of children not yet waited for, except
\* between fork and the insertion: the shutdown's kill loop misses no child and
\* signals no recycled pid.
KnownExact ==
  ~Gone => LET unwaited == {c \in Child : child[c] \in {"born", "run", "zombie"}} IN
             known \subseteq unwaited /\ (pc # "forked" => known = unwaited)

\* While the parent lives, an exporter that was told that its token is good can be
\* imported from, by any connection ("an importing client can redeem the token
\* from any connection").
TokensRedeemable == ~Gone => registered \subseteq parked

\* The lost wake-up: SIGTERM came between the test of the flag and poll.
Asleep == pc = "poll" /\ ~Event

\* The parent waits for a child whose worker waits for the parent's reply.
Stuck == pc = "wait" /\ \E c \in known : ex[c].st = "sent"

\* Can main go on by itself, or a child on its way to its end?  The guards of Main and
\* of the children's steps that FairSpec schedules.
MainCanMove ==
  \/ pc \notin {"poll", "wait", "exited", "dead"}
  \/ pc = "poll" /\ Event
  \/ pc = "wait" /\ (known = {} \/ \E c \in Child : child[c] = "zombie")
ChildCanMove(c) ==
  \/ child[c] = "born"
  \/ /\ child[c] = "run"
     /\ \/ ex[c].st = "answered"
        \/ ex[c].st = "sent" /\ Gone
        \/ ex[c] = Idle /\ sig[c] = "taken"

\* The shutdown waits for nobody who has not heard of it: until the parent has gone,
\* it goes on, or sleeps in poll, or waits for a child that goes on to its end, but
\* for the one that waits for the parent's broker.
NobodyUntold ==
  Gone \/ MainCanMove \/ Asleep \/ Stuck \/ \E c \in known : ChildCanMove(c)

\* After SIGTERM the server exits ("waits for those children to exit"), unless it
\* sleeps in poll or waits for a child that waits for its broker.
ExitsUnlessStuck == term ~> Gone \/ [](Asleep \/ Stuck)

\* While connections wait the parent accepts one or shuts down, unless its
\* descriptors have run out for good: those of exports are never given back.
ServesUnlessFull ==
  backlog > 0 ~> pc \in {"fork", "shut"} \/ Gone \/ [](Fds >= MaxFd)

\* Everything a client had on the server is released when it disconnects
\* ("everything is released when the client disconnects"): no parked descriptor
\* keeps an allocation of a client that has gone.  Not ensured: a parked descriptor
\* is never closed.
ReleasedOnExit == \A t \in parked : child[t[1]] # "gone"
=============================================================================
