------------------------- MODULE ServerParentProofs -------------------------
(***************************************************************************)
(* The parent keeps account of its children, of its signals and of the     *)
(* descriptors it holds for them, for any number of children, descriptors  *)
(* and waiting connections.                                                *)
(*                                                                         *)
(* The three properties need what is known in the moments they do not      *)
(* speak of: who is missing from connection_children between fork and the  *)
(* insertion (Listed), what a zombie leaves behind while the flag is being *)
(* cleared (Announced), and what a reply that is still on its way promises *)
(* (Promised).                                                             *)
(*                                                                         *)
(* The last part is about the wait of the shutdown: whoever is waited for  *)
(* has been told (Signalled).                                              *)
(***************************************************************************)
EXTENDS ServerParent, FiniteSetTheorems, TLAPS

Unwaited == {c \in Child : child[c] \in {"born", "run", "zombie"}}

\* A connection that poll reported is still there when it is accepted.
Waiting == (pc = "serve" /\ listen) \/ pc = "accept" => backlog > 0

\* A registration names a token, and a good reply to it is about a parked one.
Promised ==
  \A c \in Child :
    /\ ex[c].cmd = "register" => ex[c].tok \in Token
    /\ ~Gone /\ ex[c].st = "answered" /\ ex[c].cmd = "register" /\ ex[c].ok
         => ex[c].tok \in parked

\* The child just forked, and only it, is not in the set yet.
Listed ==
  /\ ~Gone /\ pc # "forked" => known = Unwaited
  /\ pc = "forked" => pid \in Unwaited /\ known = Unwaited \ {pid}

\* The last reaping is that of the shutdown.
Shutting == back = "kill" => pc \in {"reap", "clear", "kill", "wait", "exited", "dead"}

\* Between the last waitpid and the clearing of the flag a zombie is announced by a
\* pending signal alone.
Announced ==
  /\ ZombieAnnounced
  /\ pc = "clear" /\ (\E c \in Child : child[c] = "zombie") => chldPend \/ back = "kill"

IInv == TypeOK /\ Waiting /\ Promised /\ Listed /\ Shutting /\ Announced /\ TokensRedeemable

----------------------------------------------------------------------------
\* A child that is in no exchange.
LEMMA IdleExchange ==
  /\ Idle \in Exchange
  /\ Idle.st = "idle" /\ Idle.cmd = "none"
BY DEF Idle, Exchange

\* main before its first loop: no child, no signal, nothing parked.
LEMMA InitInv == Init => IInv
<1> SUFFICES ASSUME Init PROVE IInv
  OBVIOUS
<1>1. TypeOK
  <2>1. ex \in [Child -> Exchange]
    BY IdleExchange DEF Init
  <2>2. /\ term \in BOOLEAN /\ chld \in BOOLEAN /\ termPend \in BOOLEAN /\ chldPend \in BOOLEAN
        /\ listen \in BOOLEAN
    BY DEF Init
  <2>3. backlog \in 0 .. MaxBacklog
    BY ParentAssumption DEF Init
  <2>4. /\ child \in [Child -> {"none", "born", "run", "zombie", "gone"}]
        /\ sig \in [Child -> {"none", "pending", "taken"}]
    BY DEF Init
  <2> QED
    BY <2>1, <2>2, <2>3, <2>4 DEF Init, TypeOK
<1>2. Waiting /\ Shutting /\ Announced /\ TokensRedeemable
  BY DEF Init, Waiting, Shutting, Announced, ZombieAnnounced, TokensRedeemable
<1>3. Promised
  BY DEF Init, Promised, Idle
<1>4. Listed
  BY DEF Init, Listed, Unwaited
<1> QED
  BY <1>1, <1>2, <1>3, <1>4 DEF IInv

\* The tokens handed out can be counted.
LEMMA RegisteredFinite == TypeOK => IsFiniteSet(registered)
<1>1. IsFiniteSet(1 .. MaxExport)
  BY FS_Interval, ParentAssumption
<1>2. IsFiniteSet(Token)
  BY <1>1, FS_Product, ParentAssumption DEF Token
<1> QED
  BY <1>2, FS_Subset DEF TypeOK

----------------------------------------------------------------------------
\* The flags are tested, poll is entered and returns, the broker sockets are done.
LEMMA FlagsInv ==
  ASSUME IInv, Test \/ TestedTerm \/ PollEnter \/ PollReturns \/ Served
  PROVE  IInv'
<1> USE DEF IInv, TypeOK, Waiting, Promised, Listed, Unwaited, Shutting, Announced,
             ZombieAnnounced, TokensRedeemable, Gone, signals, parent, children
<1>1. CASE Test
  <2>1. TypeOK'
    BY <1>1, ParentAssumption DEF Test
  <2>2. Waiting' /\ Shutting'
    BY <1>1 DEF Test
  <2>3. Promised' /\ TokensRedeemable'
    BY <1>1 DEF Test
  <2>4. Listed'
    BY <1>1 DEF Test
  <2>5. Announced'
    BY <1>1 DEF Test
  <2> QED
    BY <2>1, <2>2, <2>3, <2>4, <2>5
<1>2. CASE TestedTerm
  BY <1>2, ParentAssumption DEF TestedTerm
<1>3. CASE PollEnter
  BY <1>3, ParentAssumption DEF PollEnter
<1>4. CASE PollReturns
  <2>1. TypeOK'
    BY <1>4 DEF PollReturns
  <2>2. Waiting' /\ Shutting' /\ Announced'
    BY <1>4 DEF PollReturns
  <2>3. Promised' /\ TokensRedeemable' /\ Listed'
    BY <1>4 DEF PollReturns
  <2> QED
    BY <2>1, <2>2, <2>3
<1>5. CASE Served
  BY <1>5, ParentAssumption DEF Served
<1> QED
  BY <1>1, <1>2, <1>3, <1>4, <1>5

\* accept, and the end of fork: the new pid enters connection_children.
LEMMA AcceptInv ==
  ASSUME IInv, Accept \/ AcceptFails \/ ForkFails \/ ForkDone
  PROVE  IInv'
<1> USE DEF IInv, TypeOK, Waiting, Promised, Listed, Unwaited, Shutting, Announced,
             ZombieAnnounced, TokensRedeemable, Gone, signals, parent, children
<1>1. CASE Accept
  BY <1>1, ParentAssumption DEF Accept
<1>2. CASE AcceptFails
  BY <1>2, ParentAssumption DEF AcceptFails
<1>3. CASE ForkFails
  BY <1>3, ParentAssumption DEF ForkFails
<1>4. CASE ForkDone
  <2>1. TypeOK'
    BY <1>4, ParentAssumption DEF ForkDone
  <2>2. Waiting' /\ Shutting'
    BY <1>4 DEF ForkDone
  <2>3. Promised' /\ TokensRedeemable'
    BY <1>4 DEF ForkDone
  <2>4. Listed'
    BY <1>4 DEF ForkDone
  <2>5. Announced'
    BY <1>4 DEF ForkDone
  <2> QED
    BY <2>1, <2>2, <2>3, <2>4, <2>5
<1> QED
  BY <1>1, <1>2, <1>3, <1>4

\* The ends of lupine_reap_connection_children, and the shutdown.
LEMMA ReapInv ==
  ASSUME IInv, ReapNone \/ ReapClear \/ Shut \/ Kill \/ Exit
  PROVE  IInv'
<1> USE DEF IInv, TypeOK, Waiting, Promised, Listed, Unwaited, Shutting, Announced,
             ZombieAnnounced, TokensRedeemable, Gone, signals, parent, children
<1>1. CASE ReapNone
  BY <1>1, ParentAssumption DEF ReapNone
<1>2. CASE ReapClear
  BY <1>2, ParentAssumption DEF ReapClear
<1>3. CASE Shut
  BY <1>3, ParentAssumption DEF Shut
<1>4. CASE Kill
  BY <1>4, ParentAssumption DEF Kill, SigtermTo, Alive
<1>5. CASE Exit
  BY <1>5, ParentAssumption DEF Exit
<1> QED
  BY <1>1, <1>2, <1>3, <1>4, <1>5

\* A client connects, SIGTERM comes, the parent is killed.
LEMMA OutsideInv ==
  ASSUME IInv, Connect \/ Sigterm \/ ParentCrash
  PROVE  IInv'
<1> USE DEF IInv, TypeOK, Waiting, Promised, Listed, Unwaited, Shutting, Announced,
             ZombieAnnounced, TokensRedeemable, Gone, signals, parent, children
<1>1. CASE Connect
  BY <1>1, ParentAssumption DEF Connect
<1>2. CASE Sigterm
  <2>1. TypeOK'
    <3>1. PICK group \in {{}, Child} : SigtermTo(group)
      BY <1>2 DEF Sigterm
    <3>2. sig' \in [Child -> {"none", "pending", "taken"}]
      BY <3>1 DEF SigtermTo
    <3> QED
      BY <1>2, <3>2 DEF Sigterm, Interrupt
  <2>2. Waiting' /\ Shutting'
    BY <1>2 DEF Sigterm, Interrupt, SigtermTo, Alive
  <2>3. Promised' /\ TokensRedeemable'
    BY <1>2 DEF Sigterm, Interrupt, SigtermTo, Alive
  <2>4. Listed'
    BY <1>2 DEF Sigterm, Interrupt, SigtermTo, Alive
  <2>5. Announced'
    BY <1>2 DEF Sigterm, Interrupt, SigtermTo, Alive
  <2> QED
    BY <2>1, <2>2, <2>3, <2>4, <2>5
<1>3. CASE ParentCrash
  BY <1>3, ParentAssumption DEF ParentCrash
<1> QED
  BY <1>1, <1>2, <1>3

\* lupine_ipc_broker_parent_handle answers one request.
LEMMA ServeInv ==
  ASSUME IInv, NEW c \in Child, Serve(c)
  PROVE  IInv'
<1> USE DEF IInv, TypeOK, Waiting, Promised, Listed, Unwaited, Shutting, Announced,
             ZombieAnnounced, TokensRedeemable, Gone, signals, parent, children
<1>1. CASE Serve(c)
  <2> DEFINE asked == ex[c].st = "sent"
             regs == asked /\ ex[c].cmd = "register"
             ok == IF regs THEN Parks(c) ELSE ex[c].tok \in parked
  <2>a. ex[c] \in Exchange /\ ok \in BOOLEAN
    <3>1. Parks(c) \in BOOLEAN /\ (ex[c].tok \in parked) \in BOOLEAN
      BY DEF Parks
    <3>2. ex[c] \in Exchange
      OBVIOUS
    <3>3. ok = Parks(c) \/ ok = (ex[c].tok \in parked)
      OBVIOUS
    <3> QED
      BY <3>1, <3>2, <3>3
  <2>b. /\ parked' = IF regs /\ Fds < MaxFd THEN parked \cup {ex[c].tok} ELSE parked
        /\ ex' = IF ~asked THEN ex
                 ELSE [ex EXCEPT ![c] = IF Alive(c) THEN [ex[c] EXCEPT !.st = "answered", !.ok = ok]
                                        ELSE Idle]
    BY <1>1 DEF Serve
  <2>c. [ex[c] EXCEPT !.st = "answered", !.ok = ok] \in Exchange /\ Idle \in Exchange
    BY <2>a, IdleExchange DEF Exchange
  <2>d. ex' \in [Child -> Exchange]
    <3> HIDE DEF ok, asked
    <3> QED BY <2>b, <2>c
  <2>1. TypeOK'
    BY <1>1, <2>b, <2>d, ParentAssumption DEF Serve
  <2>2. Waiting' /\ Shutting'
    BY <1>1 DEF Serve, Parks, Alive, Idle, NoToken
  <2>3. Promised' /\ TokensRedeemable'
    <3>1. parked \subseteq parked' /\ UNCHANGED <<pc, registered>>
      BY <1>1, <2>b DEF Serve
    <3>2. SUFFICES ASSUME NEW d \in Child
                   PROVE  /\ ex'[d].cmd = "register" => ex'[d].tok \in Token
                          /\ ~Gone /\ ex'[d].st = "answered" /\ ex'[d].cmd = "register" /\ ex'[d].ok
                                => ex'[d].tok \in parked'
      BY <3>1
    <3>3. CASE d # c \/ ~asked
      BY <2>b, <3>1, <3>3
    <3>4. CASE d = c /\ asked /\ ~Alive(c)
      BY <2>b, <3>1, <3>4 DEF Idle
    <3>5. CASE d = c /\ asked /\ Alive(c)
      <4>1. ex'[d] = [ex[c] EXCEPT !.st = "answered", !.ok = ok]
        BY <2>b, <3>5
      <4>2. ex'[d].cmd = ex[c].cmd /\ ex'[d].tok = ex[c].tok /\ ex'[d].ok = ok
        BY <2>a, <4>1 DEF Exchange
      <4>3. ex[c].cmd = "register" => ex[c].tok \in Token /\ ex'[d].ok = (Fds < MaxFd)
        BY <3>5, <4>2 DEF Parks
      <4>4. ex[c].cmd = "register" /\ Fds < MaxFd => ex[c].tok \in parked'
        BY <2>b, <3>5
      <4> QED
        BY <4>2, <4>3, <4>4
    <3> QED
      BY <3>3, <3>4, <3>5
  <2>4. Listed'
    BY <1>1 DEF Serve, Parks, Alive, Idle, NoToken
  <2>5. Announced'
    BY <1>1 DEF Serve, Parks, Alive, Idle, NoToken
  <2> QED
    BY <2>1, <2>2, <2>3, <2>4, <2>5
<1> QED
  BY <1>1

\* fork, and a successful waitpid.
LEMMA ForkInv ==
  ASSUME IInv, NEW c \in Child, Fork(c) \/ ReapOne(c) \/ Wait(c)
  PROVE  IInv'
<1> USE DEF IInv, TypeOK, Waiting, Promised, Listed, Unwaited, Shutting, Announced,
             ZombieAnnounced, TokensRedeemable, Gone, signals, parent, children
<1>1. CASE Fork(c)
  BY <1>1, ParentAssumption DEF Fork
<1>2. CASE ReapOne(c)
  BY <1>2, ParentAssumption DEF ReapOne
<1>3. CASE Wait(c)
  BY <1>3, ParentAssumption DEF Wait
<1> QED
  BY <1>1, <1>2, <1>3

\* A child starts, asks its broker to register, reads the answer, or ends.
LEMMA ChildInv ==
  ASSUME IInv, NEW c \in Child, ChildStart(c) \/ Export(c) \/ Reply(c) \/ ReplyLost(c) \/ ChildExit(c) \/ ChildCrash(c)
  PROVE  IInv'
<1> USE DEF IInv, TypeOK, Waiting, Promised, Listed, Unwaited, Shutting, Announced,
             ZombieAnnounced, TokensRedeemable, Gone, signals, parent, children
<1>1. CASE ChildStart(c)
  BY <1>1, ParentAssumption DEF ChildStart
<1>2. CASE Export(c)
  <2> DEFINE n == Cardinality({t \in registered : t[1] = c}) + 1
             asks == [st |-> "sent", cmd |-> "register", tok |-> <<c, n>>, ok |-> FALSE]
  <2>a. n \in 1 .. MaxExport /\ ex' = [ex EXCEPT ![c] = asks]
    <3>1. IsFiniteSet({t \in registered : t[1] = c})
      BY RegisteredFinite, FS_Subset
    <3> QED
      BY <1>2, <3>1, FS_CardinalityType, ParentAssumption DEF Export
  <2>b. asks \in Exchange /\ asks.tok \in Token /\ asks.st = "sent"
    <3> HIDE DEF n
    <3> QED BY <2>a DEF Exchange, Token
  <2>1. TypeOK'
    <3> HIDE DEF asks
    <3> QED BY <1>2, <2>a, <2>b DEF Export
  <2>2. Waiting' /\ Shutting'
    BY <1>2 DEF Export, Idle, NoToken
  <2>3. Promised' /\ TokensRedeemable'
    <3> HIDE DEF asks
    <3> QED BY <1>2, <2>a, <2>b DEF Export
  <2>4. Listed'
    BY <1>2 DEF Export, Idle, NoToken
  <2>5. Announced'
    BY <1>2 DEF Export, Idle, NoToken
  <2> QED
    BY <2>1, <2>2, <2>3, <2>4, <2>5
<1>3. CASE Reply(c)
  <2>1. ex' = [ex EXCEPT ![c] = Idle] /\ ex' \in [Child -> Exchange]
    BY <1>3, IdleExchange DEF Reply
  <2>2. registered' \subseteq Token /\ (~Gone => registered' \subseteq parked)
    BY <1>3 DEF Reply
  <2>3. TypeOK'
    BY <1>3, <2>1, <2>2 DEF Reply
  <2>4. Waiting' /\ Listed' /\ Shutting' /\ Announced' /\ TokensRedeemable'
    BY <1>3, <2>2 DEF Reply
  <2>5. Promised'
    BY <1>3, <2>1, IdleExchange DEF Reply
  <2> QED
    BY <2>3, <2>4, <2>5
<1>4. CASE ReplyLost(c)
  <2>1. ex' = [ex EXCEPT ![c] = Idle] /\ ex' \in [Child -> Exchange]
    BY <1>4, IdleExchange DEF ReplyLost
  <2>2. registered' \subseteq Token /\ (~Gone => registered' \subseteq parked)
    BY <1>4 DEF ReplyLost
  <2>3. TypeOK'
    BY <1>4, <2>1, <2>2 DEF ReplyLost
  <2>4. Waiting' /\ Listed' /\ Shutting' /\ Announced' /\ TokensRedeemable'
    BY <1>4, <2>2 DEF ReplyLost
  <2>5. Promised'
    BY <1>4, <2>1, IdleExchange DEF ReplyLost
  <2> QED
    BY <2>3, <2>4, <2>5
<1>5. CASE ChildExit(c)
  <2>1. TypeOK'
    BY <1>5, ParentAssumption DEF ChildExit, Ends, Sigchld, Interrupt, Idle
  <2>2. Waiting' /\ Shutting'
    BY <1>5 DEF ChildExit, Ends, Sigchld, Interrupt, Idle
  <2>3. Promised' /\ TokensRedeemable'
    BY <1>5 DEF ChildExit, Ends, Sigchld, Interrupt, Idle
  <2>4. Listed'
    BY <1>5 DEF ChildExit, Ends, Sigchld, Interrupt, Idle
  <2>5. Announced'
    BY <1>5 DEF ChildExit, Ends, Sigchld, Interrupt, Idle
  <2> QED
    BY <2>1, <2>2, <2>3, <2>4, <2>5
<1>6. CASE ChildCrash(c)
  <2>1. TypeOK'
    BY <1>6, ParentAssumption DEF ChildCrash, Alive, Ends, Sigchld, Interrupt
  <2>2. Waiting' /\ Shutting'
    BY <1>6 DEF ChildCrash, Alive, Ends, Sigchld, Interrupt
  <2>3. Promised' /\ TokensRedeemable'
    BY <1>6 DEF ChildCrash, Alive, Ends, Sigchld, Interrupt
  <2>4. Listed'
    BY <1>6 DEF ChildCrash, Alive, Ends, Sigchld, Interrupt
  <2>5. Announced'
    BY <1>6 DEF ChildCrash, Alive, Ends, Sigchld, Interrupt
  <2> QED
    BY <2>1, <2>2, <2>3, <2>4, <2>5
<1> QED
  BY <1>1, <1>2, <1>3, <1>4, <1>5, <1>6

\* A child asks its broker for a descriptor.
LEMMA ImportInv ==
  ASSUME IInv, NEW c \in Child, NEW t \in registered, Import(c, t)
  PROVE  IInv'
<1> USE DEF IInv, TypeOK, Waiting, Promised, Listed, Unwaited, Shutting, Announced,
             ZombieAnnounced, TokensRedeemable, Gone, signals, parent, children
<1>1. CASE Import(c, t)
  <2> DEFINE asks == [st |-> "sent", cmd |-> "get", tok |-> t, ok |-> FALSE]
  <2>1. asks \in Exchange /\ asks.cmd = "get"
    BY DEF Exchange
  <2>2. ex' = [ex EXCEPT ![c] = asks]
    BY <1>1 DEF Import
  <2> HIDE DEF asks
  <2>3. TypeOK'
    BY <1>1, <2>1, <2>2 DEF Import
  <2>4. Waiting' /\ Listed' /\ Shutting' /\ Announced' /\ TokensRedeemable'
    BY <1>1 DEF Import
  <2>5. Promised'
    BY <1>1, <2>1, <2>2 DEF Import
  <2> QED
    BY <2>3, <2>4, <2>5
<1> QED
  BY <1>1

\* Every step of the server and of its surroundings keeps the invariant.
LEMMA StepInv == IInv /\ [Next]_vars => IInv'
<1> SUFFICES ASSUME IInv, [Next]_vars PROVE IInv'
  OBVIOUS
<1>1. CASE Main
  BY <1>1, FlagsInv, AcceptInv, ReapInv, ServeInv, ForkInv DEF Main
<1>2. CASE \E c \in Child : Proc(c)
  BY <1>2, ChildInv, ImportInv DEF Proc
<1>3. CASE Connect \/ Sigterm \/ ParentCrash
  BY <1>3, OutsideInv
<1>4. CASE UNCHANGED vars
  BY <1>4 DEF vars, signals, parent, children, IInv, TypeOK, Waiting, Promised, Listed, Unwaited,
              Shutting, Announced, ZombieAnnounced, TokensRedeemable, Gone
<1> QED
  BY <1>1, <1>2, <1>3, <1>4 DEF Next

\* So it always holds.
LEMMA Invariant == Spec => []IInv
BY InitInv, StepInv, PTL DEF Spec

----------------------------------------------------------------------------
\* Every variable of the parent, of its children and of their exchanges keeps its
\* type: in particular backlog never goes below zero, and what is parked or
\* reported as registered is a token.
THEOREM TypeCorrect == Spec => []TypeOK
<1>1. IInv => TypeOK
  BY DEF IInv
<1> QED
  BY <1>1, Invariant, PTL

\* connection_children is exactly the set of children that exist and have not been
\* waited for, wherever fork, SIGCHLD, SIGTERM and waitpid meet: the kill loop of the
\* shutdown misses none and signals no recycled pid, for any number of children.
THEOREM ChildrenKnown == Spec => []KnownExact
<1>1. IInv => KnownExact
  BY DEF IInv, Listed, Unwaited, KnownExact, Gone
<1> QED
  BY <1>1, Invariant, PTL

\* A child that has ended stays announced, by the flag of the SIGCHLD handler, by a
\* signal that is pending while the reaper has it blocked, or by the reaping that
\* goes on: lupine_reap_connection_children loses none when it clears the flag.
THEOREM NoZombieForgotten == Spec => []ZombieAnnounced
<1>1. IInv => ZombieAnnounced
  BY DEF IInv, Announced
<1> QED
  BY <1>1, Invariant, PTL

\* An exporter that lupine_ipc_broker_exchange told that its token is good can be
\* imported from as long as the parent lives, for any limit on descriptors.
THEOREM TokensGood == Spec => []TokensRedeemable
<1>1. IInv => TokensRedeemable
  BY DEF IInv
<1> QED
  BY <1>1, Invariant, PTL

----------------------------------------------------------------------------
(* The shutdown's wait.                                                    *)

\* SIGTERM is blocked in a child only until it runs, an exchange that is over has
\* left nothing, and whoever the parent waits for has been signalled.
Signalled ==
  \A c \in Child :
    /\ child[c] = "run" => sig[c] # "pending"
    /\ ex[c].st = "idle" => ex[c] = Idle
    /\ pc = "wait" /\ c \in known /\ Alive(c) => sig[c] # "none"

\* No child, no exchange.
LEMMA SignalledInit == Init => Signalled
BY DEF Init, Signalled, Idle

\* A signal to a set of children.
LEMMA SigtermReaches ==
  ASSUME TypeOK, Signalled, NEW C, SigtermTo(C), UNCHANGED <<child, ex>>,
         pc' = "wait" => (pc = "wait" \/ known \subseteq C), known' = known
  PROVE  Signalled'
<1> SUFFICES ASSUME NEW c \in Child
             PROVE  /\ child'[c] = "run" => sig'[c] # "pending"
                    /\ ex'[c].st = "idle" => ex'[c] = Idle
                    /\ pc' = "wait" /\ c \in known' /\ Alive(c)' => sig'[c] # "none"
  BY DEF Signalled
<1>1. sig'[c] = IF c \notin C \/ ~Alive(c) \/ sig[c] = "taken" THEN sig[c]
                ELSE IF child[c] = "born" THEN "pending" ELSE "taken"
  BY DEF SigtermTo
<1>2. Alive(c)' = Alive(c)
  BY DEF Alive
<1> QED
  BY <1>1, <1>2 DEF Signalled, TypeOK

\* Every step of main.
LEMMA SignalledMain ==
  ASSUME IInv, Signalled, Main
  PROVE  Signalled'
<1>0. TypeOK /\ Shutting
  BY DEF IInv
<1>1. CASE Kill
  BY <1>0, <1>1, SigtermReaches DEF Kill
<1>2. CASE \E c \in Child : Serve(c)
  <2>1. PICK c \in Child : Serve(c)
    BY <1>2
  <2>2. UNCHANGED <<pc, known, child, sig>>
    BY <2>1 DEF Serve
  <2>3. \A d \in Child : ex'[d].st = "idle" => ex'[d] = ex[d] \/ ex'[d] = Idle
    <3> SUFFICES ASSUME NEW d \in Child PROVE ex'[d] = ex[d] \/ ex'[d] = Idle \/ ex'[d].st = "answered"
      BY Zenon
    <3> DEFINE regs == ex[c].st = "sent" /\ ex[c].cmd = "register"
               ok == IF regs THEN Parks(c) ELSE ex[c].tok \in parked
    <3>1. ex' = IF ex[c].st # "sent" THEN ex
                ELSE [ex EXCEPT ![c] = IF Alive(c) THEN [ex[c] EXCEPT !.st = "answered", !.ok = ok]
                                       ELSE Idle]
      BY <2>1 DEF Serve
    <3> HIDE DEF ok
    <3>2. [ex[c] EXCEPT !.st = "answered", !.ok = ok].st = "answered"
      <4>1. ex[c] \in Exchange
        BY <1>0 DEF TypeOK
      <4> QED
        BY <4>1 DEF Exchange
    <3> QED
      BY <1>0, <3>1, <3>2 DEF TypeOK
  <2> QED
    BY <2>2, <2>3 DEF Signalled, Alive
<1>3. CASE \E c \in Child : Fork(c)
  <2>1. PICK c \in Child : Fork(c)
    BY <1>3
  <2>2. pc' = "forked" /\ UNCHANGED <<sig, ex>> /\ child' = [child EXCEPT ![c] = "born"]
    BY <2>1 DEF Fork
  <2> QED
    BY <1>0, <2>2 DEF Signalled, TypeOK
<1>4. CASE \E c \in Child : ReapOne(c) \/ Wait(c)
  <2>1. PICK c \in Child : ReapOne(c) \/ Wait(c)
    BY <1>4
  <2>2. UNCHANGED <<pc, sig, ex>> /\ child' = [child EXCEPT ![c] = "gone"] /\ known' \subseteq known
    BY <2>1 DEF ReapOne, Wait
  <2> QED
    BY <1>0, <2>2 DEF Signalled, TypeOK, Alive
<1>5. CASE \/ Test \/ TestedTerm \/ PollEnter \/ PollReturns \/ Served \/ Accept \/ AcceptFails
           \/ ForkFails \/ ForkDone \/ ReapNone \/ ReapClear \/ Shut \/ Exit
  <2>1. UNCHANGED <<child, sig, ex>>
    BY <1>5 DEF Test, TestedTerm, PollEnter, PollReturns, Served, Accept, AcceptFails, ForkFails,
                ForkDone, ReapNone, ReapClear, Shut, Exit, children
  <2>2. pc' # "wait"
    BY <1>0, <1>5 DEF Test, TestedTerm, PollEnter, PollReturns, Served, Accept, AcceptFails, ForkFails,
                      ForkDone, ReapNone, ReapClear, Shut, Exit, TypeOK
  <2> QED
    BY <2>1, <2>2 DEF Signalled
<1> QED
  BY <1>1, <1>2, <1>3, <1>4, <1>5 DEF Main

\* Every step of a child.
LEMMA SignalledProc ==
  ASSUME IInv, Signalled, NEW c \in Child, Proc(c)
  PROVE  Signalled'
<1>0. TypeOK
  BY DEF IInv
<1>1. CASE ChildStart(c)
  BY <1>0, <1>1 DEF ChildStart, Signalled, TypeOK, Alive, parent
<1>2. CASE Reply(c) \/ ReplyLost(c)
  <2>1. UNCHANGED <<pc, known, child, sig>> /\ ex' = [ex EXCEPT ![c] = Idle]
    BY <1>2 DEF Reply, ReplyLost, parent
  <2> QED
    BY <1>0, <2>1 DEF Signalled, TypeOK, Alive
<1>3. CASE Export(c) \/ \E t \in registered : Import(c, t)
  <2>1. UNCHANGED <<pc, known, child, sig>>
    BY <1>3 DEF Export, Import, parent
  <2>2. PICK r : ex' = [ex EXCEPT ![c] = r] /\ r.st # "idle"
    <3>1. CASE Export(c)
      <4> DEFINE n == Cardinality({t \in registered : t[1] = c}) + 1
                 asks == [st |-> "sent", cmd |-> "register", tok |-> <<c, n>>, ok |-> FALSE]
      <4>1. ex' = [ex EXCEPT ![c] = asks] /\ asks.st # "idle"
        BY <3>1 DEF Export
      <4> HIDE DEF asks
      <4> QED
        BY <4>1
    <3>2. CASE \E t \in registered : Import(c, t)
      <4>1. PICK t \in registered : Import(c, t)
        BY <3>2
      <4> DEFINE asks == [st |-> "sent", cmd |-> "get", tok |-> t, ok |-> FALSE]
      <4>2. ex' = [ex EXCEPT ![c] = asks] /\ asks.st # "idle"
        BY <4>1 DEF Import
      <4> HIDE DEF asks
      <4> QED
        BY <4>2
    <3> QED
      BY <1>3, <3>1, <3>2
  <2> QED
    BY <1>0, <2>1, <2>2 DEF Signalled, TypeOK, Alive
<1>4. CASE ChildExit(c) \/ ChildCrash(c)
  <2>1. /\ child' = [child EXCEPT ![c] = "zombie"] /\ UNCHANGED <<known, sig, ex>>
        /\ pc' = "wait" => pc = "wait"
    BY <1>4 DEF ChildExit, ChildCrash, Ends, Interrupt
  <2> QED
    BY <1>0, <2>1 DEF Signalled, TypeOK, Alive
<1> QED
  BY <1>1, <1>2, <1>3, <1>4 DEF Proc

\* Every step.
LEMMA SignalledNext == IInv /\ Signalled /\ [Next]_vars => Signalled'
<1> SUFFICES ASSUME IInv, Signalled, [Next]_vars PROVE Signalled'
  OBVIOUS
<1>0. TypeOK
  BY DEF IInv
<1>1. CASE Sigterm
  <2>1. PICK C : SigtermTo(C)
    BY <1>1 DEF Sigterm
  <2>2. UNCHANGED <<child, ex, known>> /\ (pc' = "wait" => pc = "wait")
    BY <1>1 DEF Sigterm, Interrupt
  <2> QED
    BY <1>0, <2>1, <2>2, SigtermReaches
<1>2. CASE Connect \/ ParentCrash \/ UNCHANGED vars
  <2>1. UNCHANGED <<known, child, sig, ex>> /\ (pc' = "wait" => pc = "wait")
    BY <1>2 DEF Connect, ParentCrash, vars, parent, children
  <2> QED
    BY <2>1 DEF Signalled, Alive
<1>3. CASE Main \/ \E c \in Child : Proc(c)
  BY <1>3, SignalledMain, SignalledProc
<1> QED
  BY <1>1, <1>2, <1>3 DEF Next

\* What the invariant says of a parent that cannot go on.
LEMMA ToldAll == IInv /\ Signalled => NobodyUntold
<1> SUFFICES ASSUME IInv, Signalled, ~Gone, ~MainCanMove, ~Asleep, ~Stuck
             PROVE  \E c \in known : ChildCanMove(c)
  BY DEF NobodyUntold
<1>0. TypeOK /\ Listed
  BY DEF IInv
<1>1. pc = "wait" /\ known # {} /\ \A c \in Child : child[c] # "zombie"
  BY DEF Gone, MainCanMove, Asleep
<1>2. PICK c \in known : TRUE
  BY <1>1
<1>3. c \in Child /\ child[c] \in {"born", "run"}
  BY <1>0, <1>1, <1>2 DEF Listed, Unwaited, Gone
<1>4. ex[c] \in Exchange /\ ex[c].st # "sent" /\ sig[c] \in {"none", "pending", "taken"}
  BY <1>0, <1>1, <1>2, <1>3 DEF TypeOK, Stuck
<1>5. ex[c].st = "answered" \/ ex[c] = Idle
  BY <1>3, <1>4 DEF Exchange, Signalled
<1>6. child[c] = "run" => sig[c] = "taken"
  BY <1>1, <1>2, <1>3, <1>4 DEF Signalled, Alive
<1>7. ChildCanMove(c)
  BY <1>3, <1>5, <1>6 DEF ChildCanMove
<1> QED
  BY <1>2, <1>7

\* The loop that waits for the children after SIGTERM waits for none that was forked,
\* started or signalled at the wrong moment: if neither the parent nor a child on its
\* way to its end can go on, it is the lost wake-up in poll or the child that waits
\* for the broker, and nothing else.
THEOREM ShutdownHeldUpOnlySo == Spec => []NobodyUntold
<1>1. Init => IInv /\ Signalled
  BY InitInv, SignalledInit
<1>2. IInv /\ Signalled /\ [Next]_vars => (IInv /\ Signalled)'
  BY StepInv, SignalledNext
<1> QED
  BY <1>1, <1>2, ToldAll, PTL DEF Spec
=============================================================================
