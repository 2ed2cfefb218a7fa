---------------------------- MODULE LeasesProofs ----------------------------
(***************************************************************************)
(* Proofs about the remote leases, for any number of launchers, hosts and  *)
(* late commands: whoever uses a lease holds it or was robbed of it, a     *)
(* lease is lost in three ways only, and a clean exit leaves no server.    *)
(***************************************************************************)
EXTENDS Leases, TLAPS

Point == {"idle", "check", "create", "ready", "app", "verify", "cleanup", "done"}
Process == [pc : Point, todo : SUBSET Host, cur : Host \cup {NoHost}, started : SUBSET Host,
            reuse : BOOLEAN, out : {"none", "ok", "error", "signal", "killed"}]
Box == [owner : Proc \cup {"nobody"}, mode : {"none", "ephemeral", "persistent"}, old : BOOLEAN]

Types ==
  /\ box \in [Host -> Box] /\ proc \in [Proc -> Process]
  /\ journal = NoJournal \/ journal \subseteq Host
  /\ late \subseteq {"run", "rm"} \X Proc \X Host
  /\ gc \in [at : {"idle", "clients", "rm"}, host : Host \cup {NoHost}]
  /\ gc.at # "idle" => gc.host \in Host

\* p has what it created at h, or somebody took it.
Holds(p, h) == box[h].owner = p \/ <<p, h>> \in lost

\* What p uses it holds, or it shares it (HeldUnlessLost, of one process).
Secure(p) ==
  \A h \in Host : Uses(p, h) => Holds(p, h) \/ (proc[p].reuse /\ h \notin proc[p].started)

\* Only a launcher that starts servers gets that far, and what it has just created is its
\* own; a launcher that has not begun, or is done, has nothing.
Launching(p) ==
  /\ proc[p].pc \in {"create", "ready"} => proc[p].cur \in Host /\ ~proc[p].reuse
  /\ proc[p].pc = "ready" => Holds(p, proc[p].cur)
  /\ p \in Runner /\ proc[p].pc = "idle" => proc[p] = Fresh /\ \A h \in Host : <<p, h>> \notin conn
  /\ proc[p].pc = "done" => proc[p].started = {}

\* The commands on the root start servers of their own and run no application, and while
\* one is under way that may stop them, no journal lists them.
Rooted(p) ==
  p = Root => /\ ~proc[p].reuse /\ proc[p].pc # "app"
              /\ proc[p].pc \in {"check", "create", "ready", "cleanup"} => journal = NoJournal

\* A launcher without an error knows every server it owns, no command of its own that
\* starts one is late, and it has not stopped early.
Accounted(p) ==
  p \in Runner =>
    /\ proc[p].out \in {"none", "ok"} =>
         \A h \in Host : /\ <<"run", p, h>> \notin late
                         /\ box[h].owner = p => \/ h \in proc[p].started
                                                \/ proc[p].pc = "ready" /\ proc[p].cur = h
    /\ proc[p].out = "ok" => proc[p].pc = "done"

Good(p) == Secure(p) /\ Launching(p) /\ Rooted(p) /\ Accounted(p)

IInv == Types /\ \A p \in Proc : Good(p)

\* Names that no process and no host has.
LEMMA Names ==
  /\ "nobody" \notin Proc /\ "gc" \notin Proc /\ "late" \notin Proc /\ NoHost \notin Host
  /\ Root \in Proc /\ Root \notin Runner /\ Runner \subseteq Proc
  /\ \A h \in Host : h \notin NoJournal
  BY LeasesAssumption DEF Proc, NoHost, NoJournal

\* Nobody has started anything.
LEMMA InitInv == Init => IInv
<1> SUFFICES ASSUME Init PROVE IInv
  OBVIOUS
<1>1. NoBox \in Box /\ Fresh \in Process /\ GcIdle \in [at : {"idle", "clients", "rm"}, host : Host \cup {NoHost}]
  BY DEF NoBox, Box, Fresh, Process, Point, GcIdle
<1>2. \A p \in Proc : proc[p] = Fresh
  BY DEF Init
<1>3. \A h \in Host : box[h] = NoBox
  BY DEF Init
<1>4. Types
  BY <1>1 DEF Init, Types, GcIdle
<1>5. ASSUME NEW p \in Proc
      PROVE  Good(p)
  <2>1. Secure(p)
    BY <1>2, Names DEF Init, Secure, Uses, Fresh
  <2>2. Launching(p) /\ Rooted(p)
    BY <1>2, Names DEF Init, Launching, Rooted, Fresh
  <2>3. Accounted(p)
    BY <1>2, <1>3, Names DEF Init, Accounted, Fresh, NoBox
  <2> QED
    BY <2>1, <2>2, <2>3 DEF Good
<1> QED
  BY <1>4, <1>5 DEF IInv

\* docker run by p, or late in p's name: p holds what it gets, and nobody else held it.
LEMMA RunKeeps ==
  ASSUME Types, NEW p \in Proc, NEW h \in Host, DockerRun(p, h)
  PROVE  /\ box' \in [Host -> Box]
         /\ \A q \in Proc, x \in Host : Holds(q, x) => Holds(q, x)'
         /\ box[h] = NoBox => box'[h].owner = p
         /\ \A x \in Host : box'[x].owner = box[x].owner \/ (x = h /\ box'[x].owner = p)
<1>1. CASE box[h] = NoBox
  <2>1. PICK y : y = [owner |-> p, mode |-> Mode(p), old |-> FALSE]
    OBVIOUS
  <2>2. y \in Box /\ y.owner = p
    BY <2>1 DEF Box, Mode
  <2>3. box' = [box EXCEPT ![h] = y] /\ lost' = lost \ {<<p, h>>}
    BY <1>1, <2>1 DEF DockerRun
  <2>4. box'[h] = y /\ box' \in [Host -> Box] /\ \A x \in Host \ {h} : box'[x] = box[x]
    BY <2>2, <2>3 DEF Types
  <2>5. box[h].owner = "nobody"
    BY <1>1 DEF NoBox
  <2> QED
    BY <2>2, <2>3, <2>4, <2>5, Names DEF Holds
<1>2. CASE box[h] # NoBox
  BY <1>2 DEF DockerRun, Types, Holds
<1> QED
  BY <1>1, <1>2

\* docker rm: whoever held it has lost it, unless it did this itself.
LEMMA RmKeeps ==
  ASSUME Types, NEW by, NEW h \in Host, DockerRm(by, h)
  PROVE  /\ box' \in [Host -> Box] /\ conn' \subseteq conn /\ \A q : <<q, h>> \notin conn'
         /\ \A q \in Proc, x \in Host : (q # by \/ x # h) /\ Holds(q, x) => Holds(q, x)'
         /\ \A x \in Host : box'[x].owner = box[x].owner \/ (x = h /\ box'[x].owner = "nobody")
         /\ box'[h].owner = "nobody"
<1>1. NoBox \in Box /\ NoBox.owner = "nobody"
  BY DEF NoBox, Box
<1>2. box' = [box EXCEPT ![h] = NoBox] /\ conn' = conn \ Clients(h)
  BY DEF DockerRm
<1>3. box'[h] = NoBox /\ box' \in [Host -> Box] /\ \A x \in Host \ {h} : box'[x] = box[x]
  BY <1>1, <1>2 DEF Types
<1>4. \A q : <<q, h>> \notin conn'
  BY <1>2 DEF Clients
<1>5. lost \subseteq lost' /\ (box[h] # NoBox /\ box[h].owner # by => <<box[h].owner, h>> \in lost')
  BY DEF DockerRm
<1>6. ASSUME NEW q \in Proc, NEW x \in Host, q # by \/ x # h, Holds(q, x)
      PROVE  Holds(q, x)'
  <2>1. CASE x # h
    BY <1>3, <1>5, <1>6, <2>1 DEF Holds
  <2>2. CASE x = h /\ <<q, x>> \in lost
    BY <1>5, <2>2 DEF Holds
  <2>3. CASE x = h /\ box[x].owner = q
    BY <1>1, <1>5, <1>6, <2>3, Names DEF Holds
  <2> QED
    BY <1>6, <2>1, <2>2, <2>3 DEF Holds
<1> QED
  BY <1>1, <1>2, <1>3, <1>4, <1>6

\* A process that does nothing, and from which nothing is taken, stays as it is.
LEMMA Bystander ==
  ASSUME NEW q \in Proc, Good(q), proc'[q] = proc[q], journal' = journal \/ journal' = NoJournal,
         \A h \in Host : <<q, h>> \in conn' => <<q, h>> \in conn,
         \A h \in Host : Holds(q, h) => Holds(q, h)',
         \/ proc[q].out \notin {"none", "ok"}
         \/ \A h \in Host : /\ box'[h].owner = q => box[h].owner = q
                            /\ <<"run", q, h>> \in late' => <<"run", q, h>> \in late
  PROVE  Good(q)'
<1>1. Secure(q)'
  BY Names DEF Good, Secure, Uses
<1>2. Launching(q)'
  BY DEF Good, Launching
<1>3. Rooted(q)'
  BY DEF Good, Rooted
<1>4. Accounted(q)'
  BY DEF Good, Accounted
<1> QED
  BY <1>1, <1>2, <1>3, <1>4 DEF Good

\* ... and so do all the others, when p takes a step at home.
LEMMA OthersStay ==
  ASSUME IInv, NEW p \in Proc, UNCHANGED <<box, lost>>, \A q \in Proc \ {p} : proc'[q] = proc[q],
         journal' = journal \/ journal' = NoJournal \/ p = Root,
         \A q \in Proc \ {p}, h \in Host : <<q, h>> \in conn' => <<q, h>> \in conn,
         \A q \in Proc \ {p}, h \in Host : <<"run", q, h>> \in late' => <<"run", q, h>> \in late
  PROVE  \A q \in Proc \ {p} : Good(q)'
<1> SUFFICES ASSUME NEW q \in Proc \ {p}
             PROVE  Good(q)'
  OBVIOUS
<1>1. Good(q) /\ proc'[q] = proc[q] /\ \A h \in Host : Holds(q, h) => Holds(q, h)'
  BY DEF IInv, Holds
<1>2. CASE journal' = journal \/ journal' = NoJournal
  BY <1>1, <1>2, Bystander
<1>3. CASE q # Root
  <2>1. Secure(q)'
    BY <1>1, <1>3 DEF Good, Secure, Uses
  <2>2. Launching(q)' /\ Rooted(q)'
    BY <1>1, <1>3 DEF Good, Launching, Rooted
  <2>3. Accounted(q)'
    BY <1>1 DEF Good, Accounted
  <2> QED
    BY <2>1, <2>2, <2>3 DEF Good
<1> QED
  BY <1>2, <1>3

\* A launcher turns to its clean-up with an error.
LEMMA UnwindGood ==
  ASSUME NEW p \in Proc, Good(p), UNCHANGED <<box, lost>>,
         proc'[p].pc = "cleanup", proc'[p].out \in {"error", "signal"},
         proc'[p].started = proc[p].started, proc'[p].reuse = proc[p].reuse,
         \A h \in Host : <<p, h>> \in conn' => <<p, h>> \in conn,
         journal' = journal \/ journal' = NoJournal, p = Root => journal' = NoJournal
  PROVE  Good(p)'
<1>1. Secure(p)'
  BY Names DEF Good, Secure, Uses, Holds
<1>2. Launching(p)' /\ Rooted(p)'
  BY DEF Good, Launching, Rooted
<1>3. Accounted(p)'
  BY DEF Accounted
<1> QED
  BY <1>1, <1>2, <1>3 DEF Good

\* A process that ends with an error, or the root's command, leaves what it has.
LEMMA EndsGood ==
  ASSUME NEW p \in Proc, Good(p), UNCHANGED <<box, lost>>,
         proc'[p].pc = (IF p = Root THEN "idle" ELSE "done"), proc'[p].started = {},
         proc'[p].reuse = proc[p].reuse, p \in Runner => proc'[p].out \notin {"none", "ok"},
         \A h \in Host : <<p, h>> \in conn' => <<p, h>> \in conn, UNCHANGED journal
  PROVE  Good(p)'
<1>1. Secure(p)'
  BY DEF Good, Secure, Uses, Holds
<1>2. Launching(p)' /\ Rooted(p)'
  BY Names DEF Good, Launching, Rooted
<1>3. Accounted(p)'
  BY DEF Accounted
<1> QED
  BY <1>1, <1>2, <1>3 DEF Good

\* The process record after the two ways out.
LEMMA UnwindStep ==
  ASSUME Types, NEW p \in Proc, NEW why \in {"error", "signal"}, Unwind(p, why)
  PROVE  /\ proc' \in [Proc -> Process] /\ \A q \in Proc \ {p} : proc'[q] = proc[q]
         /\ proc'[p].pc = "cleanup" /\ proc'[p].out = why
         /\ proc'[p].started = proc[p].started /\ proc'[p].reuse = proc[p].reuse
<1>1. PICK y : y = [proc[p] EXCEPT !.pc = "cleanup", !.todo = {}, !.cur = NoHost, !.out = why]
  OBVIOUS
<1>2. proc[p] \in Process
  BY DEF Types
<1>3. /\ y \in Process /\ y.pc = "cleanup" /\ y.out = why
      /\ y.started = proc[p].started /\ y.reuse = proc[p].reuse
  BY <1>1, <1>2 DEF Process, Point
<1>4. proc' = [proc EXCEPT ![p] = y]
  BY <1>1, <1>2 DEF Unwind, Types, Process
<1> QED
  BY <1>3, <1>4 DEF Types

LEMMA EndsStep ==
  ASSUME Types, NEW p \in Proc, NEW how \in {"none", "ok", "error", "signal", "killed"}, Ends(p, how)
  PROVE  /\ proc' \in [Proc -> Process] /\ \A q \in Proc \ {p} : proc'[q] = proc[q]
         /\ proc'[p].pc = (IF p = Root THEN "idle" ELSE "done") /\ proc'[p].out = how
         /\ proc'[p].started = {} /\ proc'[p].reuse = proc[p].reuse
<1>1. PICK y : y = [Fresh EXCEPT !.pc = IF p = Root THEN "idle" ELSE "done",
                                 !.reuse = proc[p].reuse, !.out = how]
  OBVIOUS
<1>2. proc[p].reuse \in BOOLEAN
  BY DEF Types, Process
<1>3. /\ y \in Process /\ y.pc = (IF p = Root THEN "idle" ELSE "done") /\ y.out = how
      /\ y.started = {} /\ y.reuse = proc[p].reuse
  BY <1>1, <1>2 DEF Fresh, Process, Point
<1>4. proc' = [proc EXCEPT ![p] = y]
  BY <1>1 DEF Ends
<1> QED
  BY <1>3, <1>4 DEF Types

\* A command that outlives its SSH call is one of p's.
LEMMA OutlivesStep ==
  ASSUME Types, NEW p \in Proc, NEW h \in Host, NEW cmd \in {"run", "rm"}, Outlives(cmd, p, h)
  PROVE  /\ late' \subseteq {"run", "rm"} \X Proc \X Host
         /\ \A q \in Proc \ {p}, x \in Host : <<"run", q, x>> \in late' => <<"run", q, x>> \in late
         /\ cmd = "rm" => \A q \in Proc, x \in Host : <<"run", q, x>> \in late' => <<"run", q, x>> \in late
  BY DEF Outlives, Types

\* A launcher, or an attach, begins with nothing.
LEMMA BeginKeeps ==
  ASSUME IInv, NEW p \in Proc, NEW H \in SUBSET Host, NEW r \in BOOLEAN, Begin(p, H, r)
  PROVE  IInv'
<1>1. PICK y : y = [Fresh EXCEPT !.pc = "check", !.todo = H, !.reuse = r]
  OBVIOUS
<1>2. /\ y \in Process /\ y.pc = "check" /\ y.started = {} /\ y.reuse = r /\ y.out = "none"
  BY <1>1 DEF Fresh, Process, Point
<1>3. proc' = [proc EXCEPT ![p] = y] /\ UNCHANGED <<box, conn, journal, gc, late, lost>>
  BY <1>1 DEF Begin
<1>4. proc'[p] = y /\ proc' \in [Proc -> Process] /\ \A q \in Proc \ {p} : proc'[q] = proc[q]
  BY <1>2, <1>3 DEF IInv, Types
<1>5. Types'
  BY <1>3, <1>4 DEF IInv, Types
<1>6. \A q \in Proc \ {p} : Good(q)'
  BY <1>3, <1>4, OthersStay
<1>7. Good(p) /\ proc[p].pc = "idle" /\ (p = Root => journal = NoJournal /\ ~r)
  BY DEF IInv, Begin
<1>8. p \in Runner => proc[p].started = {} /\ proc[p].out = "none"
  BY <1>7 DEF Good, Launching, Fresh
<1>9. Secure(p)'
  BY <1>2, <1>3, <1>4, <1>7, Names DEF Good, Secure, Uses, Holds, Launching, Rooted, Proc
<1>10. Launching(p)' /\ Rooted(p)'
  BY <1>2, <1>3, <1>4, <1>7 DEF Launching, Rooted
<1>11. Accounted(p)'
  BY <1>2, <1>3, <1>4, <1>7, <1>8 DEF Good, Accounted
<1> QED
  BY <1>5, <1>6, <1>9, <1>10, <1>11 DEF IInv, Good

\* A host passes start_server's checks, or the launcher gives up.
LEMMA CheckKeeps ==
  ASSUME IInv, NEW p \in Proc, NEW h \in Host, Check(p, h)
  PROVE  IInv'
<1>1. /\ Good(p) /\ proc[p] \in Process /\ proc[p].pc = "check" /\ ~proc[p].reuse
      /\ UNCHANGED <<box, conn, journal, gc, late, lost>>
  BY DEF IInv, Types, Check
<1>2. CASE Clients(h) = {} /\ box[h] = NoBox
  <2>1. PICK y : y = [proc[p] EXCEPT !.pc = "create", !.cur = h, !.todo = @ \ {h}]
    OBVIOUS
  <2>2. /\ y \in Process /\ y.pc = "create" /\ y.cur = h /\ y.started = proc[p].started
        /\ y.reuse = proc[p].reuse /\ y.out = proc[p].out
    BY <1>1, <2>1 DEF Process, Point
  <2>3. proc' = [proc EXCEPT ![p] = y]
    BY <1>1, <1>2, <2>1 DEF Check, IInv, Types, Process
  <2>4. proc'[p] = y /\ proc' \in [Proc -> Process] /\ \A q \in Proc \ {p} : proc'[q] = proc[q]
    BY <2>2, <2>3 DEF IInv, Types
  <2>5. Types'
    BY <1>1, <2>4 DEF IInv, Types
  <2>6. \A q \in Proc \ {p} : Good(q)'
    BY <1>1, <2>4, OthersStay
  <2>7. Secure(p)' /\ Launching(p)' /\ Rooted(p)'
    BY <1>1, <2>2, <2>4 DEF Good, Secure, Uses, Holds, Launching, Rooted
  <2>8. Accounted(p)'
    BY <1>1, <2>2, <2>4 DEF Good, Accounted
  <2> QED
    BY <2>5, <2>6, <2>7, <2>8 DEF IInv, Good
<1>3. CASE ~(Clients(h) = {} /\ box[h] = NoBox)
  <2>1. Fail(p)
    BY <1>3 DEF Check
  <2>2. proc'[p].pc = "cleanup" /\ proc' \in [Proc -> Process] /\ \A q \in Proc \ {p} : proc'[q] = proc[q]
    BY <2>1, UnwindStep DEF IInv, Fail
  <2>3. Types'
    BY <1>1, <2>2 DEF IInv, Types
  <2>4. \A q \in Proc \ {p} : Good(q)'
    BY <1>1, <2>2, OthersStay
  <2>5. Good(p)'
    BY <1>1, <2>1, UnwindStep, UnwindGood DEF IInv, Fail, Good, Rooted
  <2> QED
    BY <2>3, <2>4, <2>5 DEF IInv
<1> QED
  BY <1>2, <1>3

\* A persistent server may be shared, or the launcher gives up.
LEMMA CheckReuseKeeps ==
  ASSUME IInv, NEW p \in Proc, NEW h \in Host, CheckReuse(p, h)
  PROVE  IInv'
<1>1. /\ Good(p) /\ proc[p] \in Process /\ proc[p].pc = "check"
      /\ UNCHANGED <<box, conn, journal, gc, late, lost>>
  BY DEF IInv, Types, CheckReuse
<1>2. CASE Clients(h) = {} /\ box[h].mode = "persistent"
  <2>1. PICK y : y = [proc[p] EXCEPT !.todo = @ \ {h}]
    OBVIOUS
  <2>2. /\ y \in Process /\ y.pc = "check" /\ y.cur = proc[p].cur /\ y.started = proc[p].started
        /\ y.reuse = proc[p].reuse /\ y.out = proc[p].out
    BY <1>1, <2>1 DEF Process, Point
  <2>3. proc' = [proc EXCEPT ![p] = y]
    BY <1>1, <1>2, <2>1 DEF CheckReuse, IInv, Types, Process
  <2>4. proc'[p] = y /\ proc' \in [Proc -> Process] /\ \A q \in Proc \ {p} : proc'[q] = proc[q]
    BY <2>2, <2>3 DEF IInv, Types
  <2>5. Types'
    BY <1>1, <2>4 DEF IInv, Types
  <2>6. \A q \in Proc \ {p} : Good(q)'
    BY <1>1, <2>4, OthersStay
  <2>7. Secure(p)'
    BY <1>1, <2>2, <2>4 DEF Good, Secure, Uses, Holds
  <2>8. Launching(p)' /\ Rooted(p)'
    BY <1>1, <2>2, <2>4 DEF Good, Launching, Rooted, Holds
  <2>9. Accounted(p)'
    BY <1>1, <2>2, <2>4 DEF Good, Accounted
  <2> QED
    BY <2>5, <2>6, <2>7, <2>8, <2>9 DEF IInv, Good
<1>3. CASE ~(Clients(h) = {} /\ box[h].mode = "persistent")
  <2>1. Fail(p)
    BY <1>3 DEF CheckReuse
  <2>2. proc'[p].pc = "cleanup" /\ proc' \in [Proc -> Process] /\ \A q \in Proc \ {p} : proc'[q] = proc[q]
    BY <2>1, UnwindStep DEF IInv, Fail
  <2>3. Types'
    BY <1>1, <2>2 DEF IInv, Types
  <2>4. \A q \in Proc \ {p} : Good(q)'
    BY <1>1, <2>2, OthersStay
  <2>5. Good(p)'
    BY <1>1, <2>1, UnwindStep, UnwindGood DEF IInv, Fail, Good, Rooted
  <2> QED
    BY <2>3, <2>4, <2>5 DEF IInv
<1> QED
  BY <1>2, <1>3

\* docker run: the container is p's, or the launcher gives up.
LEMMA CreateKeeps ==
  ASSUME IInv, NEW p \in Proc, Create(p)
  PROVE  IInv'
<1>1. /\ Good(p) /\ proc[p] \in Process /\ proc[p].pc = "create" /\ proc[p].cur \in Host
      /\ ~proc[p].reuse /\ UNCHANGED <<conn, journal, gc, late>> /\ DockerRun(p, proc[p].cur) /\ Types
  BY DEF IInv, Types, Create, Good, Launching
<1>2. CASE box[proc[p].cur] = NoBox
  <2>1. PICK y : y = [proc[p] EXCEPT !.pc = "ready"]
    OBVIOUS
  <2>2. /\ y \in Process /\ y.pc = "ready" /\ y.cur = proc[p].cur /\ y.started = proc[p].started
        /\ y.reuse = proc[p].reuse /\ y.out = proc[p].out
    BY <1>1, <2>1 DEF Process, Point
  <2>3. proc' = [proc EXCEPT ![p] = y]
    BY <1>1, <1>2, <2>1 DEF Create, IInv, Types, Process
  <2>4. proc'[p] = y /\ proc' \in [Proc -> Process] /\ \A q \in Proc \ {p} : proc'[q] = proc[q]
    BY <2>2, <2>3 DEF IInv, Types
  <2>5. /\ box' \in [Host -> Box] /\ box'[proc[p].cur].owner = p
        /\ \A q \in Proc, x \in Host : Holds(q, x) => Holds(q, x)'
        /\ \A x \in Host : box'[x].owner = box[x].owner \/ (x = proc[p].cur /\ box'[x].owner = p)
    BY <1>1, <1>2, RunKeeps
  <2>6. Types'
    BY <1>1, <2>4, <2>5 DEF Types
  <2>7. ASSUME NEW q \in Proc \ {p}
        PROVE  Good(q)'
    <3>1. Good(q) /\ proc'[q] = proc[q] /\ \A x \in Host : box'[x].owner = q => box[x].owner = q
      BY <2>4, <2>5 DEF IInv
    <3> QED
      BY <1>1, <2>5, <3>1, Bystander
  <2>8. Secure(p)'
    BY <1>1, <2>2, <2>4, <2>5 DEF Good, Secure, Uses
  <2>9. Launching(p)' /\ Rooted(p)'
    BY <1>1, <2>2, <2>4, <2>5 DEF Good, Launching, Rooted, Holds
  <2>10. Accounted(p)'
    BY <1>1, <2>2, <2>4, <2>5 DEF Good, Accounted
  <2> QED
    BY <2>6, <2>7, <2>8, <2>9, <2>10 DEF IInv, Good
<1>3. CASE box[proc[p].cur] # NoBox
  <2>0. UNCHANGED <<box, lost>>
    BY <1>1, <1>3 DEF DockerRun
  <2>1. Fail(p)
    BY <1>3 DEF Create
  <2>2. proc'[p].pc = "cleanup" /\ proc' \in [Proc -> Process] /\ \A q \in Proc \ {p} : proc'[q] = proc[q]
    BY <2>1, UnwindStep DEF IInv, Fail
  <2>3. Types'
    BY <1>1, <2>0, <2>2 DEF IInv, Types
  <2>4. \A q \in Proc \ {p} : Good(q)'
    BY <1>1, <2>0, <2>2, OthersStay
  <2>5. Good(p)'
    BY <1>1, <2>0, <2>1, UnwindStep, UnwindGood DEF IInv, Fail, Good, Rooted
  <2> QED
    BY <2>3, <2>4, <2>5 DEF IInv
<1> QED
  BY <1>2, <1>3

\* docker run outlives its SSH call: the launcher gives up with an error.
LEMMA CreateTimesOutKeeps ==
  ASSUME IInv, NEW p \in Proc, CreateTimesOut(p)
  PROVE  IInv'
<1>1. /\ Good(p) /\ Types /\ proc[p].pc = "create" /\ proc[p].cur \in Host
      /\ UNCHANGED <<box, conn, journal, gc, lost>> /\ Fail(p) /\ Outlives("run", p, proc[p].cur)
  BY DEF IInv, CreateTimesOut, Good, Launching
<1>2. /\ late' \subseteq {"run", "rm"} \X Proc \X Host
      /\ \A q \in Proc \ {p}, x \in Host : <<"run", q, x>> \in late' => <<"run", q, x>> \in late
  BY <1>1, OutlivesStep
<1>3. /\ proc' \in [Proc -> Process] /\ \A q \in Proc \ {p} : proc'[q] = proc[q]
  BY <1>1, UnwindStep DEF Fail
<1>4. Types'
  BY <1>1, <1>2, <1>3 DEF Types
<1>5. \A q \in Proc \ {p} : Good(q)'
  BY <1>1, <1>2, <1>3, OthersStay
<1>6. Good(p)'
  BY <1>1, UnwindStep, UnwindGood DEF Fail, Good, Rooted
<1> QED
  BY <1>4, <1>5, <1>6 DEF IInv

\* The server is ready: the lease is in the list.
LEMMA ReadyKeeps ==
  ASSUME IInv, NEW p \in Proc, Ready(p)
  PROVE  IInv'
<1>1. /\ Good(p) /\ proc[p] \in Process /\ proc[p].pc = "ready" /\ proc[p].cur \in Host
      /\ UNCHANGED <<box, conn, journal, gc, late, lost>>
  BY DEF IInv, Types, Ready, Good, Launching
<1>2. PICK y : y = [proc[p] EXCEPT !.pc = "check", !.cur = NoHost, !.started = @ \cup {proc[p].cur}]
  OBVIOUS
<1>3. /\ y \in Process /\ y.pc = "check" /\ y.started = proc[p].started \cup {proc[p].cur}
      /\ y.reuse = proc[p].reuse /\ y.out = proc[p].out
  BY <1>1, <1>2 DEF Process, Point
<1>4. proc' = [proc EXCEPT ![p] = y]
  BY <1>1, <1>2 DEF Ready, IInv, Types, Process
<1>5. proc'[p] = y /\ proc' \in [Proc -> Process] /\ \A q \in Proc \ {p} : proc'[q] = proc[q]
  BY <1>3, <1>4 DEF IInv, Types
<1>6. Types'
  BY <1>1, <1>5 DEF IInv, Types
<1>7. \A q \in Proc \ {p} : Good(q)'
  BY <1>1, <1>5, OthersStay
<1>8. Secure(p)'
  BY <1>1, <1>3, <1>5 DEF Good, Secure, Launching, Uses, Holds
<1>9. Launching(p)' /\ Rooted(p)'
  BY <1>1, <1>3, <1>5 DEF Good, Launching, Rooted, Holds
<1>10. Accounted(p)'
  BY <1>1, <1>3, <1>5 DEF Good, Accounted
<1> QED
  BY <1>6, <1>7, <1>8, <1>9, <1>10 DEF IInv, Good

\* The server is not ready: the launcher gives up.
LEMMA ReadyFailsKeeps ==
  ASSUME IInv, NEW p \in Proc, ReadyFails(p)
  PROVE  IInv'
<1>1. /\ Good(p) /\ proc[p].pc = "ready" /\ UNCHANGED <<box, conn, journal, gc, late, lost>>
  BY DEF IInv, ReadyFails
<1>2. Fail(p)
  BY <1>1 DEF ReadyFails
<1>3. proc'[p].pc = "cleanup" /\ proc' \in [Proc -> Process] /\ \A q \in Proc \ {p} : proc'[q] = proc[q]
  BY <1>2, UnwindStep DEF IInv, Fail
<1>4. Types'
  BY <1>1, <1>3 DEF IInv, Types
<1>5. \A q \in Proc \ {p} : Good(q)'
  BY <1>1, <1>3, OthersStay
<1>6. Good(p)'
  BY <1>1, <1>2, UnwindStep, UnwindGood DEF IInv, Fail, Good, Rooted
<1> QED
  BY <1>4, <1>5, <1>6 DEF IInv

\* The application is launched.
LEMMA LaunchKeeps ==
  ASSUME IInv, NEW p \in Proc, Launch(p)
  PROVE  IInv'
<1>1. /\ Good(p) /\ proc[p] \in Process /\ proc[p].pc = "check" /\ p # Root
      /\ UNCHANGED <<box, conn, journal, gc, late, lost>>
  BY DEF IInv, Types, Launch
<1>2. PICK y : y = [proc[p] EXCEPT !.pc = "app"]
  OBVIOUS
<1>3. /\ y \in Process /\ y.pc = "app" /\ y.cur = proc[p].cur /\ y.started = proc[p].started
      /\ y.reuse = proc[p].reuse /\ y.out = proc[p].out
  BY <1>1, <1>2 DEF Process, Point
<1>4. proc' = [proc EXCEPT ![p] = y]
  BY <1>1, <1>2 DEF Launch, IInv, Types, Process
<1>5. proc'[p] = y /\ proc' \in [Proc -> Process] /\ \A q \in Proc \ {p} : proc'[q] = proc[q]
  BY <1>3, <1>4 DEF IInv, Types
<1>6. Types'
  BY <1>1, <1>5 DEF IInv, Types
<1>7. \A q \in Proc \ {p} : Good(q)'
  BY <1>1, <1>5, OthersStay
<1>8. Secure(p)'
  BY <1>1, <1>3, <1>5 DEF Good, Secure, Uses, Holds
<1>9. Launching(p)' /\ Rooted(p)'
  BY <1>1, <1>3, <1>5 DEF Good, Launching, Rooted, Holds
<1>10. Accounted(p)'
  BY <1>1, <1>3, <1>5 DEF Good, Accounted
<1> QED
  BY <1>6, <1>7, <1>8, <1>9, <1>10 DEF IInv, Good

\* The application connects to what its launcher may use.
LEMMA ConnectKeeps ==
  ASSUME IInv, NEW p \in Proc, NEW h \in Host, Connect(p, h)
  PROVE  IInv'
<1>1. /\ Good(p) /\ UNCHANGED <<box, journal, proc, gc, late, lost>> /\ conn' = conn \cup {<<p, h>>}
      /\ \/ proc[p].pc = "app" /\ (h \in proc[p].started \/ proc[p].reuse)
         \/ p = Root /\ h \in journal
  BY DEF IInv, Connect
<1>2. Types'
  BY <1>1 DEF IInv, Types
<1>3. \A q \in Proc \ {p} : Good(q)'
  BY <1>1, OthersStay
<1>4. Secure(p)'
  BY <1>1 DEF Good, Secure, Uses, Holds
<1>5. Launching(p)' /\ Rooted(p)'
  BY <1>1, Names DEF Good, Launching, Rooted, Holds
<1>6. Accounted(p)'
  BY <1>1 DEF Good, Accounted
<1> QED
  BY <1>2, <1>3, <1>4, <1>5, <1>6 DEF IInv, Good

\* The application ends, and its launcher cleans up.
LEMMA AppEndsKeeps ==
  ASSUME IInv, NEW p \in Proc, AppEnds(p)
  PROVE  IInv'
<1>1. /\ Good(p) /\ proc[p] \in Process /\ proc[p].pc = "app" /\ p # Root
      /\ conn' = conn \ Of(p) /\ UNCHANGED <<box, journal, gc, late, lost>>
  BY DEF IInv, Types, AppEnds, Good, Rooted
<1>2. PICK y : y = [proc[p] EXCEPT !.pc = "cleanup"]
  OBVIOUS
<1>3. /\ y \in Process /\ y.pc = "cleanup" /\ y.cur = proc[p].cur /\ y.started = proc[p].started
      /\ y.reuse = proc[p].reuse /\ y.out = proc[p].out
  BY <1>1, <1>2 DEF Process, Point
<1>4. proc' = [proc EXCEPT ![p] = y]
  BY <1>1, <1>2 DEF AppEnds, IInv, Types, Process
<1>5. proc'[p] = y /\ proc' \in [Proc -> Process] /\ \A q \in Proc \ {p} : proc'[q] = proc[q]
  BY <1>3, <1>4 DEF IInv, Types
<1>6. Types'
  BY <1>1, <1>5 DEF IInv, Types
<1>7. \A q \in Proc \ {p} : Good(q)'
  BY <1>1, <1>5, OthersStay
<1>8. Secure(p)'
  BY <1>1, <1>3, <1>5 DEF Good, Secure, Uses, Holds
<1>9. Launching(p)' /\ Rooted(p)'
  BY <1>1, <1>3, <1>5 DEF Good, Launching, Rooted, Holds
<1>10. Accounted(p)'
  BY <1>1, <1>3, <1>5 DEF Good, Accounted
<1> QED
  BY <1>6, <1>7, <1>8, <1>9, <1>10 DEF IInv, Good

\* Another application ends.
LEMMA OtherAppEndsKeeps ==
  ASSUME IInv, NEW p \in Proc, OtherAppEnds(p)
  PROVE  IInv'
<1>1. UNCHANGED <<box, journal, proc, gc, late, lost>> /\ conn' = conn \ Of(p)
  BY DEF OtherAppEnds
<1>2. Types'
  BY <1>1 DEF IInv, Types
<1>3. \A q \in Proc : Good(q)'
  BY <1>1, Bystander DEF IInv, Holds
<1> QED
  BY <1>2, <1>3 DEF IInv

\* The journal lists what the attach has started.
LEMMA InstallKeeps ==
  ASSUME IInv, Install
  PROVE  IInv'
<1>1. /\ Root \in Proc /\ Good(Root) /\ proc[Root] \in Process /\ proc[Root].pc = "check" /\ journal' = proc[Root].started
      /\ UNCHANGED <<box, conn, gc, late, lost>>
  BY Names DEF IInv, Types, Install
<1>2. PICK y : y = [proc[Root] EXCEPT !.pc = "verify"]
  OBVIOUS
<1>3. /\ y \in Process /\ y.pc = "verify" /\ y.cur = proc[Root].cur /\ y.started = proc[Root].started
      /\ y.reuse = proc[Root].reuse /\ y.out = proc[Root].out
  BY <1>1, <1>2 DEF Process, Point
<1>4. proc' = [proc EXCEPT ![Root] = y]
  BY <1>1, <1>2 DEF Install, Proc, IInv, Types, Process
<1>5. proc'[Root] = y /\ proc' \in [Proc -> Process] /\ \A q \in Proc \ {Root} : proc'[q] = proc[q]
  BY <1>1, <1>3, <1>4 DEF IInv, Types
<1>6. Types'
  BY <1>1, <1>5 DEF IInv, Types, Process
<1>7. \A q \in Proc \ {Root} : Good(q)'
  BY <1>1, <1>5, OthersStay, Names
<1>8. Secure(Root)'
  BY <1>1, <1>3, <1>5 DEF Good, Secure, Uses, Holds
<1>9. Launching(Root)' /\ Rooted(Root)'
  BY <1>1, <1>3, <1>5 DEF Good, Launching, Rooted, Holds
<1>10. Accounted(Root)'
  BY <1>1, <1>3, <1>5 DEF Good, Accounted
<1> QED
  BY <1>6, <1>7, <1>8, <1>9, <1>10 DEF IInv, Good

\* The attach succeeds.
LEMMA VerifyKeeps ==
  ASSUME IInv, Verify
  PROVE  IInv'
<1>1. /\ Root \in Proc /\ Types /\ Good(Root) /\ Ends(Root, "ok") /\ UNCHANGED <<box, conn, journal, gc, late, lost>>
  BY Names DEF IInv, Verify
<1>2. proc' \in [Proc -> Process] /\ \A q \in Proc \ {Root} : proc'[q] = proc[q]
  BY <1>1, EndsStep
<1>3. Types'
  BY <1>1, <1>2 DEF Types
<1>4. \A q \in Proc \ {Root} : Good(q)'
  BY <1>1, <1>2, OthersStay
<1>5. Good(Root)'
  BY <1>1, EndsStep, EndsGood, Names
<1> QED
  BY <1>3, <1>4, <1>5 DEF IInv

\* The attach fails: no journal, and the leases are cleaned up.
LEMMA InstallFailsKeeps ==
  ASSUME IInv, InstallFails
  PROVE  IInv'
<1>1. /\ Root \in Proc /\ Types /\ Good(Root) /\ Fail(Root) /\ UNCHANGED <<box, conn, gc, late, lost>>
      /\ (proc[Root].pc = "check" /\ UNCHANGED journal) \/ journal' = NoJournal
  BY Names DEF IInv, InstallFails
<1>2. journal' = NoJournal
  BY <1>1 DEF Good, Rooted
<1>3. proc' \in [Proc -> Process] /\ \A q \in Proc \ {Root} : proc'[q] = proc[q]
  BY <1>1, UnwindStep DEF Fail
<1>4. Types'
  BY <1>1, <1>2, <1>3 DEF Types
<1>5. \A q \in Proc \ {Root} : Good(q)'
  BY <1>1, <1>2, <1>3, OthersStay
<1>6. Good(Root)'
  BY <1>1, <1>2, UnwindStep, UnwindGood DEF Fail
<1> QED
  BY <1>4, <1>5, <1>6 DEF IInv

\* A detach takes over the leases of the journal.
LEMMA DetachKeeps ==
  ASSUME IInv, Detach
  PROVE  IInv'
<1>1. PICK y : y = [Fresh EXCEPT !.pc = "cleanup", !.started = journal]
  OBVIOUS
<1>2. /\ Root \in Proc /\ Types /\ Good(Root) /\ journal' = NoJournal /\ UNCHANGED <<box, conn, gc, late, lost>>
      /\ journal \subseteq Host /\ proc' = [proc EXCEPT ![Root] = y]
  BY <1>1, Names DEF IInv, Detach, Types
<1>3. y \in Process /\ y.pc = "cleanup" /\ y.started = journal /\ ~y.reuse
  BY <1>1, <1>2 DEF Fresh, Process, Point
<1>4. proc'[Root] = y /\ proc' \in [Proc -> Process] /\ \A q \in Proc \ {Root} : proc'[q] = proc[q]
  BY <1>2, <1>3 DEF Types
<1>5. Types'
  BY <1>2, <1>4 DEF Types
<1>6. \A q \in Proc \ {Root} : Good(q)'
  BY <1>2, <1>4, OthersStay
<1>7. Secure(Root)'
  BY <1>2, <1>3, <1>4, Names DEF Good, Secure, Uses, Holds, Rooted
<1>8. Launching(Root)' /\ Rooted(Root)' /\ Accounted(Root)'
  BY <1>2, <1>3, <1>4, Names DEF Launching, Rooted, Accounted
<1> QED
  BY <1>5, <1>6, <1>7, <1>8 DEF IInv, Good

\* A rescue forgets the leases.
LEMMA RescueKeeps ==
  ASSUME IInv, Rescue
  PROVE  IInv'
<1>1. journal' = NoJournal /\ UNCHANGED <<box, conn, proc, gc, late, lost>>
  BY DEF Rescue
<1>2. Types'
  BY <1>1 DEF IInv, Types
<1>3. \A q \in Proc : Good(q)'
  BY <1>1, Bystander DEF IInv, Holds
<1> QED
  BY <1>2, <1>3 DEF IInv

\* A lease is removed by name: who else held it has lost it, and p no longer uses it.
LEMMA StopKeeps ==
  ASSUME IInv, NEW p \in Proc, NEW h \in Host, Stop(p, h)
  PROVE  IInv'
<1>1. /\ Good(p) /\ proc[p] \in Process /\ proc[p].pc = "cleanup" /\ Types
      /\ DockerRm(p, h) /\ UNCHANGED <<journal, gc, late>>
  BY DEF IInv, Types, Stop
<1>2. PICK y : y = [proc[p] EXCEPT !.started = @ \ {h}]
  OBVIOUS
<1>3. /\ y \in Process /\ y.pc = "cleanup" /\ y.started = proc[p].started \ {h}
      /\ y.reuse = proc[p].reuse /\ y.out = proc[p].out
  BY <1>1, <1>2 DEF Process, Point
<1>4. proc' = [proc EXCEPT ![p] = y]
  BY <1>1, <1>2 DEF Stop, IInv, Types, Process
<1>5. proc'[p] = y /\ proc' \in [Proc -> Process] /\ \A q \in Proc \ {p} : proc'[q] = proc[q]
  BY <1>3, <1>4 DEF IInv, Types
<1>6. /\ box' \in [Host -> Box] /\ conn' \subseteq conn /\ <<p, h>> \notin conn'
      /\ \A q \in Proc, x \in Host : (q # p \/ x # h) /\ Holds(q, x) => Holds(q, x)'
      /\ \A x \in Host : box'[x].owner = box[x].owner \/ (x = h /\ box'[x].owner = "nobody")
      /\ box'[h].owner = "nobody"
  BY <1>1, RmKeeps
<1>7. Types'
  BY <1>1, <1>5, <1>6 DEF Types
<1>8. ASSUME NEW q \in Proc \ {p}
      PROVE  Good(q)'
  <2>1. Good(q) /\ proc'[q] = proc[q] /\ \A x \in Host : box'[x].owner = q => box[x].owner = q
    BY <1>5, <1>6, Names DEF IInv
  <2> QED
    BY <1>1, <1>6, <2>1, Bystander
<1>9. p = Root => journal' = NoJournal
  BY <1>1 DEF Good, Rooted
<1>10. Secure(p)'
  BY <1>1, <1>3, <1>5, <1>6, <1>9, Names DEF Good, Secure, Uses
<1>11. Launching(p)' /\ Rooted(p)'
  BY <1>1, <1>3, <1>5, <1>9 DEF Good, Launching, Rooted
<1>12. Accounted(p)'
  BY <1>1, <1>3, <1>5, <1>6, Names DEF Good, Accounted
<1> QED
  BY <1>7, <1>8, <1>10, <1>11, <1>12 DEF IInv, Good

\* A lease that could not be removed makes the run an error.
LEMMA StopFailsKeeps ==
  ASSUME IInv, NEW p \in Proc, NEW h \in Host, StopFails(p, h)
  PROVE  IInv'
<1>1. /\ Good(p) /\ proc[p] \in Process /\ proc[p].pc = "cleanup" /\ Types
      /\ UNCHANGED <<box, conn, journal, gc, lost>>
      /\ UNCHANGED late \/ Outlives("rm", p, h)
  BY DEF IInv, Types, StopFails
<1>2. PICK y : y = [proc[p] EXCEPT !.started = @ \ {h}, !.out = "error"]
  OBVIOUS
<1>3. /\ y \in Process /\ y.pc = "cleanup" /\ y.started = proc[p].started \ {h}
      /\ y.reuse = proc[p].reuse /\ y.out = "error"
  BY <1>1, <1>2 DEF Process, Point
<1>4. proc' = [proc EXCEPT ![p] = y]
  BY <1>1, <1>2 DEF StopFails, IInv, Types, Process
<1>5. proc'[p] = y /\ proc' \in [Proc -> Process] /\ \A q \in Proc \ {p} : proc'[q] = proc[q]
  BY <1>3, <1>4 DEF IInv, Types
<1>6. /\ late' \subseteq {"run", "rm"} \X Proc \X Host
      /\ \A q \in Proc, x \in Host : <<"run", q, x>> \in late' => <<"run", q, x>> \in late
  <2>1. CASE UNCHANGED late
    BY <1>1, <2>1 DEF Types
  <2>2. CASE Outlives("rm", p, h)
    BY <1>1, <2>2, OutlivesStep
  <2> QED
    BY <1>1, <2>1, <2>2
<1>7. Types'
  BY <1>1, <1>5, <1>6 DEF Types
<1>8. \A q \in Proc \ {p} : Good(q)'
  BY <1>1, <1>5, <1>6, OthersStay
<1>9. Secure(p)'
  BY <1>1, <1>3, <1>5 DEF Good, Secure, Uses, Holds
<1>10. Launching(p)' /\ Rooted(p)' /\ Accounted(p)'
  BY <1>1, <1>3, <1>5 DEF Good, Launching, Rooted, Accounted
<1> QED
  BY <1>7, <1>8, <1>9, <1>10 DEF IInv, Good

\* The clean-up is over: without an error, p owns nothing any more.
LEMMA FinishKeeps ==
  ASSUME IInv, NEW p \in Proc, Finish(p)
  PROVE  IInv'
<1>1. PICK how : how = IF proc[p].out = "none" THEN "ok" ELSE proc[p].out
  OBVIOUS
<1>2. /\ Good(p) /\ Types /\ proc[p].pc = "cleanup" /\ proc[p].started = {} /\ Ends(p, how)
      /\ UNCHANGED <<box, conn, journal, gc, late, lost>>
  BY <1>1 DEF IInv, Finish
<1>3. how \in {"none", "ok", "error", "signal", "killed"}
  BY <1>1, <1>2 DEF Types, Process
<1>4. /\ proc' \in [Proc -> Process] /\ \A q \in Proc \ {p} : proc'[q] = proc[q]
      /\ proc'[p].pc = (IF p = Root THEN "idle" ELSE "done") /\ proc'[p].out = how
      /\ proc'[p].started = {} /\ proc'[p].reuse = proc[p].reuse
  BY <1>2, <1>3, EndsStep
<1>5. Types'
  BY <1>2, <1>4 DEF Types
<1>6. \A q \in Proc \ {p} : Good(q)'
  BY <1>2, <1>4, OthersStay
<1>7. Secure(p)'
  BY <1>2, <1>4 DEF Good, Secure, Uses, Holds
<1>8. Launching(p)' /\ Rooted(p)'
  BY <1>2, <1>4, Names DEF Good, Launching, Rooted
<1>9. Accounted(p)'
  BY <1>1, <1>2, <1>4, Names DEF Good, Accounted
<1> QED
  BY <1>5, <1>6, <1>7, <1>8, <1>9 DEF IInv, Good

\* A signal ends the launch, or its clean-up, with an error.
LEMMA InterruptKeeps ==
  ASSUME IInv, NEW p \in Proc, Interrupt(p)
  PROVE  IInv'
<1>1. /\ Good(p) /\ Types /\ p # Root /\ conn' = conn \ Of(p) /\ UNCHANGED <<box, journal, gc, lost>>
      /\ IF proc[p].pc = "cleanup" THEN Ends(p, "signal") ELSE Unwind(p, "signal")
      /\ UNCHANGED late \/ (proc[p].pc = "create" /\ Outlives("run", p, proc[p].cur))
  BY DEF IInv, Interrupt
<1>2. /\ late' \subseteq {"run", "rm"} \X Proc \X Host
      /\ \A q \in Proc \ {p}, x \in Host : <<"run", q, x>> \in late' => <<"run", q, x>> \in late
  <2>1. CASE UNCHANGED late
    BY <1>1, <2>1 DEF Types
  <2>2. CASE proc[p].pc = "create" /\ Outlives("run", p, proc[p].cur)
    <3>1. proc[p].cur \in Host
      BY <1>1, <2>2 DEF Good, Launching
    <3> QED
      BY <1>1, <2>2, <3>1, OutlivesStep
  <2> QED
    BY <1>1, <2>1, <2>2
<1>3. proc' \in [Proc -> Process] /\ \A q \in Proc \ {p} : proc'[q] = proc[q]
  BY <1>1, UnwindStep, EndsStep
<1>4. Types'
  BY <1>1, <1>2, <1>3 DEF Types
<1>5. \A q \in Proc \ {p} : Good(q)'
  BY <1>1, <1>2, <1>3, OthersStay
<1>6. CASE proc[p].pc = "cleanup"
  <2>1. /\ proc'[p].pc = (IF p = Root THEN "idle" ELSE "done") /\ proc'[p].out = "signal"
        /\ proc'[p].started = {} /\ proc'[p].reuse = proc[p].reuse
    BY <1>1, <1>6, EndsStep
  <2>2. Good(p)'
    BY <1>1, <2>1, EndsGood
  <2> QED
    BY <1>4, <1>5, <2>2 DEF IInv
<1>7. CASE proc[p].pc # "cleanup"
  <2>1. /\ proc'[p].pc = "cleanup" /\ proc'[p].out = "signal"
        /\ proc'[p].started = proc[p].started /\ proc'[p].reuse = proc[p].reuse
    BY <1>1, <1>7, UnwindStep
  <2>2. Good(p)'
    BY <1>1, <2>1, UnwindGood
  <2> QED
    BY <1>4, <1>5, <2>2 DEF IInv
<1> QED
  BY <1>6, <1>7

\* A killed process leaves its servers, its application and its journal.
LEMMA KillKeeps ==
  ASSUME IInv, NEW p \in Proc, Kill(p)
  PROVE  IInv'
<1>1. Good(p) /\ Types /\ Ends(p, "killed") /\ UNCHANGED <<box, conn, journal, gc, late, lost>>
  BY DEF IInv, Kill
<1>2. /\ proc' \in [Proc -> Process] /\ \A q \in Proc \ {p} : proc'[q] = proc[q]
      /\ proc'[p].pc = (IF p = Root THEN "idle" ELSE "done") /\ proc'[p].out = "killed"
      /\ proc'[p].started = {} /\ proc'[p].reuse = proc[p].reuse
  BY <1>1, EndsStep
<1>3. Types'
  BY <1>1, <1>2 DEF Types
<1>4. \A q \in Proc \ {p} : Good(q)'
  BY <1>1, <1>2, OthersStay
<1>5. Good(p)'
  BY <1>1, <1>2, EndsGood
<1> QED
  BY <1>3, <1>4, <1>5 DEF IInv

\* The collector looks at a host.
LEMMA GcLooksKeeps ==
  ASSUME IInv, \/ GcClients \/ \E h \in Host : GcInspect(h)
  PROVE  IInv'
<1>1. UNCHANGED <<box, conn, journal, proc, late, lost>>
  BY DEF GcClients, GcInspect
<1>2. /\ gc' \in [at : {"idle", "clients", "rm"}, host : Host \cup {NoHost}]
      /\ gc'.at # "idle" => gc'.host \in Host
  <2>1. CASE \E h \in Host : GcInspect(h)
    BY <2>1 DEF GcInspect
  <2>2. CASE GcClients
    BY <2>2 DEF GcClients, GcIdle, IInv, Types
  <2> QED
    BY <2>1, <2>2
<1>3. Types'
  BY <1>1, <1>2 DEF IInv, Types
<1>4. \A q \in Proc : Good(q)'
  BY <1>1, Bystander DEF IInv, Holds
<1> QED
  BY <1>3, <1>4 DEF IInv

\* The collector removes what has the name.
LEMMA GcRmKeeps ==
  ASSUME IInv, GcRm
  PROVE  IInv'
<1>1. /\ Types /\ gc.host \in Host /\ DockerRm("gc", gc.host) /\ gc' = GcIdle /\ UNCHANGED <<journal, proc, late>>
  BY DEF IInv, Types, GcRm
<1>2. /\ box' \in [Host -> Box] /\ conn' \subseteq conn
      /\ \A q \in Proc, x \in Host : Holds(q, x) => Holds(q, x)'
      /\ \A x \in Host : box'[x].owner = box[x].owner \/ box'[x].owner = "nobody"
  BY <1>1, RmKeeps, Names
<1>3. Types'
  BY <1>1, <1>2 DEF Types, GcIdle
<1>4. \A q \in Proc : Good(q)'
  BY <1>1, <1>2, Bystander, Names DEF IInv
<1> QED
  BY <1>3, <1>4 DEF IInv

\* A container grows old.
LEMMA AgeKeeps ==
  ASSUME IInv, NEW h \in Host, Age(h)
  PROVE  IInv'
<1>1. UNCHANGED <<conn, journal, proc, gc, late, lost>>
  BY DEF Age
<1>2. box' \in [Host -> Box] /\ \A x \in Host : box'[x].owner = box[x].owner
  BY DEF IInv, Types, Age, Box
<1>3. Types'
  BY <1>1, <1>2 DEF IInv, Types
<1>4. \A q \in Proc, x \in Host : Holds(q, x) => Holds(q, x)'
  BY <1>1, <1>2 DEF Holds
<1>5. \A q \in Proc : Good(q)'
  BY <1>1, <1>2, <1>4, Bystander DEF IInv
<1> QED
  BY <1>3, <1>5 DEF IInv

\* A late docker run gives a launcher that has failed a server; a late docker rm takes one.
LEMMA LateCommandKeeps ==
  ASSUME IInv, NEW c \in late, LateCommand(c)
  PROVE  IInv'
<1>1. /\ Types /\ UNCHANGED <<journal, proc, gc>> /\ late' \subseteq late
      /\ IF c[1] = "run" THEN DockerRun(c[2], c[3]) /\ UNCHANGED conn ELSE DockerRm("late", c[3])
  BY DEF IInv, LateCommand
<1>2. c[2] \in Proc /\ c[3] \in Host /\ c = <<c[1], c[2], c[3]>>
  BY <1>1 DEF Types
<1>3. /\ box' \in [Host -> Box] /\ conn' \subseteq conn
      /\ \A q \in Proc, x \in Host : Holds(q, x) => Holds(q, x)'
      /\ \A q \in Proc, x \in Host : box'[x].owner = q /\ box[x].owner # q => c[1] = "run" /\ c[2] = q
  <2>1. CASE c[1] = "run"
    BY <1>1, <1>2, <2>1, RunKeeps
  <2>2. CASE c[1] # "run"
    BY <1>1, <1>2, <2>2, RmKeeps, Names
  <2> QED
    BY <2>1, <2>2
<1>4. Types'
  BY <1>1, <1>3 DEF Types
<1>5. ASSUME NEW q \in Proc
      PROVE  Good(q)'
  <2>1. Good(q) /\ proc'[q] = proc[q] /\ \A h \in Host : <<q, h>> \in conn' => <<q, h>> \in conn
    BY <1>1, <1>3 DEF IInv
  <2>2. CASE ~(c[1] = "run" /\ c[2] = q)
    BY <1>1, <1>3, <2>1, <2>2, Bystander
  <2>3. CASE c[1] = "run" /\ c[2] = q
    <3>1. CASE q \in Runner
      <4>1. proc[q].out \notin {"none", "ok"}
        BY <1>2, <2>1, <2>3, <3>1 DEF Good, Accounted
      <4> QED
        BY <1>1, <1>3, <2>1, <4>1, Bystander
    <3>2. CASE q \notin Runner
      <4>1. Secure(q)' /\ Launching(q)' /\ Rooted(q)' /\ Accounted(q)'
        BY <1>1, <1>3, <2>1, <3>2 DEF Good, Secure, Uses, Launching, Rooted, Accounted
      <4> QED
        BY <4>1 DEF Good
    <3> QED
      BY <3>1, <3>2
  <2> QED
    BY <2>2, <2>3
<1> QED
  BY <1>4, <1>5 DEF IInv

\* Nothing happens.
LEMMA StutterKeeps ==
  ASSUME IInv, UNCHANGED vars
  PROVE  IInv'
<1>1. Types'
  BY DEF IInv, Types, vars
<1>2. \A q \in Proc : Good(q)'
  BY Bystander DEF IInv, Holds, vars
<1> QED
  BY <1>1, <1>2 DEF IInv

\* Every step keeps the invariant.
LEMMA NextInv == IInv /\ [Next]_vars => IInv'
<1> SUFFICES ASSUME IInv, [Next]_vars
             PROVE  IInv'
  OBVIOUS
<1>1. CASE \E p \in Proc : Step(p)
  BY <1>1, CreateKeeps, CreateTimesOutKeeps, ReadyKeeps, ReadyFailsKeeps, LaunchKeeps, FinishKeeps,
     CheckKeeps, CheckReuseKeeps, StopKeeps, StopFailsKeeps DEF Step
<1>2. CASE \E p \in Proc : AppEnds(p) \/ OtherAppEnds(p) \/ Interrupt(p) \/ Kill(p)
  BY <1>2, AppEndsKeeps, OtherAppEndsKeeps, InterruptKeeps, KillKeeps
<1>3. CASE \E p \in Proc, h \in Host : Connect(p, h)
  BY <1>3, ConnectKeeps
<1>4. CASE \E p \in Proc, H \in SUBSET Host \ {{}}, r \in BOOLEAN : Begin(p, H, r)
  BY <1>4, BeginKeeps
<1>5. CASE Install \/ Verify \/ InstallFails \/ Detach \/ Rescue
  BY <1>5, InstallKeeps, VerifyKeeps, InstallFailsKeeps, DetachKeeps, RescueKeeps
<1>6. CASE Gc \/ \E h \in Host : GcInspect(h) \/ Age(h)
  BY <1>6, GcLooksKeeps, GcRmKeeps, AgeKeeps DEF Gc
<1>7. CASE \E c \in late : LateCommand(c)
  BY <1>7, LateCommandKeeps
<1>8. CASE UNCHANGED vars
  BY <1>8, StutterKeeps
<1> QED
  BY <1>1, <1>2, <1>3, <1>4, <1>5, <1>6, <1>7, <1>8 DEF Next

LEMMA Invariance == Spec => []IInv
  BY InitInv, NextInv, PTL DEF Spec

\* A lease in use is its user's, or was taken from it, or is a shared persistent one.
THEOREM LeaseHeld == Spec => []HeldUnlessLost
<1>1. IInv => HeldUnlessLost
  BY DEF IInv, Good, Secure, Holds, HeldUnlessLost
<1> QED
  BY <1>1, Invariance, PTL

\* A run that ends with its application's status has removed every server it started.
THEOREM ExitsClean == Spec => []CleanExit
<1>1. IInv => CleanExit
  BY Names DEF IInv, Good, Launching, Accounted, CleanExit
<1> QED
  BY <1>1, Invariance, PTL

\* A docker rm takes at most the lease of the host, from its owner.
LEMMA RmTakes ==
  ASSUME NEW by, NEW h \in Host, DockerRm(by, h), NEW p \in Proc, NEW x \in Host, <<p, x>> \in lost' \ lost
  PROVE  x = h /\ box[h].owner = p /\ p # by
  BY DEF DockerRm

\* A lease is taken from its owner by the collector, by a late command, or by a clean-up
\* that was itself robbed: a launcher never removes what another one holds just by racing.
THEOREM LossOnlyThus == Spec => LossExplained
<1> DEFINE Thus(p, h) == \/ gc.at = "rm" /\ gc'.at = "idle" /\ gc.host = h
                         \/ \E c \in late \ late' : c[1] = "rm" /\ c[3] = h
                         \/ \E q \in Proc : h \in proc[q].started /\ <<q, h>> \in lost
<1>1. ASSUME IInv, [Next]_vars, NEW p \in Proc, NEW h \in Host, <<p, h>> \in lost' \ lost
      PROVE  Thus(p, h)
  <2>1. CASE GcRm
    BY <1>1, <2>1, RmTakes DEF IInv, Types, GcRm, GcIdle
  <2>2. CASE \E c \in late : LateCommand(c)
    <3>1. PICK c \in late : LateCommand(c)
      BY <2>2
    <3>2. c[3] \in Host /\ c[1] \in {"run", "rm"}
      BY <1>1 DEF IInv, Types
    <3>3. CASE c[1] = "run"
      BY <1>1, <3>1, <3>3 DEF LateCommand, DockerRun
    <3>4. CASE c[1] = "rm"
      <4>1. DockerRm("late", c[3]) /\ c \in late \ late'
        BY <3>1, <3>4 DEF LateCommand
      <4>2. h = c[3]
        BY <1>1, <3>2, <4>1, RmTakes
      <4> QED
        BY <3>4, <4>1, <4>2
    <3> QED
      BY <3>2, <3>3, <3>4
  <2>3. CASE \E q \in Proc, x \in Host : Stop(q, x)
    <3>1. PICK q \in Proc, x \in Host : Stop(q, x)
      BY <2>3
    <3>2. x = h /\ box[h].owner = p /\ p # q /\ h \in proc[q].started
      BY <1>1, <3>1, RmTakes DEF Stop
    <3>3. Secure(q)
      BY <1>1 DEF IInv, Good
    <3> QED
      BY <3>2, <3>3 DEF Secure, Uses, Holds
  <2>4. CASE \E q \in Proc : Create(q)
    BY <1>1, <2>4 DEF Create, DockerRun
  <2>5. CASE UNCHANGED lost
    BY <1>1, <2>5
  <2> HIDE DEF Thus
  <2> QED
    BY <1>1, <2>1, <2>2, <2>3, <2>4, <2>5
    DEF Next, vars, Step, Gc, CreateTimesOut, Ready, ReadyFails, Launch, Finish, Check, CheckReuse,
        StopFails, AppEnds, OtherAppEnds, Interrupt, Kill, Connect, Begin, Install, Verify,
        InstallFails, Detach, Rescue, GcClients, GcInspect, Age
<1>2. IInv /\ [Next]_vars => [\A p \in Proc, h \in Host : <<p, h>> \in lost' \ lost => Thus(p, h)]_vars
  BY <1>1
<1> QED
  BY <1>2, Invariance, PTL DEF Spec, LossExplained
=============================================================================
