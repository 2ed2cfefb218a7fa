------------------------------- MODULE Leases -------------------------------
(***************************************************************************)
(* Remote leases (remote_gpu/cli.py): the server containers that rgpu run, *)
(* attach, detach, gc and rescue start and remove over SSH.  The container *)
(* name, one per host and port, is the lease: creating it is atomic, and   *)
(* removing it is by name, whoever created it.  The files of an attachment *)
(* are module Hostwide; here its journal is the list of leases in it.      *)
(*                                                                         *)
(* A command whose SSH call times out or is interrupted may still be       *)
(* carried out by the host later.                                          *)
(***************************************************************************)
EXTENDS Naturals, FiniteSets

CONSTANTS
  Runner,     \* rgpu run processes
  Root,       \* the commands on one root (attach, detach, rescue), one at a time
  Host,       \* remote endpoints
  MaxLate     \* bound on the commands that outlive their SSH calls

ASSUME LeasesAssumption ==
  /\ Root \notin Runner /\ MaxLate \in Nat
  /\ {"nobody", "gc", "late"} \cap (Runner \cup {Root}) = {} /\ {"no host", "no journal"} \cap Host = {}

VARIABLES
  box,       \* per host: the container rgpu-server-<port>, with its labels
  conn,      \* established client connections
  journal,   \* hosts of the attachment's "leases", or NoJournal
  proc,      \* the processes, with the list `started`
  gc,        \* the collector and the host it is at
  late,      \* commands that hosts may still carry out
  lost       \* (history) leases that somebody else removed

vars == <<box, conn, journal, proc, gc, late, lost>>

Proc == Runner \cup {Root}
NoBox == [owner |-> "nobody", mode |-> "none", old |-> FALSE]
NoJournal == {"no journal"}
NoHost == "no host"
Mode(p) == IF p = Root THEN "persistent" ELSE "ephemeral"
Fresh == [pc |-> "idle", todo |-> {}, cur |-> NoHost, started |-> {}, reuse |-> FALSE,
          out |-> "none"]
GcIdle == [at |-> "idle", host |-> NoHost]

Init ==
  /\ box = [h \in Host |-> NoBox] /\ conn = {} /\ journal = NoJournal
  /\ proc = [p \in Proc |-> Fresh]
  /\ gc = GcIdle /\ late = {} /\ lost = {}

Clients(h) == {x \in conn : x[2] = h}
Of(p) == {x \in conn : x[1] = p}

\* docker run --name: fails when the name is taken.
DockerRun(p, h) ==
  IF box[h] = NoBox
    THEN /\ box' = [box EXCEPT ![h] = [owner |-> p, mode |-> Mode(p), old |-> FALSE]]
         /\ lost' = lost \ {<<p, h>>}
    ELSE UNCHANGED <<box, lost>>

\* docker rm --force: removes what has the name, and cuts its clients off.
DockerRm(by, h) ==
  /\ box' = [box EXCEPT ![h] = NoBox]
  /\ conn' = conn \ Clients(h)
  /\ lost' = IF box[h] # NoBox /\ box[h].owner # by THEN lost \cup {<<box[h].owner, h>>} ELSE lost

\* The SSH call ends before the command does.
Outlives(cmd, p, h) ==
  Cardinality(late) < MaxLate /\ late' = late \cup {<<cmd, p, h>>}

----------------------------------------------------------------------------
(* Starting: command_run, command_attach, start_server                     *)

\* rgpu run, or rgpu attach when the root has no journal.
Begin(p, hosts, reuse) ==
  /\ proc[p].pc = "idle" /\ (p = Root => journal = NoJournal /\ ~reuse)
  /\ proc' = [proc EXCEPT ![p] = [Fresh EXCEPT !.pc = "check", !.todo = hosts, !.reuse = reuse]]
  /\ UNCHANGED <<box, conn, journal, gc, late, lost>>

Unwind(p, why) ==
  proc' = [proc EXCEPT ![p].pc = "cleanup", ![p].todo = {}, ![p].cur = NoHost, ![p].out = why]
Fail(p) == Unwind(p, "error")

\* The process is gone; the root is free for its next command.
Ends(p, how) ==
  proc' = [proc EXCEPT ![p] = [Fresh EXCEPT !.pc = IF p = Root THEN "idle" ELSE "done",
                                            !.reuse = proc[p].reuse, !.out = how]]

\* Wrong: the lease is entered in `started` before it is created.
CheckEager(p, h) ==
  /\ proc[p].pc = "check" /\ ~proc[p].reuse /\ h \in proc[p].todo
  /\ IF Clients(h) = {} /\ box[h] = NoBox
       THEN proc' = [proc EXCEPT ![p].pc = "create", ![p].cur = h, ![p].todo = @ \ {h},
                                 ![p].started = @ \cup {h}]
       ELSE Fail(p)
  /\ UNCHANGED <<box, conn, journal, gc, late, lost>>

\* start_server refuses a GPU with compute processes, a leased endpoint and a
\* listener.
Check(p, h) ==
  /\ proc[p].pc = "check" /\ ~proc[p].reuse /\ h \in proc[p].todo
  /\ IF Clients(h) = {} /\ box[h] = NoBox
       THEN proc' = [proc EXCEPT ![p].pc = "create", ![p].cur = h, ![p].todo = @ \ {h}]
       ELSE Fail(p)
  /\ UNCHANGED <<box, conn, journal, gc, late, lost>>

\* reuse_persistent_server
CheckReuse(p, h) ==
  /\ proc[p].pc = "check" /\ proc[p].reuse /\ h \in proc[p].todo
  /\ IF Clients(h) = {} /\ box[h].mode = "persistent"
       THEN proc' = [proc EXCEPT ![p].todo = @ \ {h}]
       ELSE Fail(p)
  /\ UNCHANGED <<box, conn, journal, gc, late, lost>>

\* Wrong: a name that is taken is not an error.
CreateShares(p) ==
  /\ proc[p].pc = "create"
  /\ DockerRun(p, proc[p].cur)
  /\ proc' = [proc EXCEPT ![p].pc = "ready"]
  /\ UNCHANGED <<conn, journal, gc, late>>

Create(p) ==
  /\ proc[p].pc = "create"
  /\ DockerRun(p, proc[p].cur)
  /\ IF box[proc[p].cur] = NoBox THEN proc' = [proc EXCEPT ![p].pc = "ready"] ELSE Fail(p)
  /\ UNCHANGED <<conn, journal, gc, late>>

CreateTimesOut(p) ==
  /\ proc[p].pc = "create"
  /\ Outlives("run", p, proc[p].cur) /\ Fail(p)
  /\ UNCHANGED <<box, conn, journal, gc, lost>>

\* wait_ready, docker inspect; only now is the lease in `started`.
Ready(p) ==
  /\ proc[p].pc = "ready" /\ box[proc[p].cur] # NoBox
  /\ proc' = [proc EXCEPT ![p].pc = "check", ![p].cur = NoHost, ![p].started = @ \cup {proc[p].cur}]
  /\ UNCHANGED <<box, conn, journal, gc, late, lost>>

\* The server did not become ready, or exited, or the host cannot be reached.
ReadyFails(p) ==
  /\ proc[p].pc = "ready" /\ Fail(p)
  /\ UNCHANGED <<box, conn, journal, gc, late, lost>>

----------------------------------------------------------------------------
(* The application                                                         *)

Launch(p) ==
  /\ p # Root /\ proc[p].pc = "check" /\ proc[p].todo = {}
  /\ proc' = [proc EXCEPT ![p].pc = "app"]
  /\ UNCHANGED <<box, conn, journal, gc, late, lost>>

\* A contained application, or one on the attached root, opens its connection.
Connect(p, h) ==
  /\ \/ proc[p].pc = "app" /\ (h \in proc[p].started \/ proc[p].reuse)
     \/ p = Root /\ h \in journal
  /\ box[h] # NoBox
  /\ conn' = conn \cup {<<p, h>>}
  /\ UNCHANGED <<box, journal, proc, gc, late, lost>>

\* The application ends: the launcher cleans up.
AppEnds(p) ==
  /\ proc[p].pc = "app"
  /\ conn' = conn \ Of(p)
  /\ proc' = [proc EXCEPT ![p].pc = "cleanup"]
  /\ UNCHANGED <<box, journal, gc, late, lost>>

\* An application of the attached root, or one whose launcher was killed, ends.
OtherAppEnds(p) ==
  /\ Of(p) # {} /\ proc[p].pc # "app"
  /\ conn' = conn \ Of(p)
  /\ UNCHANGED <<box, journal, proc, gc, late, lost>>

----------------------------------------------------------------------------
(* Attaching, detaching, cleaning up                                       *)

\* hostwide_install with the leases as metadata ...
Install ==
  /\ proc[Root].pc = "check" /\ proc[Root].todo = {}
  /\ journal' = proc[Root].started
  /\ proc' = [proc EXCEPT ![Root].pc = "verify"]
  /\ UNCHANGED <<box, conn, gc, late, lost>>

\* ... and the verification of the attached GPUs.
Verify ==
  /\ proc[Root].pc = "verify"
  /\ Ends(Root, "ok")
  /\ UNCHANGED <<box, conn, journal, gc, late, lost>>

\* An exception in either: the files are rolled back, then the leases.
InstallFails ==
  /\ \/ proc[Root].pc = "check" /\ proc[Root].todo = {} /\ UNCHANGED journal
     \/ proc[Root].pc = "verify" /\ journal' = NoJournal
  /\ Fail(Root)
  /\ UNCHANGED <<box, conn, gc, late, lost>>

\* command_detach: the journal goes first, then the leases it listed.
Detach ==
  /\ proc[Root].pc = "idle" /\ journal # NoJournal
  /\ journal' = NoJournal
  /\ proc' = [proc EXCEPT ![Root] = [Fresh EXCEPT !.pc = "cleanup", !.started = journal]]
  /\ UNCHANGED <<box, conn, gc, late, lost>>

\* rgpu-rescue restores the files and contacts no host.
Rescue ==
  /\ proc[Root].pc = "idle" /\ journal # NoJournal
  /\ journal' = NoJournal
  /\ UNCHANGED <<box, conn, proc, gc, late, lost>>

\* stop_server, by name.
Stop(p, h) ==
  /\ proc[p].pc = "cleanup" /\ h \in proc[p].started
  /\ DockerRm(p, h)
  /\ proc' = [proc EXCEPT ![p].started = @ \ {h}]
  /\ UNCHANGED <<journal, gc, late>>

\* Wrong: the error is swallowed.
StopFailsSilently(p, h) ==
  /\ proc[p].pc = "cleanup" /\ h \in proc[p].started
  /\ proc' = [proc EXCEPT ![p].started = @ \ {h}]
  /\ UNCHANGED late \/ Outlives("rm", p, h)
  /\ UNCHANGED <<box, conn, journal, gc, lost>>

\* The host cannot be reached, or does not answer in time: the next lease is tried,
\* the error is reported at the end.
StopFails(p, h) ==
  /\ proc[p].pc = "cleanup" /\ h \in proc[p].started
  /\ proc' = [proc EXCEPT ![p].started = @ \ {h}, ![p].out = "error"]
  /\ UNCHANGED late \/ Outlives("rm", p, h)
  /\ UNCHANGED <<box, conn, journal, gc, lost>>

Finish(p) ==
  /\ proc[p].pc = "cleanup" /\ proc[p].started = {}
  /\ Ends(p, IF proc[p].out = "none" THEN "ok" ELSE proc[p].out)
  /\ UNCHANGED <<box, conn, journal, gc, late, lost>>

\* SIGINT or SIGTERM at rgpu run: LaunchInterrupted unwinds to the clean-up, and a
\* second one ends the clean-up.  The SSH call it interrupts may have its effect.
Interrupt(p) ==
  /\ p # Root /\ proc[p].pc \in {"check", "create", "ready", "app", "cleanup"}
  /\ conn' = conn \ Of(p)
  /\ IF proc[p].pc = "cleanup" THEN Ends(p, "signal") ELSE Unwind(p, "signal")
  /\ UNCHANGED late \/ (proc[p].pc = "create" /\ Outlives("run", p, proc[p].cur))
  /\ UNCHANGED <<box, journal, gc, lost>>

\* A process is killed (attach and detach: or interrupted); a contained
\* application survives its launcher.
Kill(p) ==
  /\ proc[p].pc \notin {"idle", "done"}
  /\ Ends(p, "killed")
  /\ UNCHANGED <<box, conn, journal, gc, late, lost>>

----------------------------------------------------------------------------
(* command_gc                                                              *)

Expired(h) == box[h].mode = "ephemeral" /\ box[h].old

GcInspect(h) ==
  /\ gc.at = "idle" /\ Expired(h)
  /\ gc' = [at |-> "clients", host |-> h]
  /\ UNCHANGED <<box, conn, journal, proc, late, lost>>

\* Wrong: the listening socket counts as a client.
GcClientsListener ==
  /\ gc.at = "clients"
  /\ gc' = IF box[gc.host] = NoBox THEN [gc EXCEPT !.at = "rm"] ELSE GcIdle
  /\ UNCHANGED <<box, conn, journal, proc, late, lost>>

GcClients ==
  /\ gc.at = "clients"
  /\ gc' = IF Clients(gc.host) = {} THEN [gc EXCEPT !.at = "rm"] ELSE GcIdle
  /\ UNCHANGED <<box, conn, journal, proc, late, lost>>

GcRm ==
  /\ gc.at = "rm"
  /\ DockerRm("gc", gc.host)
  /\ gc' = GcIdle
  /\ UNCHANGED <<journal, proc, late>>

----------------------------------------------------------------------------
(* Hosts and time                                                          *)

\* --min-age seconds pass; nobody asks a persistent lease for its age.
Age(h) ==
  /\ box[h].mode = "ephemeral" /\ ~box[h].old
  /\ box' = [box EXCEPT ![h].old = TRUE]
  /\ UNCHANGED <<conn, journal, proc, gc, late, lost>>

\* A command that outlived its SSH call.
LateCommand(c) ==
  /\ late' = late \ {c}
  /\ IF c[1] = "run" THEN DockerRun(c[2], c[3]) /\ UNCHANGED conn ELSE DockerRm("late", c[3])
  /\ UNCHANGED <<journal, proc, gc>>

Step(p) ==
  \/ Create(p) \/ CreateTimesOut(p) \/ Ready(p) \/ ReadyFails(p) \/ Launch(p)
  \/ Finish(p)
  \/ \E h \in Host : Check(p, h) \/ CheckReuse(p, h) \/ Stop(p, h) \/ StopFails(p, h)

Gc == GcClients \/ GcRm

Next ==
  \/ \E p \in Proc : \/ Step(p) \/ AppEnds(p) \/ OtherAppEnds(p) \/ Interrupt(p) \/ Kill(p)
                     \/ \E h \in Host : Connect(p, h)
                     \/ \E H \in SUBSET Host \ {{}}, r \in BOOLEAN : Begin(p, H, r)
  \/ Install \/ Verify \/ InstallFails \/ Detach \/ Rescue
  \/ Gc \/ \E h \in Host : GcInspect(h) \/ Age(h)
  \/ \E c \in late : LateCommand(c)

Spec == Init /\ [][Next]_vars

\* Time passes, and somebody runs the collector again and again.
FairSpec ==
  /\ Spec /\ WF_vars(Gc)
  /\ \A h \in Host : WF_vars(Age(h)) /\ SF_vars(GcInspect(h))

----------------------------------------------------------------------------
(* Properties.                                                             *)

\* Every variable has its type.
TypeOK ==
  /\ box \in [Host -> {NoBox} \cup [owner : Proc, mode : {"ephemeral", "persistent"}, old : BOOLEAN]]
  /\ conn \subseteq Proc \X Host /\ lost \subseteq Proc \X Host
  /\ journal \in SUBSET Host \cup {NoJournal}
  /\ \A p \in Proc :
       /\ proc[p].pc \in {"idle", "check", "create", "ready", "app", "verify", "cleanup", "done"}
       /\ proc[p].todo \subseteq Host /\ proc[p].cur \in Host \cup {NoHost}
       /\ proc[p].started \subseteq Host /\ proc[p].reuse \in BOOLEAN
       /\ proc[p].out \in {"none", "ok", "error", "signal", "killed"}
  /\ gc \in [at : {"idle", "clients", "rm"}, host : Host \cup {NoHost}]
  /\ late \subseteq {"run", "rm"} \X Proc \X Host

\* What p believes that it may use: leases it started, or its journal lists, or its
\* application is connected to.
Uses(p, h) ==
  \/ h \in proc[p].started \/ <<p, h>> \in conn
  \/ p = Root /\ h \in journal

\* A lease in use is there and belongs to its user, unless it was taken from it; a
\* reused one is persistent ("refusing to share another user's server").
HeldUnlessLost ==
  \A p \in Proc, h \in Host :
    Uses(p, h) => \/ box[h].owner = p \/ <<p, h>> \in lost
                  \/ proc[p].reuse /\ h \notin proc[p].started

\* A lease is taken from its owner only by the collector, by a clean-up whose own
\* lease was taken before, or by a command that outlived its SSH call: never by two
\* launchers that merely race.
LossExplained ==
  [][\A p \in Proc, h \in Host : <<p, h>> \in lost' \ lost =>
       \/ gc.at = "rm" /\ gc'.at = "idle" /\ gc.host = h
       \/ \E c \in late \ late' : c[1] = "rm" /\ c[3] = h
       \/ \E q \in Proc : h \in proc[q].started /\ <<q, h>> \in lost]_vars

\* A run that ends with its application's status, and no error, leaves no server
\* behind ("releases every remote lease").
CleanExit ==
  \A p \in Runner : proc[p].out = "ok" => \A h \in Host : box[h].owner # p

\* A server whose launcher has gone is reclaimed once it is old and no client is
\* connected ("a conservative collector can reclaim ...").
Orphan(h) ==
  /\ box[h].mode = "ephemeral" /\ Clients(h) = {}
  /\ proc[box[h].owner].pc = "done"
OrphansCollected == \A h \in Host : Orphan(h) ~> ~Orphan(h)

\* The collector never removes an attachment's lease ("Persistent host-wide
\* attachments are never eligible for this collector").  Not ensured: the container
\* may be another one by the time it is removed.
GcSparesPersistent ==
  [][gc.at = "rm" /\ gc'.at = "idle" => box[gc.host].mode # "persistent"]_vars

\* An attach that failed, and was not killed, leaves no lease of its own ("rolls
\* back both files and newly started leases on failure").  Not ensured: the lease
\* that failed to become ready is not in the list.
RollbackComplete ==
  proc[Root].out = "error" /\ proc[Root].pc = "idle" /\ journal = NoJournal
    => \A h \in Host : box[h].owner # Root
=============================================================================
