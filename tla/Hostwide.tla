------------------------------ MODULE Hostwide ------------------------------
(***************************************************************************)
(* The host-wide attach and detach transaction of hostwide.py, as driven   *)
(* by command_attach, command_detach (cli.py) and recover (rescue.py).     *)
(*                                                                         *)
(* attach backs up every managed file that exists, writes the journal      *)
(* state.json (phase "installing"), replaces the managed files one by one, *)
(* runs ldconfig and marks the journal "attached".  detach checks that no  *)
(* managed file was changed behind its back, marks the journal             *)
(* "detaching", removes the managed files, restores the backups, runs      *)
(* ldconfig, removes the journal and then the backups.  Every replacement, *)
(* removal and journal write is an atomic, durable file operation; the     *)
(* process may be killed between any two of them, ldconfig may fail, and   *)
(* an administrator edits managed files.                                   *)
(***************************************************************************)
EXTENDS Naturals

CONSTANTS
  Proc,        \* rgpu processes (attach, detach or rescue) that may run
  NFiles,      \* the managed files are 1..NFiles, in the order of `managed`
  Loader,      \* the one that is etc/ld.so.conf.d/00-rgpu.conf
  AnyEdit,     \* may the administrator edit while an rgpu process runs?
  MaxFault,    \* bound on kills and failures
  MaxEdit      \* bound on administrator edits

ASSUME HostwideAssumption ==
  /\ NFiles \in Nat /\ Loader \in 1..NFiles
  /\ AnyEdit \in BOOLEAN /\ MaxFault \in Nat /\ MaxEdit \in Nat

File == 1..NFiles
Absent == "absent"
\* File contents, as the fingerprints tell them apart: what was there before
\* attach, what attach installs, what an administrator wrote later.
Content == {"orig", "rgpu", "edit", Absent}

VARIABLES
  fs,          \* content of each managed file
  bak,         \* content of each backup under var/lib/rgpu/backups
  journal,     \* state.json, or NoJournal
  cache,       \* does the loader cache list /usr/local/lib/rgpu?
  pc, k,       \* per process: the operation it is in and the next file of a loop
  mem,         \* per process: its in-memory copy of the journal (`state`)
  faults, edits,
  want         \* history: the files as the administrator last left them

vars == <<fs, bak, journal, cache, pc, k, mem, faults, edits, want>>

Phase == {"none", "installing", "attached", "detaching"}
\* backups[f]: the journal names a backup for f.
Journal == [phase : Phase, backups : [File -> BOOLEAN]]
NoJournal == [phase |-> "none", backups |-> [f \in File |-> FALSE]]

AttachPc == {"lease", "enter", "backup", "journal", "copy", "ldconfig", "verify", "commit"}
DetachPc == {"rollback", "read", "intent", "remove", "restore", "reload", "forget", "prune"}

Init ==
  /\ fs \in [File -> {"orig", Absent}]
  /\ want = fs
  /\ bak = [f \in File |-> Absent]
  /\ journal = NoJournal /\ cache = FALSE
  /\ pc = [p \in Proc |-> "idle"]
  /\ k = [p \in Proc |-> 1]
  /\ mem = [p \in Proc |-> NoJournal]
  /\ faults = 0 /\ edits = 0

Goto(p, label) == pc' = [pc EXCEPT ![p] = label] /\ k' = [k EXCEPT ![p] = 1]

\* One more file of a loop over `managed`, then `label`.
Loop(p, label) ==
  IF k[p] < NFiles
    THEN k' = [k EXCEPT ![p] = @ + 1] /\ UNCHANGED pc
    ELSE Goto(p, label)

----------------------------------------------------------------------------
(* attach                                                                  *)

\* command_attach refuses an attached root before it does anything.
AttachBegin(p) ==
  /\ pc[p] = "idle" /\ journal = NoJournal
  /\ Goto(p, "lease")
  /\ UNCHANGED <<fs, bak, journal, cache, mem, faults, edits, want>>

\* The remote leases are started first; failing, attach rolls back.
AttachLease(p) ==
  /\ pc[p] = "lease"
  /\ \/ Goto(p, "enter") /\ UNCHANGED faults
     \/ faults < MaxFault /\ faults' = faults + 1 /\ Goto(p, "rollback")
  /\ UNCHANGED <<fs, bak, journal, cache, mem, edits, want>>

\* install: refuse an attached root, start a fresh journal in memory.
InstallEnter(p) ==
  /\ pc[p] = "enter"
  /\ IF journal # NoJournal THEN Goto(p, "rollback") ELSE Goto(p, "backup")
  /\ mem' = [mem EXCEPT ![p] = NoJournal]
  /\ UNCHANGED <<fs, bak, journal, cache, faults, edits, want>>

\* _backup of one managed file
InstallBackup(p) ==
  /\ pc[p] = "backup"
  /\ IF fs[k[p]] = Absent
       THEN UNCHANGED <<bak, mem>>
       ELSE /\ bak' = [bak EXCEPT ![k[p]] = fs[k[p]]]
            /\ mem' = [mem EXCEPT ![p].backups[k[p]] = TRUE]
  /\ Loop(p, "journal")
  /\ UNCHANGED <<fs, journal, cache, faults, edits, want>>

\* Wrong: the record stays in memory until the files are replaced.
InstallJournalLate(p) ==
  /\ pc[p] = "journal"
  /\ mem' = [mem EXCEPT ![p].phase = "installing"]
  /\ Goto(p, "copy")
  /\ UNCHANGED <<fs, bak, journal, cache, faults, edits, want>>

\* The write-ahead recovery record
InstallJournal(p) ==
  /\ pc[p] = "journal"
  /\ mem' = [mem EXCEPT ![p].phase = "installing"]
  /\ journal' = mem'[p]
  /\ Goto(p, "copy")
  /\ UNCHANGED <<fs, bak, cache, faults, edits, want>>

\* _atomic_copy, _atomic_symlink or _atomic_text of one managed file
InstallCopy(p) ==
  /\ pc[p] = "copy"
  /\ fs' = [fs EXCEPT ![k[p]] = "rgpu"]
  /\ Loop(p, "ldconfig")
  /\ UNCHANGED <<bak, journal, cache, mem, faults, edits, want>>

\* _refresh_loader, which may fail and change nothing
InstallLdconfig(p) ==
  /\ pc[p] = "ldconfig"
  /\ \/ cache' = (fs[Loader] = "rgpu") /\ Goto(p, "verify") /\ UNCHANGED faults
     \/ /\ faults < MaxFault /\ faults' = faults + 1
        /\ Goto(p, "rollback") /\ UNCHANGED cache
  /\ UNCHANGED <<fs, bak, journal, mem, edits, want>>

\* The installed fingerprints are compared with the desired ones.
InstallVerify(p) ==
  /\ pc[p] = "verify"
  /\ Goto(p, IF \A f \in File : fs[f] = "rgpu" THEN "commit" ELSE "rollback")
  /\ UNCHANGED <<fs, bak, journal, cache, mem, faults, edits, want>>

\* The journal's second write; a live attach then checks the GPU identities and
\* rolls back when one is missing.
InstallCommit(p) ==
  /\ pc[p] = "commit"
  /\ mem' = [mem EXCEPT ![p].phase = "attached"]
  /\ journal' = mem'[p]
  /\ \/ Goto(p, "idle") /\ UNCHANGED faults
     \/ faults < MaxFault /\ faults' = faults + 1 /\ Goto(p, "rollback")
  /\ UNCHANGED <<fs, bak, cache, edits, want>>

\* command_attach's exception handler: uninstall when there is a journal.
AttachRollback(p) ==
  /\ pc[p] = "rollback"
  /\ Goto(p, IF journal # NoJournal THEN "read" ELSE "idle")
  /\ UNCHANGED <<fs, bak, journal, cache, mem, faults, edits, want>>

----------------------------------------------------------------------------
(* detach and rescue                                                       *)

DetachBegin(p) ==
  /\ pc[p] = "idle" /\ journal # NoJournal
  /\ Goto(p, "read")
  /\ UNCHANGED <<fs, bak, journal, cache, mem, faults, edits, want>>

\* Wrong: an original that is still in place is only expected while detaching.
ChangedInstalling(j) ==
  {f \in File :
     \/ fs[f] = Absent /\ j.phase = "attached"
     \/ /\ fs[f] \notin {Absent, "rgpu"}
        /\ ~ (/\ j.phase = "detaching"
              /\ j.backups[f] /\ bak[f] # Absent /\ fs[f] = bak[f])}

\* The managed files uninstall considers changed, given the journal j it read.
Changed(j) ==
  {f \in File :
     \/ fs[f] = Absent /\ j.phase = "attached"
     \/ /\ fs[f] \notin {Absent, "rgpu"}
        /\ ~ (/\ j.phase \in {"installing", "detaching"}
              /\ j.backups[f] /\ bak[f] # Absent /\ fs[f] = bak[f])}

\* Read the journal, refuse when a managed file changed.
UninstallRead(p) ==
  /\ pc[p] = "read"
  /\ mem' = [mem EXCEPT ![p] = journal]
  /\ Goto(p, IF journal = NoJournal \/ Changed(journal) # {} THEN "idle" ELSE "intent")
  /\ UNCHANGED <<fs, bak, journal, cache, faults, edits, want>>

\* Wrong: the intent is not persisted.
UninstallIntentInMemory(p) ==
  /\ pc[p] = "intent"
  /\ mem' = [mem EXCEPT ![p].phase = "detaching"]
  /\ Goto(p, "remove")
  /\ UNCHANGED <<fs, bak, journal, cache, faults, edits, want>>

\* Persist the rollback intent.
UninstallIntent(p) ==
  /\ pc[p] = "intent"
  /\ IF mem[p].phase # "detaching"
       THEN /\ mem' = [mem EXCEPT ![p].phase = "detaching"]
            /\ journal' = mem'[p]
       ELSE UNCHANGED <<mem, journal>>
  /\ Goto(p, "remove")
  /\ UNCHANGED <<fs, bak, cache, faults, edits, want>>

\* _remove_target of one managed file
UninstallRemove(p) ==
  /\ pc[p] = "remove"
  /\ fs' = [fs EXCEPT ![k[p]] = Absent]
  /\ Loop(p, "restore")
  /\ UNCHANGED <<bak, journal, cache, mem, faults, edits, want>>

\* Restore one file the journal names a backup for; a backup that is not there
\* ends the detach with an exception.
UninstallRestore(p) ==
  /\ pc[p] = "restore"
  /\ IF mem[p].backups[k[p]]
       THEN IF bak[k[p]] = Absent
              THEN Goto(p, "idle") /\ UNCHANGED fs
              ELSE fs' = [fs EXCEPT ![k[p]] = bak[k[p]]] /\ Loop(p, "reload")
       ELSE UNCHANGED fs /\ Loop(p, "reload")
  /\ UNCHANGED <<bak, journal, cache, mem, faults, edits, want>>

\* Wrong: a failing ldconfig is ignored.
UninstallLdconfigIgnored(p) ==
  /\ pc[p] = "reload"
  /\ \/ cache' = (fs[Loader] = "rgpu") /\ UNCHANGED faults
     \/ faults < MaxFault /\ faults' = faults + 1 /\ UNCHANGED cache
  /\ Goto(p, "forget")
  /\ UNCHANGED <<fs, bak, journal, mem, edits, want>>

UninstallLdconfig(p) ==
  /\ pc[p] = "reload"
  /\ \/ cache' = (fs[Loader] = "rgpu") /\ Goto(p, "forget") /\ UNCHANGED faults
     \/ /\ faults < MaxFault /\ faults' = faults + 1
        /\ Goto(p, "idle") /\ UNCHANGED cache
  /\ UNCHANGED <<fs, bak, journal, mem, edits, want>>

\* _remove_target(state_path)
UninstallForget(p) ==
  /\ pc[p] = "forget"
  /\ journal' = NoJournal
  /\ Goto(p, "prune")
  /\ UNCHANGED <<fs, bak, cache, mem, faults, edits, want>>

\* shutil.rmtree of the backups
UninstallPrune(p) ==
  /\ pc[p] = "prune"
  /\ bak' = [f \in File |-> Absent]
  /\ Goto(p, "idle")
  /\ UNCHANGED <<fs, journal, cache, mem, faults, edits, want>>

----------------------------------------------------------------------------
(* The environment                                                         *)

\* The process is killed; what it had in memory is gone.
Kill(p) ==
  /\ pc[p] # "idle" /\ faults < MaxFault
  /\ faults' = faults + 1
  /\ Goto(p, "idle")
  /\ mem' = [mem EXCEPT ![p] = NoJournal]
  /\ UNCHANGED <<fs, bak, journal, cache, edits, want>>

\* An administrator or package manager writes or deletes a managed file.  In
\* the middle of an interrupted transaction a deletion cannot be told from the
\* transaction's own removal, so only AnyEdit deletes there.
Edit(f, c) ==
  /\ edits < MaxEdit /\ edits' = edits + 1
  /\ AnyEdit \/ /\ \A p \in Proc : pc[p] = "idle"
                /\ c = Absent => journal.phase \in {"none", "attached"}
  /\ fs' = [fs EXCEPT ![f] = c]
  /\ want' = [want EXCEPT ![f] = c]
  /\ UNCHANGED <<bak, journal, cache, pc, k, mem, faults>>

AttachStep(p) ==
  \/ AttachLease(p) \/ InstallEnter(p) \/ InstallBackup(p) \/ InstallJournal(p)
  \/ InstallCopy(p) \/ InstallLdconfig(p) \/ InstallVerify(p) \/ InstallCommit(p)
  \/ AttachRollback(p)

DetachStep(p) ==
  \/ UninstallRead(p) \/ UninstallIntent(p) \/ UninstallRemove(p) \/ UninstallRestore(p)
  \/ UninstallLdconfig(p) \/ UninstallForget(p) \/ UninstallPrune(p)

Next ==
  \/ \E p \in Proc : AttachBegin(p) \/ DetachBegin(p) \/ AttachStep(p) \/ DetachStep(p) \/ Kill(p)
  \/ \E f \in File, c \in {"edit", Absent} : Edit(f, c)

Spec == Init /\ [][Next]_vars

\* A running process goes on, and an interrupted transaction is retried with
\* detach or rescue; nobody has to attach.
Fairness == \A p \in Proc : WF_vars(DetachBegin(p) \/ AttachStep(p) \/ DetachStep(p))
FairSpec == Spec /\ Fairness

----------------------------------------------------------------------------
(* Properties.                                                             *)

\* Every variable has its type and the loops stay within the managed files.
TypeOK ==
  /\ fs \in [File -> Content] /\ bak \in [File -> Content] /\ want \in [File -> Content]
  /\ journal \in Journal /\ cache \in BOOLEAN
  /\ pc \in [Proc -> {"idle"} \cup AttachPc \cup DetachPc]
  /\ k \in [Proc -> File] /\ mem \in [Proc -> Journal]
  /\ faults \in 0..MaxFault /\ edits \in 0..MaxEdit

\* What the administrator last left in a managed file is never lost: it is in
\* place, or it is in a backup that the durable journal names.  This is what
\* makes every interruption recoverable, and what "detach fails closed rather
\* than overwriting that change" asks for.
OriginalsSafe ==
  \A f \in File : want[f] = Absent \/ fs[f] = want[f]
                  \/ (journal.backups[f] /\ bak[f] = want[f])

\* No step of a detach overwrites or removes a file that was changed after it was
\* installed ("if an administrator or package manager changes a managed file,
\* detach fails closed rather than overwriting that change"): what was safe before
\* the step is safe after it.  The check runs once, before the removals, so with
\* AnyEdit = TRUE the code does not ensure this.
DetachFailsClosed ==
  [][(\E p \in Proc : UninstallRemove(p) \/ UninstallRestore(p))
       => (OriginalsSafe => OriginalsSafe')]_vars

Idle == \A p \in Proc : pc[p] = "idle"

\* When no transaction is open and nobody is working on one, every managed file
\* is as the administrator left it and the loader cache no longer names the
\* shim: an attach that failed, and a detach however often it was interrupted,
\* leave nothing behind.
DetachedIsClean ==
  Idle /\ journal = NoJournal => fs = want /\ ~cache

\* As long as nobody edits a managed file, an interrupted transaction is never
\* stuck: whatever mix of installed, removed and restored files a kill leaves,
\* the next detach or rescue accepts it.
NeverWedged ==
  Idle /\ edits = 0 /\ journal # NoJournal => Changed(journal) = {}

\* Unless somebody edits a managed file, an open transaction is eventually closed
\* by retrying detach, whatever was killed or failed on the way.
TransactionCloses == journal # NoJournal ~> journal = NoJournal \/ edits > 0
=============================================================================
