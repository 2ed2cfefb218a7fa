-------------------------- MODULE HostwideProofs --------------------------
(***************************************************************************)
(* Proofs about the host-wide attachment, for any number of managed files, *)
(* kills, failures and edits: one rgpu process at a time on the root, and  *)
(* an administrator who edits while none runs.                             *)
(*                                                                         *)
(* What carries them: while the journal is there, every managed file       *)
(* either agrees with it (Noted: a backup of what the administrator wants, *)
(* or nothing wanted and no backup), or shows the edit that makes detach   *)
(* refuse.  A detach that passes its check therefore finds every file      *)
(* noted, and a process that runs is not disturbed.                        *)
(***************************************************************************)
EXTENDS Hostwide, TLAPS

\* One process at a time, and edits between them.
Alone == (\A p, q \in Proc : p = q) /\ AnyEdit = FALSE

\* The journal j is right about the backup of f.
Noted(j, f) == IF j.backups[f] THEN bak[f] = want[f] /\ want[f] # Absent ELSE want[f] = Absent

\* A closed transaction leaves nothing behind.
Closed ==
  /\ journal.phase = "none" => journal = NoJournal
  /\ journal = NoJournal => fs = want /\ ~cache

\* An open one has every file noted, or is refused for it.
Entries ==
  journal # NoJournal =>
    \A f \in File : Noted(journal, f) \/ (fs[f] = want[f] /\ f \in Changed(journal))

\* Without an edit, every file is where the transaction has put it.
Untouched ==
  journal # NoJournal /\ edits = 0 =>
    \A f \in File : /\ Noted(journal, f) /\ fs[f] \in {Absent, "rgpu", want[f]}
                    /\ journal.phase = "attached" => fs[f] = "rgpu"

\* Where the process stands.
Backing(p) ==
  /\ pc[p] \in {"lease", "enter", "backup", "journal", "prune"} => journal = NoJournal
  /\ pc[p] = "backup" =>
       \A f \in File : IF f < k[p] THEN Noted(mem[p], f) ELSE ~mem[p].backups[f]
  /\ pc[p] = "journal" => \A f \in File : Noted(mem[p], f)

Installing(p) ==
  /\ pc[p] \in {"copy", "ldconfig", "verify", "commit"} =>
       /\ journal = mem[p] /\ journal.phase = "installing"
       /\ \A f \in File : Noted(journal, f) /\ fs[f] \in {"rgpu", want[f]}
  /\ pc[p] = "commit" => \A f \in File : fs[f] = "rgpu"

Uninstalling(p) ==
  /\ pc[p] = "intent" => journal # NoJournal /\ mem[p] = journal /\ Changed(journal) = {}
  /\ pc[p] \in {"remove", "restore", "reload", "forget"} =>
       /\ journal = mem[p] /\ journal.phase = "detaching"
       /\ \A f \in File : Noted(journal, f)
  /\ pc[p] = "remove" => \A f \in File : f < k[p] => fs[f] = Absent
  /\ pc[p] = "restore" => \A f \in File : fs[f] = IF f < k[p] THEN want[f] ELSE Absent
  /\ pc[p] \in {"reload", "forget"} => fs = want
  /\ pc[p] = "forget" => ~cache

Running == \A p \in Proc : Backing(p) /\ Installing(p) /\ Uninstalling(p)

IInv ==
  /\ TypeOK /\ (\A f \in File : want[f] # "rgpu")
  /\ Closed /\ Entries /\ Untouched /\ Running

\* A root that was never attached.
LEMMA InitInv == Init => IInv
<1> SUFFICES ASSUME Init PROVE IInv
  OBVIOUS
<1>1. NFiles \in Nat /\ 1 \in File /\ MaxFault \in Nat /\ MaxEdit \in Nat
  BY HostwideAssumption DEF File
<1>2. NoJournal \in Journal
  BY DEF NoJournal, Journal, Phase
<1>3. TypeOK
  <2>1. fs \in [File -> Content] /\ want \in [File -> Content] /\ bak \in [File -> Content]
    BY DEF Init, Content
  <2> QED
    <3>1. journal \in Journal /\ mem \in [Proc -> Journal]
      BY <1>2 DEF Init
    <3>2. pc \in [Proc -> {"idle"} \cup AttachPc \cup DetachPc] /\ k \in [Proc -> File]
      BY <1>1 DEF Init
    <3>3. faults \in 0 .. MaxFault /\ edits \in 0 .. MaxEdit
      BY <1>1 DEF Init
    <3>4. cache \in BOOLEAN
      BY DEF Init
    <3> QED
      BY <2>1, <3>1, <3>2, <3>3, <3>4 DEF TypeOK
<1>4. \A f \in File : want[f] # "rgpu"
  BY DEF Init, Absent
<1>5. Closed /\ Entries /\ Untouched /\ Running
  BY DEF Init, Closed, Entries, Untouched, Running, Backing, Installing, Uninstalling
<1> QED
  BY <1>3, <1>4, <1>5 DEF IInv

\* The end of a loop over the managed files, and its next round.
LEMMA LoopForm ==
  ASSUME TypeOK, NEW p \in Proc, NEW l, Loop(p, l)
  PROVE  \/ k[p] < NFiles /\ k' = [k EXCEPT ![p] = k[p] + 1] /\ pc' = pc /\ k[p] + 1 \in File
         \/ k[p] = NFiles /\ Goto(p, l)
<1>1. k[p] \in 1 .. NFiles /\ NFiles \in Nat
  BY HostwideAssumption DEF TypeOK, File
<1> QED
  BY <1>1 DEF Loop, File

\* command_attach starts.
LEMMA AttachBeginInv ==
  ASSUME Alone, IInv, NEW p \in Proc, AttachBegin(p)
  PROVE  IInv'
<1>0. /\ TypeOK /\ (\A f \in File : want[f] # "rgpu")
      /\ Closed /\ Entries /\ Untouched /\ Backing(p) /\ Installing(p) /\ Uninstalling(p)
      /\ \A q \in Proc : q = p
  BY DEF IInv, Running, Alone
<1>a. 1 \in File /\ NFiles \in Nat /\ File \subseteq Nat /\ NoJournal \in Journal
      /\ MaxFault \in Nat /\ MaxEdit \in Nat
  BY HostwideAssumption DEF File, NoJournal, Journal, Phase
<1>m. /\ UNCHANGED <<fs, bak, journal, cache, edits, want>>
      /\ journal = NoJournal /\ pc'[p] = "lease"
  BY <1>0, <1>a DEF AttachBegin, Goto, TypeOK
<1>1. TypeOK'
  BY <1>0, <1>a DEF AttachBegin, TypeOK, Goto, AttachPc, DetachPc
<1>2. (\A f \in File : want[f] # "rgpu")'
  BY <1>0, <1>a, <1>m DEF Closed, Entries, Untouched, Backing, Installing, Uninstalling, Noted, Changed
<1>3. Closed'
  BY <1>0, <1>a, <1>m DEF Closed, Entries, Untouched, Backing, Installing, Uninstalling, Noted, Changed
<1>4. Entries'
  BY <1>0, <1>a, <1>m DEF Closed, Entries, Untouched, Backing, Installing, Uninstalling, Noted, Changed
<1>5. Untouched'
  BY <1>0, <1>a, <1>m DEF Closed, Entries, Untouched, Backing, Installing, Uninstalling, Noted, Changed
<1>6. Backing(p)'
  BY <1>0, <1>a, <1>m DEF Closed, Entries, Untouched, Backing, Installing, Uninstalling, Noted, Changed
<1>7. Installing(p)'
  BY <1>0, <1>a, <1>m DEF Closed, Entries, Untouched, Backing, Installing, Uninstalling, Noted, Changed
<1>8. Uninstalling(p)'
  BY <1>0, <1>a, <1>m DEF Closed, Entries, Untouched, Backing, Installing, Uninstalling, Noted, Changed
<1> QED
  <2>1. Running'
    BY <1>0, <1>6, <1>7, <1>8 DEF Running
  <2> QED
    BY <1>1, <1>2, <1>3, <1>4, <1>5, <2>1 DEF IInv

\* The leases are started, or not.
LEMMA AttachLeaseInv ==
  ASSUME Alone, IInv, NEW p \in Proc, AttachLease(p)
  PROVE  IInv'
<1>0. /\ TypeOK /\ (\A f \in File : want[f] # "rgpu")
      /\ Closed /\ Entries /\ Untouched /\ Backing(p) /\ Installing(p) /\ Uninstalling(p)
      /\ \A q \in Proc : q = p
  BY DEF IInv, Running, Alone
<1>a. 1 \in File /\ NFiles \in Nat /\ File \subseteq Nat /\ NoJournal \in Journal
      /\ MaxFault \in Nat /\ MaxEdit \in Nat
  BY HostwideAssumption DEF File, NoJournal, Journal, Phase
<1>m. /\ UNCHANGED <<fs, bak, journal, cache, edits, want>>
      /\ pc[p] = "lease" /\ pc'[p] \in {"enter", "rollback"}
  BY <1>0, <1>a DEF AttachLease, Goto, TypeOK
<1>1. TypeOK'
  BY <1>0, <1>a DEF AttachLease, TypeOK, Goto, AttachPc, DetachPc
<1>2. (\A f \in File : want[f] # "rgpu")'
  BY <1>0, <1>a, <1>m DEF Closed, Entries, Untouched, Backing, Installing, Uninstalling, Noted, Changed
<1>3. Closed'
  BY <1>0, <1>a, <1>m DEF Closed, Entries, Untouched, Backing, Installing, Uninstalling, Noted, Changed
<1>4. Entries'
  BY <1>0, <1>a, <1>m DEF Closed, Entries, Untouched, Backing, Installing, Uninstalling, Noted, Changed
<1>5. Untouched'
  BY <1>0, <1>a, <1>m DEF Closed, Entries, Untouched, Backing, Installing, Uninstalling, Noted, Changed
<1>6. Backing(p)'
  BY <1>0, <1>a, <1>m DEF Closed, Entries, Untouched, Backing, Installing, Uninstalling, Noted, Changed
<1>7. Installing(p)'
  BY <1>0, <1>a, <1>m DEF Closed, Entries, Untouched, Backing, Installing, Uninstalling, Noted, Changed
<1>8. Uninstalling(p)'
  BY <1>0, <1>a, <1>m DEF Closed, Entries, Untouched, Backing, Installing, Uninstalling, Noted, Changed
<1> QED
  <2>1. Running'
    BY <1>0, <1>6, <1>7, <1>8 DEF Running
  <2> QED
    BY <1>1, <1>2, <1>3, <1>4, <1>5, <2>1 DEF IInv

\* install starts with an empty journal in memory.
LEMMA InstallEnterInv ==
  ASSUME Alone, IInv, NEW p \in Proc, InstallEnter(p)
  PROVE  IInv'
<1>0. /\ TypeOK /\ (\A f \in File : want[f] # "rgpu")
      /\ Closed /\ Entries /\ Untouched /\ Backing(p) /\ Installing(p) /\ Uninstalling(p)
      /\ \A q \in Proc : q = p
  BY DEF IInv, Running, Alone
<1>a. 1 \in File /\ NFiles \in Nat /\ File \subseteq Nat /\ NoJournal \in Journal
      /\ MaxFault \in Nat /\ MaxEdit \in Nat
  BY HostwideAssumption DEF File, NoJournal, Journal, Phase
<1>m. /\ UNCHANGED <<fs, bak, journal, cache, edits, want>>
      /\ pc[p] = "enter" /\ pc'[p] \in {"backup", "rollback"} /\ k'[p] = 1
      /\ mem'[p] = NoJournal
  BY <1>0, <1>a DEF InstallEnter, Goto, TypeOK
<1>1. TypeOK'
  BY <1>0, <1>a DEF InstallEnter, TypeOK, Goto, AttachPc, DetachPc
<1>2. (\A f \in File : want[f] # "rgpu")'
  BY <1>0, <1>a, <1>m DEF Closed, Entries, Untouched, Backing, Installing, Uninstalling, Noted, Changed
<1>3. Closed'
  BY <1>0, <1>a, <1>m DEF Closed, Entries, Untouched, Backing, Installing, Uninstalling, Noted, Changed
<1>4. Entries'
  BY <1>0, <1>a, <1>m DEF Closed, Entries, Untouched, Backing, Installing, Uninstalling, Noted, Changed
<1>5. Untouched'
  BY <1>0, <1>a, <1>m DEF Closed, Entries, Untouched, Backing, Installing, Uninstalling, Noted, Changed
<1>6. Backing(p)'
  BY <1>0, <1>a, <1>m DEF Closed, Entries, Untouched, Backing, Installing, Uninstalling, Noted, Changed, NoJournal, File
<1>7. Installing(p)'
  BY <1>0, <1>a, <1>m DEF Closed, Entries, Untouched, Backing, Installing, Uninstalling, Noted, Changed
<1>8. Uninstalling(p)'
  BY <1>0, <1>a, <1>m DEF Closed, Entries, Untouched, Backing, Installing, Uninstalling, Noted, Changed
<1> QED
  <2>1. Running'
    BY <1>0, <1>6, <1>7, <1>8 DEF Running
  <2> QED
    BY <1>1, <1>2, <1>3, <1>4, <1>5, <2>1 DEF IInv

\* One file is backed up.
LEMMA InstallBackupInv ==
  ASSUME Alone, IInv, NEW p \in Proc, InstallBackup(p)
  PROVE  IInv'
<1>0. /\ TypeOK /\ (\A f \in File : want[f] # "rgpu")
      /\ Closed /\ Entries /\ Untouched /\ Backing(p) /\ Installing(p) /\ Uninstalling(p)
      /\ \A q \in Proc : q = p
  BY DEF IInv, Running, Alone
<1>a. 1 \in File /\ NFiles \in Nat /\ File \subseteq Nat /\ NoJournal \in Journal
      /\ MaxFault \in Nat /\ MaxEdit \in Nat
  BY HostwideAssumption DEF File, NoJournal, Journal, Phase
<1>b. pc[p] = "backup" /\ journal = NoJournal /\ fs = want /\ k[p] \in File
  BY <1>0 DEF InstallBackup, Backing, Closed, TypeOK
<1>m. /\ UNCHANGED <<fs, journal, cache, edits, want>>
      /\ \/ k[p] < NFiles /\ pc'[p] = "backup" /\ k'[p] = k[p] + 1
         \/ k[p] = NFiles /\ pc'[p] = "journal"
  <2>1. UNCHANGED <<fs, journal, cache, edits, want>> /\ Loop(p, "journal")
    BY DEF InstallBackup
  <2> QED
    BY <1>0, <1>b, <2>1, LoopForm DEF Goto, TypeOK
<1>c. /\ mem[p] \in Journal /\ mem[p].backups \in [File -> BOOLEAN] /\ bak \in [File -> Content]
  BY <1>0 DEF TypeOK, Journal
<1>d. /\ bak' \in [File -> Content] /\ mem' \in [Proc -> Journal]
      /\ \A f \in File \ {k[p]} : bak'[f] = bak[f] /\ mem'[p].backups[f] = mem[p].backups[f]
      /\ IF want[k[p]] = Absent
           THEN mem'[p].backups[k[p]] = mem[p].backups[k[p]]
           ELSE bak'[k[p]] = want[k[p]] /\ mem'[p].backups[k[p]] = TRUE
  <2>1. CASE fs[k[p]] = Absent
    <3>1. UNCHANGED <<bak, mem>>
      BY <2>1 DEF InstallBackup
    <3> QED
      BY <1>0, <1>b, <2>1, <3>1 DEF TypeOK
  <2>2. CASE fs[k[p]] # Absent
    <3>1. /\ bak' = [bak EXCEPT ![k[p]] = fs[k[p]]]
          /\ mem' = [mem EXCEPT ![p].backups[k[p]] = TRUE]
      BY <2>2 DEF InstallBackup
    <3>2. fs[k[p]] \in Content
      BY <1>0, <1>b DEF TypeOK
    <3>3. /\ bak' \in [File -> Content] /\ bak'[k[p]] = want[k[p]]
          /\ \A f \in File \ {k[p]} : bak'[f] = bak[f]
      BY <1>b, <1>c, <3>1, <3>2
    <3>4. mem'[p] = [mem[p] EXCEPT !.backups = [mem[p].backups EXCEPT ![k[p]] = TRUE]]
      BY <1>0, <3>1 DEF TypeOK
    <3>5. mem'[p].backups = [mem[p].backups EXCEPT ![k[p]] = TRUE] /\ mem'[p] \in Journal
      BY <1>b, <1>c, <3>4 DEF Journal
    <3>6. mem' \in [Proc -> Journal]
      BY <1>0, <3>1, <3>5 DEF TypeOK
    <3> QED
      BY <1>b, <1>c, <2>2, <3>3, <3>5, <3>6
  <2> QED
    BY <2>1, <2>2
<1>1. TypeOK'
  <2>1. Loop(p, "journal") /\ UNCHANGED faults
    BY DEF InstallBackup
  <2>2. pc' \in [Proc -> {"idle"} \cup AttachPc \cup DetachPc] /\ k' \in [Proc -> File]
    BY <1>0, <1>a, <2>1, LoopForm DEF TypeOK, Goto, AttachPc
  <2> QED
    BY <1>0, <1>d, <1>m, <2>1, <2>2 DEF TypeOK
<1>2. (\A f \in File : want[f] # "rgpu")'
  BY <1>0, <1>a, <1>b, <1>m DEF Closed, Entries, Untouched, Installing, Uninstalling
<1>3. Closed'
  BY <1>0, <1>a, <1>b, <1>m DEF Closed, Entries, Untouched, Installing, Uninstalling
<1>4. Entries'
  BY <1>0, <1>a, <1>b, <1>m DEF Closed, Entries, Untouched, Installing, Uninstalling
<1>5. Untouched'
  BY <1>0, <1>a, <1>b, <1>m DEF Closed, Entries, Untouched, Installing, Uninstalling
<1>6. Backing(p)'
  <2>1. ASSUME NEW f \in File, f < k[p] + 1
        PROVE  Noted(mem[p], f)'
    <3>1. CASE f = k[p]
      BY <1>0, <1>a, <1>b, <1>d, <1>m, <3>1 DEF Backing, Noted
    <3>2. CASE f # k[p]
      <4>1. f < k[p]
        BY <1>a, <1>b, <2>1, <3>2 DEF File
      <4>2. Noted(mem[p], f)
        BY <1>0, <1>b, <4>1 DEF Backing
      <4> QED
        BY <1>d, <1>m, <3>2, <4>2 DEF Noted
    <3> QED
      BY <3>1, <3>2
  <2>2. ASSUME NEW f \in File, ~(f < k[p] + 1)
        PROVE  ~mem'[p].backups[f]
    <3>1. f # k[p] /\ ~(f < k[p])
      BY <1>a, <1>b, <2>2 DEF File
    <3> QED
      BY <1>0, <1>b, <1>d, <3>1 DEF Backing
  <2>3. CASE k[p] < NFiles /\ pc'[p] = "backup" /\ k'[p] = k[p] + 1
    BY <1>b, <1>m, <2>1, <2>2, <2>3 DEF Backing
  <2>4. CASE k[p] = NFiles /\ pc'[p] = "journal"
    <3>1. \A f \in File : f < k[p] + 1
      BY <1>a, <2>4 DEF File
    <3> QED
      BY <1>b, <1>m, <2>1, <2>4, <3>1 DEF Backing
  <2> QED
    BY <1>m, <2>3, <2>4
<1>7. Installing(p)'
  BY <1>0, <1>a, <1>b, <1>m DEF Closed, Entries, Untouched, Installing, Uninstalling
<1>8. Uninstalling(p)'
  BY <1>0, <1>a, <1>b, <1>m DEF Closed, Entries, Untouched, Installing, Uninstalling
<1> QED
  <2>1. Running'
    BY <1>0, <1>6, <1>7, <1>8 DEF Running
  <2> QED
    BY <1>1, <1>2, <1>3, <1>4, <1>5, <2>1 DEF IInv

\* The write-ahead record.
LEMMA InstallJournalInv ==
  ASSUME Alone, IInv, NEW p \in Proc, InstallJournal(p)
  PROVE  IInv'
<1>0. /\ TypeOK /\ (\A f \in File : want[f] # "rgpu")
      /\ Closed /\ Entries /\ Untouched /\ Backing(p) /\ Installing(p) /\ Uninstalling(p)
      /\ \A q \in Proc : q = p
  BY DEF IInv, Running, Alone
<1>a. 1 \in File /\ NFiles \in Nat /\ File \subseteq Nat /\ NoJournal \in Journal
      /\ MaxFault \in Nat /\ MaxEdit \in Nat
  BY HostwideAssumption DEF File, NoJournal, Journal, Phase
<1>c. mem[p] \in Journal /\ [mem[p] EXCEPT !.phase = "installing"] \in Journal
      /\ [mem[p] EXCEPT !.phase = "installing"].phase = "installing"
      /\ [mem[p] EXCEPT !.phase = "installing"].backups = mem[p].backups
  BY <1>0 DEF TypeOK, Journal, Phase
<1>b. pc[p] = "journal" /\ journal = NoJournal /\ fs = want
  BY <1>0 DEF InstallJournal, Backing, Closed
<1>d. mem' = [mem EXCEPT ![p] = [mem[p] EXCEPT !.phase = "installing"]]
  BY DEF InstallJournal
<1>e. journal' = mem'[p] /\ mem'[p] = [mem[p] EXCEPT !.phase = "installing"]
  BY <1>0, <1>d DEF InstallJournal, TypeOK
<1>m. /\ UNCHANGED <<fs, bak, cache, edits, want>> /\ pc'[p] = "copy"
      /\ journal' = mem'[p] /\ journal'.phase = "installing" /\ journal'.backups = mem[p].backups
      /\ journal' # NoJournal
  BY <1>0, <1>c, <1>e DEF InstallJournal, Goto, TypeOK, NoJournal
<1>n. \A f \in File : Noted(journal, f)'
  BY <1>0, <1>b, <1>m DEF Backing, Noted
<1>1. TypeOK'
  BY <1>0, <1>a, <1>c, <1>d, <1>e DEF InstallJournal, TypeOK, Goto, AttachPc, DetachPc
<1>2. (\A f \in File : want[f] # "rgpu")'
  BY <1>0, <1>a, <1>b, <1>m, <1>n DEF Closed, Entries, Untouched, Backing, Installing, Uninstalling
<1>3. Closed'
  BY <1>0, <1>a, <1>b, <1>m, <1>n DEF Closed, Entries, Untouched, Backing, Installing, Uninstalling
<1>4. Entries'
  BY <1>0, <1>a, <1>b, <1>m, <1>n DEF Closed, Entries, Untouched, Backing, Installing, Uninstalling
<1>5. Untouched'
  BY <1>0, <1>a, <1>b, <1>m, <1>n DEF Closed, Entries, Untouched, Backing, Installing, Uninstalling
<1>6. Backing(p)'
  BY <1>0, <1>a, <1>b, <1>m, <1>n DEF Closed, Entries, Untouched, Backing, Installing, Uninstalling
<1>7. Installing(p)'
  BY <1>0, <1>a, <1>b, <1>m, <1>n DEF Closed, Entries, Untouched, Backing, Installing, Uninstalling
<1>8. Uninstalling(p)'
  BY <1>0, <1>a, <1>b, <1>m, <1>n DEF Closed, Entries, Untouched, Backing, Installing, Uninstalling
<1> QED
  <2>1. Running'
    BY <1>0, <1>6, <1>7, <1>8 DEF Running
  <2> QED
    BY <1>1, <1>2, <1>3, <1>4, <1>5, <2>1 DEF IInv

\* One file is replaced.
LEMMA InstallCopyInv ==
  ASSUME Alone, IInv, NEW p \in Proc, InstallCopy(p)
  PROVE  IInv'
<1>0. /\ TypeOK /\ (\A f \in File : want[f] # "rgpu")
      /\ Closed /\ Entries /\ Untouched /\ Backing(p) /\ Installing(p) /\ Uninstalling(p)
      /\ \A q \in Proc : q = p
  BY DEF IInv, Running, Alone
<1>a. 1 \in File /\ NFiles \in Nat /\ File \subseteq Nat /\ NoJournal \in Journal
      /\ MaxFault \in Nat /\ MaxEdit \in Nat
  BY HostwideAssumption DEF File, NoJournal, Journal, Phase
<1>b. /\ pc[p] = "copy" /\ k[p] \in File /\ journal = mem[p] /\ journal.phase = "installing"
      /\ \A f \in File : Noted(journal, f) /\ fs[f] \in {"rgpu", want[f]}
  BY <1>0 DEF InstallCopy, Installing, TypeOK
<1>m. /\ UNCHANGED <<bak, journal, cache, mem, edits, want>> /\ pc'[p] \in {"copy", "ldconfig"}
      /\ fs' \in [File -> Content] /\ fs'[k[p]] = "rgpu"
      /\ \A f \in File \ {k[p]} : fs'[f] = fs[f]
  <2>1. Loop(p, "ldconfig") /\ UNCHANGED <<bak, journal, cache, mem, edits, want>>
        /\ fs' = [fs EXCEPT ![k[p]] = "rgpu"]
    BY DEF InstallCopy
  <2>2. pc'[p] \in {"copy", "ldconfig"}
    BY <1>0, <1>b, <2>1, LoopForm DEF Goto, TypeOK
  <2> QED
    BY <1>0, <1>b, <2>1, <2>2 DEF TypeOK, Content
<1>n. \A f \in File : Noted(journal, f)' /\ fs'[f] \in {"rgpu", want[f]}
  BY <1>b, <1>m DEF Noted
<1>o. journal # NoJournal
  BY <1>b DEF NoJournal
<1>1. TypeOK'
  <2>1. Loop(p, "ldconfig") /\ UNCHANGED faults
    BY DEF InstallCopy
  <2>2. pc' \in [Proc -> {"idle"} \cup AttachPc \cup DetachPc] /\ k' \in [Proc -> File]
    BY <1>0, <1>a, <2>1, LoopForm DEF TypeOK, Goto, AttachPc
  <2> QED
    BY <1>0, <1>m, <2>1, <2>2 DEF TypeOK
<1>2. (\A f \in File : want[f] # "rgpu")'
  BY <1>0, <1>a, <1>b, <1>m, <1>n, <1>o DEF Closed, Entries, Untouched, Backing, Installing, Uninstalling
<1>3. Closed'
  BY <1>0, <1>a, <1>b, <1>m, <1>n, <1>o DEF Closed, Entries, Untouched, Backing, Installing, Uninstalling
<1>4. Entries'
  BY <1>0, <1>a, <1>b, <1>m, <1>n, <1>o DEF Closed, Entries, Untouched, Backing, Installing, Uninstalling
<1>5. Untouched'
  BY <1>0, <1>a, <1>b, <1>m, <1>n, <1>o DEF Closed, Entries, Untouched, Backing, Installing, Uninstalling
<1>6. Backing(p)'
  BY <1>0, <1>a, <1>b, <1>m, <1>n, <1>o DEF Closed, Entries, Untouched, Backing, Installing, Uninstalling
<1>7. Installing(p)'
  BY <1>0, <1>a, <1>b, <1>m, <1>n, <1>o DEF Closed, Entries, Untouched, Backing, Installing, Uninstalling
<1>8. Uninstalling(p)'
  BY <1>0, <1>a, <1>b, <1>m, <1>n, <1>o DEF Closed, Entries, Untouched, Backing, Installing, Uninstalling
<1> QED
  <2>1. Running'
    BY <1>0, <1>6, <1>7, <1>8 DEF Running
  <2> QED
    BY <1>1, <1>2, <1>3, <1>4, <1>5, <2>1 DEF IInv

\* ldconfig, or its failure.
LEMMA InstallLdconfigInv ==
  ASSUME Alone, IInv, NEW p \in Proc, InstallLdconfig(p)
  PROVE  IInv'
<1>0. /\ TypeOK /\ (\A f \in File : want[f] # "rgpu")
      /\ Closed /\ Entries /\ Untouched /\ Backing(p) /\ Installing(p) /\ Uninstalling(p)
      /\ \A q \in Proc : q = p
  BY DEF IInv, Running, Alone
<1>a. 1 \in File /\ NFiles \in Nat /\ File \subseteq Nat /\ NoJournal \in Journal
      /\ MaxFault \in Nat /\ MaxEdit \in Nat
  BY HostwideAssumption DEF File, NoJournal, Journal, Phase
<1>b. /\ pc[p] = "ldconfig" /\ journal = mem[p] /\ journal.phase = "installing"
      /\ journal # NoJournal
  BY <1>0 DEF InstallLdconfig, Installing, NoJournal
<1>m. /\ UNCHANGED <<fs, bak, journal, mem, edits, want>> /\ pc'[p] \in {"verify", "rollback"}
      /\ cache' \in BOOLEAN
  BY <1>0 DEF InstallLdconfig, Goto, TypeOK
<1>1. TypeOK'
  <2>1. faults' \in 0 .. MaxFault
    BY <1>0, <1>a DEF InstallLdconfig, TypeOK
  <2>2. pc' \in [Proc -> {"idle"} \cup AttachPc \cup DetachPc] /\ k' \in [Proc -> File]
    BY <1>0, <1>a DEF InstallLdconfig, TypeOK, Goto, AttachPc, DetachPc
  <2>3. mem' \in [Proc -> Journal] /\ journal' \in Journal /\ cache' \in BOOLEAN
    BY <1>0, <1>a DEF InstallLdconfig, TypeOK
  <2> QED
    BY <1>0, <2>1, <2>2, <2>3 DEF InstallLdconfig, TypeOK
<1>2. (\A f \in File : want[f] # "rgpu")'
  BY <1>0, <1>a, <1>b, <1>m DEF Closed, Entries, Untouched, Backing, Installing, Uninstalling, Noted, Changed
<1>3. Closed'
  BY <1>0, <1>a, <1>b, <1>m DEF Closed, Entries, Untouched, Backing, Installing, Uninstalling, Noted, Changed
<1>4. Entries'
  BY <1>0, <1>a, <1>b, <1>m DEF Closed, Entries, Untouched, Backing, Installing, Uninstalling, Noted, Changed
<1>5. Untouched'
  BY <1>0, <1>a, <1>b, <1>m DEF Closed, Entries, Untouched, Backing, Installing, Uninstalling, Noted, Changed
<1>6. Backing(p)'
  BY <1>0, <1>a, <1>b, <1>m DEF Closed, Entries, Untouched, Backing, Installing, Uninstalling, Noted, Changed
<1>7. Installing(p)'
  BY <1>0, <1>a, <1>b, <1>m DEF Closed, Entries, Untouched, Backing, Installing, Uninstalling, Noted, Changed
<1>8. Uninstalling(p)'
  BY <1>0, <1>a, <1>b, <1>m DEF Closed, Entries, Untouched, Backing, Installing, Uninstalling, Noted, Changed
<1> QED
  <2>1. Running'
    BY <1>0, <1>6, <1>7, <1>8 DEF Running
  <2> QED
    BY <1>1, <1>2, <1>3, <1>4, <1>5, <2>1 DEF IInv

\* The installed fingerprints are compared.
LEMMA InstallVerifyInv ==
  ASSUME Alone, IInv, NEW p \in Proc, InstallVerify(p)
  PROVE  IInv'
<1>0. /\ TypeOK /\ (\A f \in File : want[f] # "rgpu")
      /\ Closed /\ Entries /\ Untouched /\ Backing(p) /\ Installing(p) /\ Uninstalling(p)
      /\ \A q \in Proc : q = p
  BY DEF IInv, Running, Alone
<1>a. 1 \in File /\ NFiles \in Nat /\ File \subseteq Nat /\ NoJournal \in Journal
      /\ MaxFault \in Nat /\ MaxEdit \in Nat
  BY HostwideAssumption DEF File, NoJournal, Journal, Phase
<1>m. /\ UNCHANGED <<fs, bak, journal, cache, edits, want>>
      /\ pc[p] = "verify" /\ pc'[p] \in {"commit", "rollback"} /\ UNCHANGED mem
      /\ pc'[p] = "commit" => \A f \in File : fs[f] = "rgpu"
  BY <1>0, <1>a DEF InstallVerify, Goto, TypeOK
<1>1. TypeOK'
  BY <1>0, <1>a DEF InstallVerify, TypeOK, Goto, AttachPc, DetachPc
<1>2. (\A f \in File : want[f] # "rgpu")'
  BY <1>0, <1>a, <1>m DEF Closed, Entries, Untouched, Backing, Installing, Uninstalling, Noted, Changed
<1>3. Closed'
  BY <1>0, <1>a, <1>m DEF Closed, Entries, Untouched, Backing, Installing, Uninstalling, Noted, Changed
<1>4. Entries'
  BY <1>0, <1>a, <1>m DEF Closed, Entries, Untouched, Backing, Installing, Uninstalling, Noted, Changed
<1>5. Untouched'
  BY <1>0, <1>a, <1>m DEF Closed, Entries, Untouched, Backing, Installing, Uninstalling, Noted, Changed
<1>6. Backing(p)'
  BY <1>0, <1>a, <1>m DEF Closed, Entries, Untouched, Backing, Installing, Uninstalling, Noted, Changed
<1>7. Installing(p)'
  BY <1>0, <1>a, <1>m DEF Closed, Entries, Untouched, Backing, Installing, Uninstalling, Noted, Changed
<1>8. Uninstalling(p)'
  BY <1>0, <1>a, <1>m DEF Closed, Entries, Untouched, Backing, Installing, Uninstalling, Noted, Changed
<1> QED
  <2>1. Running'
    BY <1>0, <1>6, <1>7, <1>8 DEF Running
  <2> QED
    BY <1>1, <1>2, <1>3, <1>4, <1>5, <2>1 DEF IInv

\* The attachment is committed.
LEMMA InstallCommitInv ==
  ASSUME Alone, IInv, NEW p \in Proc, InstallCommit(p)
  PROVE  IInv'
<1>0. /\ TypeOK /\ (\A f \in File : want[f] # "rgpu")
      /\ Closed /\ Entries /\ Untouched /\ Backing(p) /\ Installing(p) /\ Uninstalling(p)
      /\ \A q \in Proc : q = p
  BY DEF IInv, Running, Alone
<1>a. 1 \in File /\ NFiles \in Nat /\ File \subseteq Nat /\ NoJournal \in Journal
      /\ MaxFault \in Nat /\ MaxEdit \in Nat
  BY HostwideAssumption DEF File, NoJournal, Journal, Phase
<1>c. mem[p] \in Journal /\ [mem[p] EXCEPT !.phase = "attached"] \in Journal
      /\ [mem[p] EXCEPT !.phase = "attached"].phase = "attached"
      /\ [mem[p] EXCEPT !.phase = "attached"].backups = mem[p].backups
  BY <1>0 DEF TypeOK, Journal, Phase
<1>b. /\ pc[p] = "commit" /\ journal = mem[p] /\ journal # NoJournal
      /\ \A f \in File : Noted(journal, f) /\ fs[f] = "rgpu"
  BY <1>0 DEF InstallCommit, Installing, NoJournal
<1>d. mem' = [mem EXCEPT ![p] = [mem[p] EXCEPT !.phase = "attached"]]
  BY DEF InstallCommit
<1>e. journal' = mem'[p] /\ mem'[p] = [mem[p] EXCEPT !.phase = "attached"]
  BY <1>0, <1>d DEF InstallCommit, TypeOK
<1>m. /\ UNCHANGED <<fs, bak, cache, edits, want>> /\ pc'[p] \in {"idle", "rollback"}
      /\ journal'.phase = "attached" /\ journal'.backups = journal.backups
      /\ journal' # NoJournal
  BY <1>0, <1>b, <1>c, <1>e DEF InstallCommit, Goto, TypeOK, NoJournal
<1>n. \A f \in File : Noted(journal, f)'
  BY <1>b, <1>m DEF Noted
<1>1. TypeOK'
  <2>1. faults' \in 0 .. MaxFault
    BY <1>0, <1>a DEF InstallCommit, TypeOK
  <2>2. pc' \in [Proc -> {"idle"} \cup AttachPc \cup DetachPc] /\ k' \in [Proc -> File]
    BY <1>0, <1>a DEF InstallCommit, TypeOK, Goto, AttachPc, DetachPc
  <2>3. mem' \in [Proc -> Journal] /\ journal' \in Journal /\ cache' \in BOOLEAN
    BY <1>0, <1>a, <1>c, <1>d, <1>e DEF InstallCommit, TypeOK
  <2> QED
    BY <1>0, <2>1, <2>2, <2>3 DEF InstallCommit, TypeOK
<1>2. (\A f \in File : want[f] # "rgpu")'
  BY <1>0, <1>a, <1>b, <1>m, <1>n DEF Closed, Entries, Untouched, Backing, Installing, Uninstalling
<1>3. Closed'
  BY <1>0, <1>a, <1>b, <1>m, <1>n DEF Closed, Entries, Untouched, Backing, Installing, Uninstalling
<1>4. Entries'
  BY <1>0, <1>a, <1>b, <1>m, <1>n DEF Closed, Entries, Untouched, Backing, Installing, Uninstalling
<1>5. Untouched'
  BY <1>0, <1>a, <1>b, <1>m, <1>n DEF Closed, Entries, Untouched, Backing, Installing, Uninstalling
<1>6. Backing(p)'
  BY <1>0, <1>a, <1>b, <1>m, <1>n DEF Closed, Entries, Untouched, Backing, Installing, Uninstalling
<1>7. Installing(p)'
  BY <1>0, <1>a, <1>b, <1>m, <1>n DEF Closed, Entries, Untouched, Backing, Installing, Uninstalling
<1>8. Uninstalling(p)'
  BY <1>0, <1>a, <1>b, <1>m, <1>n DEF Closed, Entries, Untouched, Backing, Installing, Uninstalling
<1> QED
  <2>1. Running'
    BY <1>0, <1>6, <1>7, <1>8 DEF Running
  <2> QED
    BY <1>1, <1>2, <1>3, <1>4, <1>5, <2>1 DEF IInv

\* command_attach's exception handler.
LEMMA AttachRollbackInv ==
  ASSUME Alone, IInv, NEW p \in Proc, AttachRollback(p)
  PROVE  IInv'
<1>0. /\ TypeOK /\ (\A f \in File : want[f] # "rgpu")
      /\ Closed /\ Entries /\ Untouched /\ Backing(p) /\ Installing(p) /\ Uninstalling(p)
      /\ \A q \in Proc : q = p
  BY DEF IInv, Running, Alone
<1>a. 1 \in File /\ NFiles \in Nat /\ File \subseteq Nat /\ NoJournal \in Journal
      /\ MaxFault \in Nat /\ MaxEdit \in Nat
  BY HostwideAssumption DEF File, NoJournal, Journal, Phase
<1>m. /\ UNCHANGED <<fs, bak, journal, cache, edits, want>>
      /\ pc'[p] \in {"read", "idle"} /\ UNCHANGED mem
  BY <1>0, <1>a DEF AttachRollback, Goto, TypeOK
<1>1. TypeOK'
  BY <1>0, <1>a DEF AttachRollback, TypeOK, Goto, AttachPc, DetachPc
<1>2. (\A f \in File : want[f] # "rgpu")'
  BY <1>0, <1>a, <1>m DEF Closed, Entries, Untouched, Backing, Installing, Uninstalling, Noted, Changed
<1>3. Closed'
  BY <1>0, <1>a, <1>m DEF Closed, Entries, Untouched, Backing, Installing, Uninstalling, Noted, Changed
<1>4. Entries'
  BY <1>0, <1>a, <1>m DEF Closed, Entries, Untouched, Backing, Installing, Uninstalling, Noted, Changed
<1>5. Untouched'
  BY <1>0, <1>a, <1>m DEF Closed, Entries, Untouched, Backing, Installing, Uninstalling, Noted, Changed
<1>6. Backing(p)'
  BY <1>0, <1>a, <1>m DEF Closed, Entries, Untouched, Backing, Installing, Uninstalling, Noted, Changed
<1>7. Installing(p)'
  BY <1>0, <1>a, <1>m DEF Closed, Entries, Untouched, Backing, Installing, Uninstalling, Noted, Changed
<1>8. Uninstalling(p)'
  BY <1>0, <1>a, <1>m DEF Closed, Entries, Untouched, Backing, Installing, Uninstalling, Noted, Changed
<1> QED
  <2>1. Running'
    BY <1>0, <1>6, <1>7, <1>8 DEF Running
  <2> QED
    BY <1>1, <1>2, <1>3, <1>4, <1>5, <2>1 DEF IInv

\* command_detach or rescue starts.
LEMMA DetachBeginInv ==
  ASSUME Alone, IInv, NEW p \in Proc, DetachBegin(p)
  PROVE  IInv'
<1>0. /\ TypeOK /\ (\A f \in File : want[f] # "rgpu")
      /\ Closed /\ Entries /\ Untouched /\ Backing(p) /\ Installing(p) /\ Uninstalling(p)
      /\ \A q \in Proc : q = p
  BY DEF IInv, Running, Alone
<1>a. 1 \in File /\ NFiles \in Nat /\ File \subseteq Nat /\ NoJournal \in Journal
      /\ MaxFault \in Nat /\ MaxEdit \in Nat
  BY HostwideAssumption DEF File, NoJournal, Journal, Phase
<1>m. /\ UNCHANGED <<fs, bak, journal, cache, edits, want>>
      /\ pc'[p] = "read" /\ UNCHANGED mem
  BY <1>0, <1>a DEF DetachBegin, Goto, TypeOK
<1>1. TypeOK'
  BY <1>0, <1>a DEF DetachBegin, TypeOK, Goto, AttachPc, DetachPc
<1>2. (\A f \in File : want[f] # "rgpu")'
  BY <1>0, <1>a, <1>m DEF Closed, Entries, Untouched, Backing, Installing, Uninstalling, Noted, Changed
<1>3. Closed'
  BY <1>0, <1>a, <1>m DEF Closed, Entries, Untouched, Backing, Installing, Uninstalling, Noted, Changed
<1>4. Entries'
  BY <1>0, <1>a, <1>m DEF Closed, Entries, Untouched, Backing, Installing, Uninstalling, Noted, Changed
<1>5. Untouched'
  BY <1>0, <1>a, <1>m DEF Closed, Entries, Untouched, Backing, Installing, Uninstalling, Noted, Changed
<1>6. Backing(p)'
  BY <1>0, <1>a, <1>m DEF Closed, Entries, Untouched, Backing, Installing, Uninstalling, Noted, Changed
<1>7. Installing(p)'
  BY <1>0, <1>a, <1>m DEF Closed, Entries, Untouched, Backing, Installing, Uninstalling, Noted, Changed
<1>8. Uninstalling(p)'
  BY <1>0, <1>a, <1>m DEF Closed, Entries, Untouched, Backing, Installing, Uninstalling, Noted, Changed
<1> QED
  <2>1. Running'
    BY <1>0, <1>6, <1>7, <1>8 DEF Running
  <2> QED
    BY <1>1, <1>2, <1>3, <1>4, <1>5, <2>1 DEF IInv

\* uninstall checks the files against the journal.
LEMMA UninstallReadInv ==
  ASSUME Alone, IInv, NEW p \in Proc, UninstallRead(p)
  PROVE  IInv'
<1>0. /\ TypeOK /\ (\A f \in File : want[f] # "rgpu")
      /\ Closed /\ Entries /\ Untouched /\ Backing(p) /\ Installing(p) /\ Uninstalling(p)
      /\ \A q \in Proc : q = p
  BY DEF IInv, Running, Alone
<1>a. 1 \in File /\ NFiles \in Nat /\ File \subseteq Nat /\ NoJournal \in Journal
      /\ MaxFault \in Nat /\ MaxEdit \in Nat
  BY HostwideAssumption DEF File, NoJournal, Journal, Phase
<1>m. /\ UNCHANGED <<fs, bak, journal, cache, edits, want>>
      /\ pc'[p] \in {"idle", "intent"} /\ mem'[p] = journal
      /\ pc'[p] = "intent" => journal # NoJournal /\ Changed(journal) = {}
  BY <1>0, <1>a DEF UninstallRead, Goto, TypeOK
<1>1. TypeOK'
  BY <1>0, <1>a DEF UninstallRead, TypeOK, Goto, AttachPc, DetachPc
<1>2. (\A f \in File : want[f] # "rgpu")'
  BY <1>0, <1>a, <1>m DEF Closed, Entries, Untouched, Backing, Installing, Uninstalling, Noted, Changed
<1>3. Closed'
  BY <1>0, <1>a, <1>m DEF Closed, Entries, Untouched, Backing, Installing, Uninstalling, Noted, Changed
<1>4. Entries'
  BY <1>0, <1>a, <1>m DEF Closed, Entries, Untouched, Backing, Installing, Uninstalling, Noted, Changed
<1>5. Untouched'
  BY <1>0, <1>a, <1>m DEF Closed, Entries, Untouched, Backing, Installing, Uninstalling, Noted, Changed
<1>6. Backing(p)'
  BY <1>0, <1>a, <1>m DEF Closed, Entries, Untouched, Backing, Installing, Uninstalling, Noted, Changed
<1>7. Installing(p)'
  BY <1>0, <1>a, <1>m DEF Closed, Entries, Untouched, Backing, Installing, Uninstalling, Noted, Changed
<1>8. Uninstalling(p)'
  BY <1>0, <1>a, <1>m DEF Closed, Entries, Untouched, Backing, Installing, Uninstalling, Noted, Changed
<1> QED
  <2>1. Running'
    BY <1>0, <1>6, <1>7, <1>8 DEF Running
  <2> QED
    BY <1>1, <1>2, <1>3, <1>4, <1>5, <2>1 DEF IInv

\* The intent to detach is recorded.
LEMMA UninstallIntentInv ==
  ASSUME Alone, IInv, NEW p \in Proc, UninstallIntent(p)
  PROVE  IInv'
<1>0. /\ TypeOK /\ (\A f \in File : want[f] # "rgpu")
      /\ Closed /\ Entries /\ Untouched /\ Backing(p) /\ Installing(p) /\ Uninstalling(p)
      /\ \A q \in Proc : q = p
  BY DEF IInv, Running, Alone
<1>a. 1 \in File /\ NFiles \in Nat /\ File \subseteq Nat /\ NoJournal \in Journal
      /\ MaxFault \in Nat /\ MaxEdit \in Nat
  BY HostwideAssumption DEF File, NoJournal, Journal, Phase
<1>c. mem[p] \in Journal /\ [mem[p] EXCEPT !.phase = "detaching"] \in Journal
      /\ [mem[p] EXCEPT !.phase = "detaching"].phase = "detaching"
      /\ [mem[p] EXCEPT !.phase = "detaching"].backups = mem[p].backups
  BY <1>0 DEF TypeOK, Journal, Phase
<1>b. /\ pc[p] = "intent" /\ journal = mem[p] /\ journal # NoJournal
      /\ \A f \in File : Noted(journal, f)
  BY <1>0 DEF UninstallIntent, Uninstalling, Entries
<1>d. /\ mem' \in [Proc -> Journal] /\ journal' = mem'[p] /\ journal'.phase = "detaching"
      /\ journal'.backups = journal.backups /\ mem'[p] \in Journal
  <2>1. CASE mem[p].phase = "detaching"
    BY <1>0, <1>b, <2>1 DEF UninstallIntent, TypeOK
  <2>2. CASE mem[p].phase # "detaching"
    <3>1. mem' = [mem EXCEPT ![p] = [mem[p] EXCEPT !.phase = "detaching"]] /\ journal' = mem'[p]
      BY <2>2 DEF UninstallIntent
    <3>2. mem'[p] = [mem[p] EXCEPT !.phase = "detaching"] /\ mem' \in [Proc -> Journal]
      BY <1>0, <1>c, <3>1 DEF TypeOK
    <3> QED
      BY <1>b, <1>c, <3>1, <3>2
  <2> QED
    BY <2>1, <2>2
<1>m. /\ UNCHANGED <<fs, bak, cache, edits, want>> /\ pc'[p] = "remove" /\ k'[p] = 1
      /\ journal' # NoJournal
  BY <1>0, <1>d DEF UninstallIntent, Goto, TypeOK, NoJournal
<1>n. \A f \in File : Noted(journal, f)' /\ ~(f < 1)
  BY <1>b, <1>d, <1>m DEF Noted, File
<1>1. TypeOK'
  BY <1>0, <1>a, <1>d DEF UninstallIntent, TypeOK, Goto, AttachPc, DetachPc
<1>2. (\A f \in File : want[f] # "rgpu")'
  BY <1>0, <1>a, <1>b, <1>d, <1>m, <1>n DEF Closed, Entries, Untouched, Backing, Installing, Uninstalling
<1>3. Closed'
  BY <1>0, <1>a, <1>b, <1>d, <1>m, <1>n DEF Closed, Entries, Untouched, Backing, Installing, Uninstalling
<1>4. Entries'
  BY <1>0, <1>a, <1>b, <1>d, <1>m, <1>n DEF Closed, Entries, Untouched, Backing, Installing, Uninstalling
<1>5. Untouched'
  BY <1>0, <1>a, <1>b, <1>d, <1>m, <1>n DEF Closed, Entries, Untouched, Backing, Installing, Uninstalling
<1>6. Backing(p)'
  BY <1>0, <1>a, <1>b, <1>d, <1>m, <1>n DEF Closed, Entries, Untouched, Backing, Installing, Uninstalling
<1>7. Installing(p)'
  BY <1>0, <1>a, <1>b, <1>d, <1>m, <1>n DEF Closed, Entries, Untouched, Backing, Installing, Uninstalling
<1>8. Uninstalling(p)'
  BY <1>0, <1>a, <1>b, <1>d, <1>m, <1>n DEF Closed, Entries, Untouched, Backing, Installing, Uninstalling
<1> QED
  <2>1. Running'
    BY <1>0, <1>6, <1>7, <1>8 DEF Running
  <2> QED
    BY <1>1, <1>2, <1>3, <1>4, <1>5, <2>1 DEF IInv

\* One file is removed.
LEMMA UninstallRemoveInv ==
  ASSUME Alone, IInv, NEW p \in Proc, UninstallRemove(p)
  PROVE  IInv'
<1>0. /\ TypeOK /\ (\A f \in File : want[f] # "rgpu")
      /\ Closed /\ Entries /\ Untouched /\ Backing(p) /\ Installing(p) /\ Uninstalling(p)
      /\ \A q \in Proc : q = p
  BY DEF IInv, Running, Alone
<1>a. 1 \in File /\ NFiles \in Nat /\ File \subseteq Nat /\ NoJournal \in Journal
      /\ MaxFault \in Nat /\ MaxEdit \in Nat
  BY HostwideAssumption DEF File, NoJournal, Journal, Phase
<1>b. /\ pc[p] = "remove" /\ journal = mem[p] /\ journal.phase = "detaching" /\ k[p] \in File
      /\ journal # NoJournal /\ \A f \in File : Noted(journal, f)
  BY <1>0 DEF UninstallRemove, Uninstalling, NoJournal, TypeOK
<1>d. /\ pc' \in [Proc -> {"idle"} \cup AttachPc \cup DetachPc] /\ k' \in [Proc -> File]
      /\ \/ k[p] < NFiles /\ pc'[p] = "remove" /\ k'[p] = k[p] + 1
         \/ k[p] = NFiles /\ pc'[p] = "restore" /\ k'[p] = 1
  <2>1. Loop(p, "restore")
    BY DEF UninstallRemove
  <2> QED
    BY <1>0, <1>a, <1>b, <2>1, LoopForm DEF TypeOK, Goto, DetachPc
<1>m. /\ UNCHANGED <<bak, journal, cache, mem, edits, want>>
      /\ fs' \in [File -> Content] /\ fs'[k[p]] = Absent
      /\ \A f \in File \ {k[p]} : fs'[f] = fs[f]
  BY <1>0, <1>b DEF UninstallRemove, TypeOK, Content
<1>n. \A f \in File : Noted(journal, f)'
  BY <1>b, <1>m DEF Noted
<1>o. \A f \in File : f < k[p] + 1 => fs'[f] = Absent
  <2>1. ASSUME NEW f \in File, f < k[p] + 1, f # k[p]
        PROVE  fs[f] = Absent
    <3>1. f < k[p]
      BY <1>a, <1>b, <2>1 DEF File
    <3> QED
      BY <1>0, <1>b, <3>1 DEF Uninstalling
  <2> QED
    BY <1>m, <2>1
<1>1. TypeOK'
  <2>1. UNCHANGED faults
    BY DEF UninstallRemove
  <2> QED
    BY <1>0, <1>d, <1>m, <2>1 DEF TypeOK
<1>2. (\A f \in File : want[f] # "rgpu")'
  BY <1>0, <1>a, <1>b, <1>d, <1>m, <1>n DEF Closed, Entries, Untouched, Backing, Installing
<1>3. Closed'
  BY <1>0, <1>a, <1>b, <1>d, <1>m, <1>n DEF Closed, Entries, Untouched, Backing, Installing
<1>4. Entries'
  BY <1>0, <1>a, <1>b, <1>d, <1>m, <1>n DEF Closed, Entries, Untouched, Backing, Installing
<1>5. Untouched'
  <2>1. ASSUME NEW f \in File, edits = 0
        PROVE  fs'[f] \in {Absent, "rgpu", want[f]}
    BY <1>0, <1>b, <1>m, <2>1 DEF Untouched
  <2> QED
    BY <1>b, <1>m, <1>n, <2>1 DEF Untouched
<1>6. Backing(p)'
  BY <1>0, <1>a, <1>b, <1>d, <1>m, <1>n DEF Closed, Entries, Untouched, Backing, Installing
<1>7. Installing(p)'
  BY <1>0, <1>a, <1>b, <1>d, <1>m, <1>n DEF Closed, Entries, Untouched, Backing, Installing
<1>8. Uninstalling(p)'
  <2>1. CASE k[p] < NFiles /\ pc'[p] = "remove" /\ k'[p] = k[p] + 1
    BY <1>b, <1>m, <1>n, <1>o, <2>1 DEF Uninstalling
  <2>2. CASE k[p] = NFiles /\ pc'[p] = "restore" /\ k'[p] = 1
    <3>1. \A f \in File : f < k[p] + 1 /\ ~(f < 1)
      BY <1>a, <2>2 DEF File
    <3> QED
      BY <1>b, <1>m, <1>n, <1>o, <2>2, <3>1 DEF Uninstalling
  <2> QED
    BY <1>d, <2>1, <2>2
<1> QED
  <2>1. Running'
    BY <1>0, <1>6, <1>7, <1>8 DEF Running
  <2> QED
    BY <1>1, <1>2, <1>3, <1>4, <1>5, <2>1 DEF IInv

\* One file is restored.
LEMMA UninstallRestoreInv ==
  ASSUME Alone, IInv, NEW p \in Proc, UninstallRestore(p)
  PROVE  IInv'
<1>0. /\ TypeOK /\ (\A f \in File : want[f] # "rgpu")
      /\ Closed /\ Entries /\ Untouched /\ Backing(p) /\ Installing(p) /\ Uninstalling(p)
      /\ \A q \in Proc : q = p
  BY DEF IInv, Running, Alone
<1>a. 1 \in File /\ NFiles \in Nat /\ File \subseteq Nat /\ NoJournal \in Journal
      /\ MaxFault \in Nat /\ MaxEdit \in Nat
  BY HostwideAssumption DEF File, NoJournal, Journal, Phase
<1>b. /\ pc[p] = "restore" /\ journal = mem[p] /\ journal.phase = "detaching" /\ k[p] \in File
      /\ journal # NoJournal /\ \A f \in File : Noted(journal, f)
  BY <1>0 DEF UninstallRestore, Uninstalling, NoJournal, TypeOK
<1>c. \A f \in File : fs[f] = IF f < k[p] THEN want[f] ELSE Absent
  BY <1>0, <1>b DEF Uninstalling
<1>e. Loop(p, "reload")
  BY <1>b DEF UninstallRestore, Noted
<1>d. /\ pc' \in [Proc -> {"idle"} \cup AttachPc \cup DetachPc] /\ k' \in [Proc -> File]
      /\ \/ k[p] < NFiles /\ pc'[p] = "restore" /\ k'[p] = k[p] + 1
         \/ k[p] = NFiles /\ pc'[p] = "reload" /\ k'[p] = 1
  BY <1>0, <1>a, <1>b, <1>e, LoopForm DEF TypeOK, Goto, DetachPc
<1>f. fs[k[p]] = Absent
  <2>1. ~(k[p] < k[p])
    BY <1>a, <1>b DEF File
  <2> QED
    BY <1>b, <1>c, <2>1
<1>m. /\ UNCHANGED <<bak, journal, cache, mem, edits, want>>
      /\ fs' \in [File -> Content] /\ fs'[k[p]] = want[k[p]]
      /\ \A f \in File \ {k[p]} : fs'[f] = fs[f]
  BY <1>0, <1>b, <1>f DEF UninstallRestore, TypeOK, Noted
<1>n. \A f \in File : Noted(journal, f)'
  BY <1>b, <1>m DEF Noted
<1>o. \A f \in File : fs'[f] = IF f < k[p] + 1 THEN want[f] ELSE Absent
  <2>1. ASSUME NEW f \in File, f # k[p]
        PROVE  f < k[p] + 1 <=> f < k[p]
    BY <1>a, <1>b, <2>1 DEF File
  <2>2. k[p] < k[p] + 1
    BY <1>a, <1>b DEF File
  <2> QED
    BY <1>c, <1>m, <2>1, <2>2
<1>1. TypeOK'
  <2>1. UNCHANGED faults
    BY DEF UninstallRestore
  <2> QED
    BY <1>0, <1>d, <1>m, <2>1 DEF TypeOK
<1>2. (\A f \in File : want[f] # "rgpu")'
  BY <1>0, <1>a, <1>b, <1>d, <1>m, <1>n DEF Closed, Entries, Untouched, Backing, Installing
<1>3. Closed'
  BY <1>0, <1>a, <1>b, <1>d, <1>m, <1>n DEF Closed, Entries, Untouched, Backing, Installing
<1>4. Entries'
  BY <1>0, <1>a, <1>b, <1>d, <1>m, <1>n DEF Closed, Entries, Untouched, Backing, Installing
<1>5. Untouched'
  BY <1>b, <1>m, <1>n, <1>o DEF Untouched
<1>6. Backing(p)'
  BY <1>0, <1>a, <1>b, <1>d, <1>m, <1>n DEF Closed, Entries, Untouched, Backing, Installing
<1>7. Installing(p)'
  BY <1>0, <1>a, <1>b, <1>d, <1>m, <1>n DEF Closed, Entries, Untouched, Backing, Installing
<1>8. Uninstalling(p)'
  <2>1. CASE k[p] < NFiles /\ pc'[p] = "restore" /\ k'[p] = k[p] + 1
    BY <1>b, <1>m, <1>n, <1>o, <2>1 DEF Uninstalling
  <2>2. CASE k[p] = NFiles /\ pc'[p] = "reload" /\ k'[p] = 1
    <3>1. \A f \in File : f < k[p] + 1
      BY <1>a, <2>2 DEF File
    <3>2. fs' = want /\ want' = want
      BY <1>0, <1>m, <1>o, <3>1 DEF TypeOK
    <3> QED
      BY <1>b, <1>m, <1>n, <2>2, <3>2 DEF Uninstalling
  <2> QED
    BY <1>d, <2>1, <2>2
<1> QED
  <2>1. Running'
    BY <1>0, <1>6, <1>7, <1>8 DEF Running
  <2> QED
    BY <1>1, <1>2, <1>3, <1>4, <1>5, <2>1 DEF IInv

\* ldconfig again; failing, the journal stays.
LEMMA UninstallLdconfigInv ==
  ASSUME Alone, IInv, NEW p \in Proc, UninstallLdconfig(p)
  PROVE  IInv'
<1>0. /\ TypeOK /\ (\A f \in File : want[f] # "rgpu")
      /\ Closed /\ Entries /\ Untouched /\ Backing(p) /\ Installing(p) /\ Uninstalling(p)
      /\ \A q \in Proc : q = p
  BY DEF IInv, Running, Alone
<1>a. 1 \in File /\ NFiles \in Nat /\ File \subseteq Nat /\ NoJournal \in Journal
      /\ MaxFault \in Nat /\ MaxEdit \in Nat
  BY HostwideAssumption DEF File, NoJournal, Journal, Phase
<1>b. /\ pc[p] = "reload" /\ journal = mem[p] /\ journal.phase = "detaching" /\ k[p] \in File
      /\ journal # NoJournal /\ \A f \in File : Noted(journal, f)
  BY <1>0 DEF UninstallLdconfig, Uninstalling, NoJournal, TypeOK
<1>c. fs = want /\ Loader \in File
  BY <1>0, <1>b, HostwideAssumption DEF Uninstalling, File
<1>m. /\ UNCHANGED <<fs, bak, journal, mem, edits, want>> /\ pc'[p] \in {"forget", "idle"}
      /\ cache' \in BOOLEAN /\ (pc'[p] = "forget" => ~cache')
  BY <1>0, <1>c DEF UninstallLdconfig, Goto, TypeOK
<1>1. TypeOK'
  <2>1. faults' \in 0 .. MaxFault
    BY <1>0, <1>a DEF UninstallLdconfig, TypeOK
  <2>2. pc' \in [Proc -> {"idle"} \cup AttachPc \cup DetachPc] /\ k' \in [Proc -> File]
    BY <1>0, <1>a DEF UninstallLdconfig, TypeOK, Goto, AttachPc, DetachPc
  <2>3. mem' \in [Proc -> Journal] /\ journal' \in Journal /\ cache' \in BOOLEAN
    BY <1>0, <1>a DEF UninstallLdconfig, TypeOK
  <2> QED
    BY <1>0, <2>1, <2>2, <2>3 DEF UninstallLdconfig, TypeOK
<1>2. (\A f \in File : want[f] # "rgpu")'
  BY <1>0, <1>a, <1>b, <1>c, <1>m DEF Closed, Entries, Untouched, Backing, Installing, Uninstalling, Noted, Changed
<1>3. Closed'
  BY <1>0, <1>a, <1>b, <1>c, <1>m DEF Closed, Entries, Untouched, Backing, Installing, Uninstalling, Noted, Changed
<1>4. Entries'
  BY <1>0, <1>a, <1>b, <1>c, <1>m DEF Closed, Entries, Untouched, Backing, Installing, Uninstalling, Noted, Changed
<1>5. Untouched'
  BY <1>0, <1>a, <1>b, <1>c, <1>m DEF Closed, Entries, Untouched, Backing, Installing, Uninstalling, Noted, Changed
<1>6. Backing(p)'
  BY <1>0, <1>a, <1>b, <1>c, <1>m DEF Closed, Entries, Untouched, Backing, Installing, Uninstalling, Noted, Changed
<1>7. Installing(p)'
  BY <1>0, <1>a, <1>b, <1>c, <1>m DEF Closed, Entries, Untouched, Backing, Installing, Uninstalling, Noted, Changed
<1>8. Uninstalling(p)'
  BY <1>0, <1>a, <1>b, <1>c, <1>m DEF Closed, Entries, Untouched, Backing, Installing, Uninstalling, Noted, Changed
<1> QED
  <2>1. Running'
    BY <1>0, <1>6, <1>7, <1>8 DEF Running
  <2> QED
    BY <1>1, <1>2, <1>3, <1>4, <1>5, <2>1 DEF IInv

\* The journal is removed last.
LEMMA UninstallForgetInv ==
  ASSUME Alone, IInv, NEW p \in Proc, UninstallForget(p)
  PROVE  IInv'
<1>0. /\ TypeOK /\ (\A f \in File : want[f] # "rgpu")
      /\ Closed /\ Entries /\ Untouched /\ Backing(p) /\ Installing(p) /\ Uninstalling(p)
      /\ \A q \in Proc : q = p
  BY DEF IInv, Running, Alone
<1>a. 1 \in File /\ NFiles \in Nat /\ File \subseteq Nat /\ NoJournal \in Journal
      /\ MaxFault \in Nat /\ MaxEdit \in Nat
  BY HostwideAssumption DEF File, NoJournal, Journal, Phase
<1>b. pc[p] = "forget" /\ fs = want /\ ~cache
  BY <1>0 DEF UninstallForget, Uninstalling
<1>m. /\ UNCHANGED <<fs, bak, cache, mem, edits, want>> /\ pc'[p] = "prune" /\ journal' = NoJournal
  BY <1>0 DEF UninstallForget, Goto, TypeOK
<1>1. TypeOK'
  BY <1>0, <1>a DEF UninstallForget, TypeOK, Goto, AttachPc, DetachPc
<1>2. (\A f \in File : want[f] # "rgpu")'
  BY <1>0, <1>a, <1>b, <1>m DEF Closed, Entries, Untouched, Backing, Installing, Uninstalling
<1>3. Closed'
  BY <1>0, <1>a, <1>b, <1>m DEF Closed, Entries, Untouched, Backing, Installing, Uninstalling
<1>4. Entries'
  BY <1>0, <1>a, <1>b, <1>m DEF Closed, Entries, Untouched, Backing, Installing, Uninstalling
<1>5. Untouched'
  BY <1>0, <1>a, <1>b, <1>m DEF Closed, Entries, Untouched, Backing, Installing, Uninstalling
<1>6. Backing(p)'
  BY <1>0, <1>a, <1>b, <1>m DEF Closed, Entries, Untouched, Backing, Installing, Uninstalling
<1>7. Installing(p)'
  BY <1>0, <1>a, <1>b, <1>m DEF Closed, Entries, Untouched, Backing, Installing, Uninstalling
<1>8. Uninstalling(p)'
  BY <1>0, <1>a, <1>b, <1>m DEF Closed, Entries, Untouched, Backing, Installing, Uninstalling
<1> QED
  <2>1. Running'
    BY <1>0, <1>6, <1>7, <1>8 DEF Running
  <2> QED
    BY <1>1, <1>2, <1>3, <1>4, <1>5, <2>1 DEF IInv

\* The backups go.
LEMMA UninstallPruneInv ==
  ASSUME Alone, IInv, NEW p \in Proc, UninstallPrune(p)
  PROVE  IInv'
<1>0. /\ TypeOK /\ (\A f \in File : want[f] # "rgpu")
      /\ Closed /\ Entries /\ Untouched /\ Backing(p) /\ Installing(p) /\ Uninstalling(p)
      /\ \A q \in Proc : q = p
  BY DEF IInv, Running, Alone
<1>a. 1 \in File /\ NFiles \in Nat /\ File \subseteq Nat /\ NoJournal \in Journal
      /\ MaxFault \in Nat /\ MaxEdit \in Nat
  BY HostwideAssumption DEF File, NoJournal, Journal, Phase
<1>b. pc[p] = "prune" /\ journal = NoJournal
  BY <1>0 DEF UninstallPrune, Backing
<1>m. /\ UNCHANGED <<fs, journal, cache, mem, edits, want>> /\ pc'[p] = "idle"
      /\ bak' \in [File -> Content]
  BY <1>0 DEF UninstallPrune, Goto, TypeOK, Content
<1>1. TypeOK'
  BY <1>0, <1>a, <1>m DEF UninstallPrune, TypeOK, Goto, AttachPc, DetachPc
<1>2. (\A f \in File : want[f] # "rgpu")'
  BY <1>0, <1>a, <1>b, <1>m DEF Closed, Entries, Untouched, Backing, Installing, Uninstalling
<1>3. Closed'
  BY <1>0, <1>a, <1>b, <1>m DEF Closed, Entries, Untouched, Backing, Installing, Uninstalling
<1>4. Entries'
  BY <1>0, <1>a, <1>b, <1>m DEF Closed, Entries, Untouched, Backing, Installing, Uninstalling
<1>5. Untouched'
  BY <1>0, <1>a, <1>b, <1>m DEF Closed, Entries, Untouched, Backing, Installing, Uninstalling
<1>6. Backing(p)'
  BY <1>0, <1>a, <1>b, <1>m DEF Closed, Entries, Untouched, Backing, Installing, Uninstalling
<1>7. Installing(p)'
  BY <1>0, <1>a, <1>b, <1>m DEF Closed, Entries, Untouched, Backing, Installing, Uninstalling
<1>8. Uninstalling(p)'
  BY <1>0, <1>a, <1>b, <1>m DEF Closed, Entries, Untouched, Backing, Installing, Uninstalling
<1> QED
  <2>1. Running'
    BY <1>0, <1>6, <1>7, <1>8 DEF Running
  <2> QED
    BY <1>1, <1>2, <1>3, <1>4, <1>5, <2>1 DEF IInv

\* A kill leaves the files as they are.
LEMMA KillInv ==
  ASSUME Alone, IInv, NEW p \in Proc, Kill(p)
  PROVE  IInv'
<1>0. /\ TypeOK /\ (\A f \in File : want[f] # "rgpu")
      /\ Closed /\ Entries /\ Untouched /\ Backing(p) /\ Installing(p) /\ Uninstalling(p)
      /\ \A q \in Proc : q = p
  BY DEF IInv, Running, Alone
<1>a. 1 \in File /\ NFiles \in Nat /\ File \subseteq Nat /\ NoJournal \in Journal
      /\ MaxFault \in Nat /\ MaxEdit \in Nat
  BY HostwideAssumption DEF File, NoJournal, Journal, Phase
<1>m. /\ UNCHANGED <<fs, bak, journal, cache, edits, want>>
      /\ pc'[p] = "idle"
  BY <1>0, <1>a DEF Kill, Goto, TypeOK
<1>1. TypeOK'
  <2>1. faults' \in 0 .. MaxFault
    BY <1>0, <1>a DEF Kill, TypeOK
  <2>2. pc' \in [Proc -> {"idle"} \cup AttachPc \cup DetachPc] /\ k' \in [Proc -> File]
    BY <1>0, <1>a DEF Kill, TypeOK, Goto, AttachPc, DetachPc
  <2>3. mem' \in [Proc -> Journal]
    BY <1>0, <1>a DEF Kill, TypeOK
  <2> QED
    BY <1>0, <2>1, <2>2, <2>3 DEF Kill, TypeOK
<1>2. (\A f \in File : want[f] # "rgpu")'
  BY <1>0, <1>a, <1>m DEF Closed, Entries, Untouched, Backing, Installing, Uninstalling, Noted, Changed
<1>3. Closed'
  BY <1>0, <1>a, <1>m DEF Closed, Entries, Untouched, Backing, Installing, Uninstalling, Noted, Changed
<1>4. Entries'
  BY <1>0, <1>a, <1>m DEF Closed, Entries, Untouched, Backing, Installing, Uninstalling, Noted, Changed
<1>5. Untouched'
  BY <1>0, <1>a, <1>m DEF Closed, Entries, Untouched, Backing, Installing, Uninstalling, Noted, Changed
<1>6. Backing(p)'
  BY <1>0, <1>a, <1>m DEF Closed, Entries, Untouched, Backing, Installing, Uninstalling, Noted, Changed
<1>7. Installing(p)'
  BY <1>0, <1>a, <1>m DEF Closed, Entries, Untouched, Backing, Installing, Uninstalling, Noted, Changed
<1>8. Uninstalling(p)'
  BY <1>0, <1>a, <1>m DEF Closed, Entries, Untouched, Backing, Installing, Uninstalling, Noted, Changed
<1> QED
  <2>1. Running'
    BY <1>0, <1>6, <1>7, <1>8 DEF Running
  <2> QED
    BY <1>1, <1>2, <1>3, <1>4, <1>5, <2>1 DEF IInv

\* An edit between two processes is in place, and either agrees with the journal or makes
\* the next detach refuse.
LEMMA EditInv ==
  ASSUME Alone, IInv, NEW f \in File, NEW c \in {"edit", Absent}, Edit(f, c)
  PROVE  IInv'
<1>0. /\ TypeOK /\ (\A x \in File : want[x] # "rgpu")
      /\ Closed /\ Entries /\ Untouched
  BY DEF IInv
<1>1. /\ \A p \in Proc : pc[p] = "idle"
      /\ c = Absent => journal.phase \in {"none", "attached"}
      /\ edits' = edits + 1 /\ edits \in Nat /\ edits' \in 0 .. MaxEdit
      /\ UNCHANGED <<bak, journal, cache, pc, k, mem, faults>>
  BY <1>0, HostwideAssumption DEF Edit, Alone, TypeOK
<1>2. /\ fs' \in [File -> Content] /\ want' \in [File -> Content]
      /\ fs'[f] = c /\ want'[f] = c
      /\ \A x \in File \ {f} : fs'[x] = fs[x] /\ want'[x] = want[x]
  BY <1>0 DEF Edit, TypeOK, Content
<1>3. TypeOK'
  BY <1>0, <1>1, <1>2 DEF TypeOK
<1>4. \A x \in File : want'[x] # "rgpu"
  BY <1>0, <1>2 DEF Absent
<1>5. Closed'
  <2>1. CASE journal = NoJournal
    <3>1. fs = want /\ ~cache
      BY <1>0, <2>1 DEF Closed
    <3>2. \A x \in File : fs'[x] = want'[x]
      BY <1>2, <3>1
    <3>3. fs' = want'
      BY <1>2, <3>2
    <3> QED
      BY <1>1, <2>1, <3>1, <3>3 DEF Closed
  <2>2. CASE journal # NoJournal
    BY <1>0, <1>1, <2>2 DEF Closed
  <2> QED
    BY <2>1, <2>2
<1>6. Entries'
  <2> SUFFICES ASSUME journal # NoJournal, NEW x \in File
               PROVE  (Noted(journal, x) \/ (fs[x] = want[x] /\ x \in Changed(journal)))'
    BY <1>1 DEF Entries
  <2>1. CASE x # f
    <3>1. Noted(journal, x) \/ (fs[x] = want[x] /\ x \in Changed(journal))
      BY <1>0 DEF Entries
    <3> QED
      BY <1>1, <1>2, <2>1, <3>1 DEF Noted, Changed
  <2>2. CASE x = f
    <3>1. journal.phase # "none" /\ journal.phase \in Phase
      BY <1>0 DEF Closed, TypeOK, Journal
    <3>2. CASE c = Absent
      BY <1>1, <1>2, <2>2, <3>1, <3>2 DEF Changed
    <3>3. CASE c = "edit"
      BY <1>1, <1>2, <2>2, <3>1, <3>3 DEF Noted, Changed, Absent
    <3> QED
      BY <3>2, <3>3
  <2> QED
    BY <2>1, <2>2
<1>7. Untouched'
  BY <1>1 DEF Untouched
<1>8. Running'
  BY <1>1 DEF Running, Backing, Installing, Uninstalling
<1> QED
  BY <1>3, <1>4, <1>5, <1>6, <1>7, <1>8 DEF IInv

\* The invariant is inductive.
LEMMA Inductive ==
  ASSUME Alone
  PROVE  Spec => []IInv
<1>1. Init => IInv
  BY InitInv
<1>2. IInv /\ [Next]_vars => IInv'
  <2> SUFFICES ASSUME IInv, [Next]_vars PROVE IInv'
    OBVIOUS
  <2>1. ASSUME NEW p \in Proc, AttachBegin(p) \/ DetachBegin(p) \/ Kill(p)
        PROVE  IInv'
    BY <2>1, AttachBeginInv, DetachBeginInv, KillInv
  <2>2. ASSUME NEW p \in Proc, AttachStep(p)
        PROVE  IInv'
    BY <2>2, AttachLeaseInv, InstallEnterInv, InstallBackupInv, InstallJournalInv, InstallCopyInv,
       InstallLdconfigInv, InstallVerifyInv, InstallCommitInv, AttachRollbackInv DEF AttachStep
  <2>3. ASSUME NEW p \in Proc, DetachStep(p)
        PROVE  IInv'
    BY <2>3, UninstallReadInv, UninstallIntentInv, UninstallRemoveInv, UninstallRestoreInv,
       UninstallLdconfigInv, UninstallForgetInv, UninstallPruneInv DEF DetachStep
  <2>4. CASE UNCHANGED vars
    BY <2>4 DEF vars, IInv, TypeOK, Closed, Entries, Untouched, Running, Backing, Installing,
                Uninstalling, Noted, Changed
  <2> QED
    BY <2>1, <2>2, <2>3, <2>4, EditInv DEF Next
<1> QED
  BY <1>1, <1>2, PTL DEF Spec

\* However often attach and detach are killed or fail, whatever the administrator last left
\* in a managed file is in place or in a backup that the journal on disk names.
THEOREM OriginalsKept ==
  ASSUME Alone
  PROVE  Spec => []OriginalsSafe
<1>1. IInv => OriginalsSafe
  BY DEF IInv, Closed, Entries, OriginalsSafe, Noted
<1> QED
  BY <1>1, Inductive, PTL

\* With no journal and no process, every managed file is as the administrator left it and
\* the loader cache does not name the shim.
THEOREM DetachedClean ==
  ASSUME Alone
  PROVE  Spec => []DetachedIsClean
<1>1. IInv => DetachedIsClean
  BY DEF IInv, Closed, DetachedIsClean
<1> QED
  BY <1>1, Inductive, PTL

\* Unless a managed file was edited, the next detach or rescue accepts what a kill left.
THEOREM RecoveryAccepted ==
  ASSUME Alone
  PROVE  Spec => []NeverWedged
<1>1. IInv => NeverWedged
  <2> SUFFICES ASSUME IInv, edits = 0, journal # NoJournal, NEW f \in File
               PROVE  f \notin Changed(journal)
    BY DEF NeverWedged, Changed
  <2>1. journal.phase \in {"installing", "attached", "detaching"}
    BY DEF IInv, TypeOK, Closed, Journal, Phase
  <2>2. /\ Noted(journal, f) /\ fs[f] \in {Absent, "rgpu", want[f]}
        /\ journal.phase = "attached" => fs[f] = "rgpu"
    BY DEF IInv, Untouched
  <2> QED
    BY <2>1, <2>2 DEF Noted, Changed, Absent
<1> QED
  BY <1>1, Inductive, PTL
=============================================================================
