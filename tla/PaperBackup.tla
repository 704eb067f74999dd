----------------------------- MODULE PaperBackup -----------------------------
(***************************************************************************)
(* Backup and restore of a paper attempt (product/paper_backup.py): the    *)
(* writer that owns the attempt's lease, capture processes that copy the   *)
(* authoritative files one by one between two looks at that lease, publish *)
(* a directory by renaming it and then prune old ones, and restore         *)
(* processes that materialise a published backup as a new attempt.  No     *)
(* lock is shared between these processes: the steps below are the file    *)
(* system operations, and a process may die between any two of them.       *)
(***************************************************************************)
EXTENDS Integers, FiniteSets

CONSTANTS
  BackupFiles,    \* the authoritative files a writer changes
  Capturers,      \* the backup processes
  Restorers,      \* the restore processes
  Stamps,         \* the creation times of backups, which name them
  OldStamps,      \* the stamps of backups that are already there
  ForeignStamps,  \* the stamps of another run's backups in the same root
  Keep,           \* the retention
  MaxSessions,    \* bound: sessions the writer begins
  DiscardFails    \* TRUE: removing a directory may fail

ASSUME BackupAssumption ==
  /\ Stamps \subseteq Nat /\ OldStamps \subseteq Stamps
  /\ ForeignStamps \subseteq Stamps /\ OldStamps \cap ForeignStamps = {}
  /\ Keep \in Nat \ {0} /\ MaxSessions \in Nat
  /\ Capturers \cap Restorers = {}

Absent == -1     \* a file that is not there
Rotten == -2     \* a stored file whose bytes went bad
NoBackup == [owner |-> "none", stamp |-> 0, entries |-> <<>>, bytes |-> <<>>]
NoTarget == [by |-> "nobody", files |-> [f \in BackupFiles |-> Absent]]

VARIABLES
  files,        \* the attempt: the version of each file
  backupLease,  \* TRUE while a writer holds the lease
  sessions,     \* how many sessions began; one is over at the start
  rest,         \* ghost: the contents the attempt had while nobody held the lease
  root,         \* the backup root: what is published under each stamp
  backupProc,   \* the capture processes
  restore,      \* the restore processes
  target        \* the attempt directory the restorers want to create

backupVars == <<files, backupLease, sessions, rest, root, backupProc, restore, target>>

NoFiles == [f \in BackupFiles |-> Absent]

Published(owner, stamp, entries) ==
  [owner |-> owner, stamp |-> stamp, entries |-> entries, bytes |-> entries]

BackupInit ==
  /\ files = [f \in BackupFiles |-> 1] /\ backupLease = FALSE /\ sessions = 1
  /\ rest = {[f \in BackupFiles |-> version] : version \in 0..1}
  /\ root = [s \in Stamps |->
               CASE s \in OldStamps -> Published("run", s, [f \in BackupFiles |-> 0])
                 [] s \in ForeignStamps -> Published("other", s, [f \in BackupFiles |-> 0])
                 [] OTHER -> NoBackup]
  /\ backupProc = [p \in Capturers |-> [pc |-> "idle", stamp |-> 0, got |-> NoFiles,
                                        since |-> 0, stale |-> {}, code |-> "none"]]
  /\ restore = [r \in Restorers |-> [pc |-> "idle", stamp |-> 0,
                                     manifest |-> NoFiles, code |-> "none"]]
  /\ target = NoTarget

-----------------------------------------------------------------------------
(* The writer.                                                             *)

WriterBegins ==
  /\ ~backupLease /\ sessions < MaxSessions
  /\ backupLease' = TRUE /\ sessions' = sessions + 1
  /\ UNCHANGED <<files, rest, root, backupProc, restore, target>>

\* One durable update; a session changes its files in any order.
WriterWrites(f) ==
  /\ backupLease /\ files[f] < sessions
  /\ files' = [files EXCEPT ![f] = sessions]
  /\ UNCHANGED <<backupLease, sessions, rest, root, backupProc, restore, target>>

\* The session ends, in order or because the writer died: the lease is an
\* flock, which the kernel releases.
WriterEnds ==
  /\ backupLease
  /\ backupLease' = FALSE
  /\ rest' = rest \union {files}
  /\ UNCHANGED <<files, sessions, root, backupProc, restore, target>>

-----------------------------------------------------------------------------
(* Capture: create_paper_backup.                                           *)

\* The writer sessions that are over.
BackupEnded == IF backupLease THEN sessions - 1 ELSE sessions

BackupStop(p, code) == backupProc' = [backupProc EXCEPT ![p].pc = "done", ![p].code = code]

\* The first look at the lease; the stamp was taken before it.
BeginCapture(p, stamp) ==
  /\ backupProc[p].pc = "idle"
  /\ IF backupLease THEN BackupStop(p, "refused")
     ELSE backupProc' = [backupProc EXCEPT ![p] = [@ EXCEPT !.pc = "copy", !.stamp = stamp,
                                                            !.since = BackupEnded]]
  /\ UNCHANGED <<files, backupLease, sessions, rest, root, restore, target>>

\* _copy_entry: the file as it is now, or a refusal because it changed under
\* the copy.
CopyEntry(p, f) ==
  /\ backupProc[p].pc = "copy" /\ backupProc[p].got[f] = Absent
  /\ \/ backupProc' = [backupProc EXCEPT ![p].got[f] = files[f],
                                         ![p].pc = IF \A g \in BackupFiles \ {f}: backupProc[p].got[g] # Absent
                                                   THEN "publish" ELSE "copy"]
     \/ backupLease /\ BackupStop(p, "refused")
  /\ UNCHANGED <<files, backupLease, sessions, rest, root, restore, target>>

\* _publish_directory: the rename that makes the backup visible; a name that
\* is taken is refused and the staging directory removed.
PublishBackup(p) ==
  LET stamp == backupProc[p].stamp
  IN  /\ backupProc[p].pc = "publish"
      /\ IF root[stamp] # NoBackup
         THEN BackupStop(p, "refused") /\ UNCHANGED root
         ELSE /\ root' = [root EXCEPT ![stamp] = Published("run", stamp, backupProc[p].got)]
              /\ backupProc' = [backupProc EXCEPT ![p].pc = "recheck"]
      /\ UNCHANGED <<files, backupLease, sessions, rest, restore, target>>

\* _discard_directory removes what it can and reports nothing.
Discarded(stamp) ==
  {[root EXCEPT ![stamp] = NoBackup]} \union (IF DiscardFails THEN {root} ELSE {})

\* The second look at the lease.
WriterIsBack == backupLease

Recheck(p) ==
  /\ backupProc[p].pc = "recheck"
  /\ IF WriterIsBack
     THEN /\ root' \in Discarded(backupProc[p].stamp)
          /\ BackupStop(p, "refused")
     ELSE /\ backupProc' = [backupProc EXCEPT ![p].pc = "retain"]
          /\ UNCHANGED root
  /\ UNCHANGED <<files, backupLease, sessions, rest, restore, target>>

\* Mutant of OwnedBackups: every directory with the prefix is a candidate.
AllBackups == {s \in Stamps : root[s] # NoBackup}

\* _owned_backups: the published backups whose manifest names this run.
OwnedBackups == {s \in Stamps : root[s].owner = "run"}

\* _apply_retention: all but the newest Keep, never the one just published.
Stale(stamp) ==
  {s \in OwnedBackups : Cardinality({t \in OwnedBackups : t > s}) >= Keep} \ {stamp}

ListBackups(p) ==
  /\ backupProc[p].pc = "retain"
  /\ backupProc' = [backupProc EXCEPT ![p].pc = "prune", ![p].stale = Stale(backupProc[p].stamp)]
  /\ UNCHANGED <<files, backupLease, sessions, rest, root, restore, target>>

\* The listed directories go one by one; then the new one must be there.
PruneBackup(p) ==
  /\ backupProc[p].pc = "prune"
  /\ \/ \E s \in backupProc[p].stale:
          /\ root' \in Discarded(s)
          /\ backupProc' = [backupProc EXCEPT ![p].stale = @ \ {s}]
     \/ /\ backupProc[p].stale = {}
        /\ BackupStop(p, IF root[backupProc[p].stamp] = NoBackup THEN "refused" ELSE "ok")
        /\ UNCHANGED root
  /\ UNCHANGED <<files, backupLease, sessions, rest, restore, target>>

\* The process dies: a staging directory is left behind, which no reader
\* looks at, or a published one.
CaptureDies(p) ==
  /\ backupProc[p].pc \notin {"idle", "done"}
  /\ BackupStop(p, "died")
  /\ UNCHANGED <<files, backupLease, sessions, rest, root, restore, target>>

-----------------------------------------------------------------------------
(* Restore: restore_paper_backup.                                          *)

\* A stored byte goes bad: of a captured file, or of the backup manifest,
\* which then names no run.
Rot(s, f) ==
  /\ root[s].owner = "run" /\ root[s].bytes = root[s].entries
  /\ \/ root' = [root EXCEPT ![s].bytes[f] = Rotten]
     \/ root' = [root EXCEPT ![s].owner = "unreadable"]
  /\ UNCHANGED <<files, backupLease, sessions, rest, backupProc, restore, target>>

\* _read_backup_manifest: canonical, and its digest covers its entries.
ManifestReads(s) == root[s].owner \in {"run", "other"}

\* The captured manifest and the first frame of the captured journal belong
\* to the run the backup names.
IdentityBinds(s) == \A f \in BackupFiles: root[s].bytes[f] # Rotten

\* inspect_paper_backup: the identity, then every entry.
Verified(s) ==
  ManifestReads(s) /\ IdentityBinds(s) /\ root[s].bytes = root[s].entries

\* latest_verified_paper_backup for this run.
LatestVerified ==
  LET usable == {s \in OwnedBackups : Verified(s)}
  IN  IF usable = {} THEN {} ELSE {CHOOSE s \in usable: \A t \in usable: t <= s}

BackupEnd(r, code) == restore' = [restore EXCEPT ![r].pc = "done", ![r].code = code]

\* The backup is verified, and the target must not exist.
BeginRestore(r, s) ==
  /\ restore[r].pc = "idle" /\ root[s].owner = "run"
  /\ IF Verified(s) /\ target = NoTarget
     THEN restore' = [restore EXCEPT ![r] = [@ EXCEPT !.pc = "reserve", !.stamp = s,
                                                      !.manifest = root[s].entries]]
     ELSE BackupEnd(r, "refused")
  /\ UNCHANGED <<files, backupLease, sessions, rest, root, backupProc, target>>

Occupied == target # NoTarget

\* prepare_canonical_attempt: the mkdir that reserves the target, a
\* collision, or a failure, before or after the mkdir.
BackupReserve(r) ==
  /\ restore[r].pc = "reserve"
  /\ \/ /\ Occupied
        /\ BackupEnd(r, "refused") /\ UNCHANGED target
     \/ /\ ~Occupied
        /\ target' = [NoTarget EXCEPT !.by = r]
        /\ restore' = [restore EXCEPT ![r].pc = "copy"]
     \/ /\ restore' = [restore EXCEPT ![r].pc = "cleanup"]
        /\ target' \in {target} \union
                       (IF Occupied THEN {} ELSE {[NoTarget EXCEPT !.by = r]})
  /\ UNCHANGED <<files, backupLease, sessions, rest, root, backupProc>>

\* What is read from the backup now is what its manifest said.
CopyMatches(r, f) == root[restore[r].stamp].bytes[f] = restore[r].manifest[f]

\* _materialise: every entry is copied and compared with the manifest; a
\* backup that was pruned or went bad meanwhile fails the restore, and so
\* does a target that is no longer there.
Materialise(r, f) ==
  /\ restore[r].pc = "copy"
  /\ \/ /\ target.by = r /\ target.files[f] = Absent
        /\ root[restore[r].stamp] # NoBackup /\ CopyMatches(r, f)
        /\ target' = [target EXCEPT !.files[f] = root[restore[r].stamp].bytes[f]]
        /\ UNCHANGED restore
     \/ /\ \/ target.by # r
           \/ root[restore[r].stamp] = NoBackup
           \/ root[restore[r].stamp] # NoBackup /\ ~CopyMatches(r, f)
        /\ restore' = [restore EXCEPT ![r].pc = "cleanup"]
        /\ UNCHANGED target
  /\ UNCHANGED <<files, backupLease, sessions, rest, root, backupProc>>

\* The materialised entries are read once more, and the restore returns.
FinishRestore(r) ==
  /\ restore[r].pc = "copy" /\ target.by = r
  /\ \A f \in BackupFiles: target.files[f] # Absent
  /\ BackupEnd(r, "ok")
  /\ UNCHANGED <<files, backupLease, sessions, rest, root, backupProc, target>>

\* The failed restore removes the directory at the target path.
Cleanup(r) ==
  /\ restore[r].pc = "cleanup"
  /\ target' \in {NoTarget} \union (IF DiscardFails THEN {target} ELSE {})
  /\ BackupEnd(r, "refused")
  /\ UNCHANGED <<files, backupLease, sessions, rest, root, backupProc>>

RestoreDies(r) ==
  /\ restore[r].pc \notin {"idle", "done"}
  /\ BackupEnd(r, "died")
  /\ UNCHANGED <<files, backupLease, sessions, rest, root, backupProc, target>>

BackupNext ==
  \/ WriterBegins \/ WriterEnds \/ \E f \in BackupFiles: WriterWrites(f)
  \/ \E p \in Capturers:
       \/ \E s \in Stamps: BeginCapture(p, s)
       \/ \E f \in BackupFiles: CopyEntry(p, f)
       \/ PublishBackup(p) \/ Recheck(p) \/ ListBackups(p) \/ PruneBackup(p)
       \/ CaptureDies(p)
  \/ \E r \in Restorers:
       \/ \E s \in Stamps: BeginRestore(r, s)
       \/ BackupReserve(r) \/ \E f \in BackupFiles: Materialise(r, f)
       \/ FinishRestore(r) \/ Cleanup(r) \/ RestoreDies(r)
  \/ Restorers # {} /\ \E s \in Stamps, f \in BackupFiles: Rot(s, f)

BackupSpec == BackupInit /\ [][BackupNext]_backupVars

-----------------------------------------------------------------------------

BackupTypeOK ==
  /\ \A f \in BackupFiles: files[f] \in 0..MaxSessions
  /\ \A s \in Stamps: root[s] # NoBackup => root[s].stamp = s
  /\ \A p \in Capturers: backupProc[p].stale \subseteq Stamps
  /\ target = NoTarget \/ target.by \in Restorers

\* A capture that returned holds the attempt as it really was at one moment
\* with the lease free, unless a whole writer session began and ended
\* between the two looks at the lease.
ReturnedIsSettled ==
  \A p \in Capturers:
    backupProc[p].code = "ok" => backupProc[p].got \in rest \/ BackupEnded > backupProc[p].since

\* Nothing that is not a backup this module published for this run is ever
\* removed, another run's backups and hand-made archives included; the
\* backup just published is not removed by its own retention, even when the
\* clock went back and its name sorts first.
OthersAreSpared ==
  [][\A s \in Stamps: (root[s] # NoBackup /\ root'[s] = NoBackup) =>
       /\ root[s].owner = "run"
       /\ \A p \in Capturers: backupProc[p].pc = "prune" /\ backupProc[p].stamp = s =>
            \E q \in Capturers \ {p}: backupProc'[q] # backupProc[q]]_backupVars

\* Once a capture returned, the run has a backup that verifies, whichever
\* captures follow or run beside it, with clocks that may have gone back:
\* retention never prunes what it should fall back on.
ABackupRemains ==
  (\E p \in Capturers: backupProc[p].code = "ok") /\ Restorers = {} => LatestVerified # {}

\* A restored attempt is the backup, byte for byte, at the moment the
\* restore returns, and whatever is in a target came from the restore that
\* reserved it, even when two restores race for it and the backup is pruned
\* or goes bad while it is read.
TargetIsOneBackup ==
  target # NoTarget =>
    /\ \A f \in BackupFiles: target.files[f] \in {Absent, restore[target.by].manifest[f]}
    /\ restore[target.by].code = "ok" => target.files = restore[target.by].manifest

\* Backups: what a capture returns is settled, a backup remains, and a
\* restored target is one backup.
BackupSafe ==
    /\ BackupTypeOK /\ ReturnedIsSettled /\ ABackupRemains /\ TargetIsOneBackup
=============================================================================
