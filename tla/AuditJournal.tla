---------------------------- MODULE AuditJournal ----------------------------
(***************************************************************************)
(* The durable audit journal of one run (experiments/audit.py and the      *)
(* record contract of core/audit.py): an append-only file of framed        *)
(* records, one writer, an exact retry answered from the index, failures   *)
(* of the write, of the fsync and of the read-back told apart, a crash     *)
(* that keeps any suffix of the frames not yet fsynced or tears the last   *)
(* one, and the reopening scan that truncates a torn tail.                 *)
(*                                                                         *)
(* A record is its logical key and its payload.  Digests and the hash      *)
(* chain are the position in the sequence: the scan accepts a frame only   *)
(* as the successor of the frame before it.                                *)
(***************************************************************************)
EXTENDS Naturals, Sequences, FiniteSets, SequencesExt

CONSTANTS Ordinary,           \* logical keys of ordinary records
          Reconciliation,     \* logical keys of reconciliation outcomes
          JournalMaxRecords,  \* AuditCapacityLimits.max_records
          CloseFrames,        \* protected_close_frames
          JournalMaxFaults    \* bound on input/output errors and crashes

ASSUME JournalAssumption ==
    /\ JournalMaxRecords \in Nat \ {0} /\ CloseFrames \in 0 .. (JournalMaxRecords - 1)
    /\ JournalMaxFaults \in Nat
    /\ Ordinary \cap Reconciliation = {}
    /\ {"prepared", "terminal"} \cap (Ordinary \cup Reconciliation) = {}

VARIABLES file,          \* complete frames in the file, as a reader sees them
          journalTorn,   \* an incomplete frame follows them
          synced,        \* number of frames a crash cannot lose
          journal,       \* the writer's memory, or a closed writer
          acks,          \* acknowledgements ever returned to a caller
          journalFaults  \* errors and crashes so far

journalVars == <<file, journalTorn, synced, journal, acks, journalFaults>>

Payloads == {"p", "q"}   \* two well-formed payloads of one logical key
JournalKeys == {"prepared", "terminal"} \cup Ordinary \cup Reconciliation
Record == [key : JournalKeys, pay : Payloads]
Closing == Reconciliation \cup {"terminal"}   \* _CLOSING_AUDIT_RECORD_KINDS

NoWriter == [open |-> FALSE, entries |-> <<>>, rescan |-> FALSE, failed |-> FALSE,
             closing |-> FALSE, reserved |-> 0, recovered |-> {}]

Position(s, k) == {i \in 1 .. Len(s) : s[i].key = k}
HasKey(s, k) == Position(s, k) # {}
JournalIsTerminal(s) == HasKey(s, "terminal")

\* create_audit_record: the preparation record is the first one and only the first.
CreateAuditRecord(s, k) == (k = "prepared") <=> (s = <<>>)

\* _rescan: every complete frame must be the successor of the one before it, with a
\* new key and nothing after the terminal; a torn tail is cut off and the cut is synced.
FramesAgree ==
    /\ \A i \in 1 .. Len(file) : CreateAuditRecord(SubSeq(file, 1, i - 1), file[i].key)
    /\ \A i \in 1 .. Len(file) : Position(file, file[i].key) = {i}
    /\ \A i \in 1 .. Len(file) - 1 : file[i].key # "terminal"

Rescanned(j) == [j EXCEPT !.entries = file, !.recovered = 1 .. Len(file), !.rescan = FALSE]

\* What the index holds at the point where append looks a key up a second time.
Current(j) == IF j.rescan THEN Rescanned(j) ELSE j

\* remaining_frames / _closing_allowance / _closing_appends_fit: the room for one record.
HasRoom(j, k) ==
    /\ ~JournalIsTerminal(j.entries)
    /\ IF j.closing
       THEN /\ k \in Closing
            /\ j.reserved >= (IF k \in Reconciliation THEN 2 ELSE 1)
            /\ Len(j.entries) + 1 <= JournalMaxRecords
       ELSE JournalMaxRecords - (Len(j.entries) + j.reserved) >= 1

Ack(k, p, i) == [key |-> k, pay |-> p, pos |-> i]
JournalFault == journalFaults < JournalMaxFaults /\ journalFaults' = journalFaults + 1

\* append, when the key is already indexed: the exact payload gets its acknowledgement
\* (after an fsync when the frame came from a scan), another payload fails the journal.
Replay(j, k, p) ==
    LET i == CHOOSE n \in Position(j.entries, k) : TRUE
    IN /\ journalTorn' = (journalTorn /\ j.rescan)
       /\ UNCHANGED file
       /\ \/ /\ j.entries[i].pay = p
             /\ synced' = (IF i \in j.recovered THEN Len(file) ELSE synced)
             /\ journal' = [j EXCEPT !.recovered = @ \ {i}]
             /\ acks' = acks \cup {Ack(k, p, i)}
             /\ UNCHANGED journalFaults
          \/ /\ j.entries[i].pay # p
             /\ journal' = [j EXCEPT !.failed = TRUE]
             /\ UNCHANGED <<synced, acks, journalFaults>>
          \/ /\ j.entries[i].pay = p /\ i \in j.recovered
             /\ journal' = [j EXCEPT !.failed = TRUE]   \* the fsync or the re-read fails
             /\ JournalFault
             /\ UNCHANGED <<synced, acks>>

\* Mutant of Write: the record is acknowledged although its fsync failed.
AckBeforeSync(j, k, p) ==
    LET r == [key |-> k, pay |-> p]
        here == Len(j.entries) + 1
    IN \/ /\ file' = Append(j.entries, r) /\ journalTorn' = FALSE /\ synced' = here
          /\ journal' = [j EXCEPT !.entries = Append(@, r)]
          /\ acks' = acks \cup {Ack(k, p, here)}
          /\ UNCHANGED journalFaults
       \/ /\ file' = Append(j.entries, r) /\ journalTorn' = FALSE
          /\ journal' = [j EXCEPT !.entries = Append(@, r)]
          /\ acks' = acks \cup {Ack(k, p, here)}
          /\ JournalFault
          /\ UNCHANGED synced

\* append, when the key is new: write the frame, fsync it, read it back, then index it
\* and acknowledge.  An OSError asks for a rescan, a read-back mismatch fails for good.
Write(j, k, p) ==
    LET r == [key |-> k, pay |-> p]
        here == Len(j.entries) + 1
        spent == IF j.closing THEN 1 ELSE 0
    IN \/ /\ file' = Append(j.entries, r) /\ journalTorn' = FALSE /\ synced' = here
          /\ journal' = [j EXCEPT !.entries = Append(@, r), !.reserved = @ - spent]
          /\ acks' = acks \cup {Ack(k, p, here)}
          /\ UNCHANGED journalFaults
       \/ /\ \/ journalTorn' \in BOOLEAN /\ UNCHANGED <<file, synced>>              \* short write
             \/ journalTorn' = FALSE /\ file' = Append(j.entries, r) /\ UNCHANGED synced   \* fsync
             \/ journalTorn' = FALSE /\ file' = Append(j.entries, r) /\ synced' = here     \* read-back
          /\ journal' = [j EXCEPT !.rescan = TRUE]
          /\ JournalFault
          /\ UNCHANGED acks
       \/ /\ file' = Append(j.entries, r) /\ journalTorn' = FALSE /\ synced' = here
          /\ journal' = [j EXCEPT !.failed = TRUE]                           \* mismatch
          /\ JournalFault
          /\ UNCHANGED acks

\* PosixAuditJournal.append
AppendRecord(k, p) ==
    LET j == Current(journal)
        indexed == HasKey(journal.entries, k)
    IN /\ journal.open /\ ~journal.failed
       /\ \/ indexed /\ Replay(journal, k, p)
          \/ /\ ~indexed /\ ~JournalIsTerminal(journal.entries)
             /\ journal.rescan => FramesAgree
             /\ \/ HasKey(j.entries, k) /\ Replay(j, k, p)
                \/ /\ ~HasKey(j.entries, k)
                   /\ \/ /\ HasRoom(j, k) /\ file = j.entries   \* st_size = verified EOF
                         /\ CreateAuditRecord(j.entries, k)
                         /\ Write(j, k, p)
                      \/ /\ ~HasRoom(j, k)                      \* refused, after the rescan
                         /\ journal' = j /\ journalTorn' = FALSE
                         /\ UNCHANGED <<file, synced, acks, journalFaults>>

\* settle_append: the rescan, then the acknowledgement of a frame that is there, or the
\* durable absence of one that is not.
SettleAppend(k, p) ==
    LET j == Current(journal)
    IN /\ journal.open /\ ~journal.failed
       /\ journal.rescan => FramesAgree
       /\ journalTorn' = FALSE /\ UNCHANGED file
       /\ \/ /\ ~HasKey(j.entries, k)
             /\ journal' = j /\ synced' = Len(file)
             /\ UNCHANGED <<acks, journalFaults>>
          \/ \E i \in Position(j.entries, k) :
                IF j.entries[i].pay = p
                THEN /\ journal' = [j EXCEPT !.recovered = @ \ {i}]
                     /\ synced' = Len(file) /\ acks' = acks \cup {Ack(k, p, i)}
                     /\ UNCHANGED journalFaults
                ELSE /\ journal' = [j EXCEPT !.failed = TRUE]
                     /\ UNCHANGED <<synced, acks, journalFaults>>
          \/ /\ journal' = [j EXCEPT !.rescan = TRUE]        \* the settling fsync fails
             /\ JournalFault
             /\ UNCHANGED <<synced, acks>>

BeginProtectedClose ==
    /\ journal.open /\ ~journal.failed
    /\ journal.rescan => FramesAgree
    /\ journalTorn' = FALSE
    /\ journal' = [Current(journal) EXCEPT !.closing = TRUE]
    /\ UNCHANGED <<file, synced, acks, journalFaults>>

JournalClose ==
    /\ journal.open
    /\ journal' = NoWriter
    /\ UNCHANGED <<file, journalTorn, synced, acks, journalFaults>>

\* The process or the machine stops: frames not fsynced may be lost, the last one torn.
JournalCrash ==
    /\ JournalFault
    /\ \E n \in synced .. Len(file) :
          /\ file' = SubSeq(file, 1, n)
          /\ journalTorn' \in (IF journalTorn \/ n < Len(file) THEN BOOLEAN ELSE {FALSE})
    /\ journal' = NoWriter
    /\ UNCHANGED <<synced, acks>>

\* reopen_posix_audit_journal: scan, check the preparation record, and append it again,
\* which fsyncs the file; the reopened writer has no closing reserve.
Reopen ==
    /\ ~journal.open
    /\ FramesAgree
    /\ file' = (IF file = <<>> THEN <<[key |-> "prepared", pay |-> "p"]>> ELSE file)
    /\ journalTorn' = FALSE /\ synced' = Len(file')
    /\ journal' = [NoWriter EXCEPT !.open = TRUE, !.entries = file',
                                   !.recovered = 2 .. Len(file)]
    /\ acks' = acks \cup {Ack("prepared", "p", 1)}
    /\ UNCHANGED journalFaults

\* create_posix_audit_journal
JournalInit ==
    /\ file = <<[key |-> "prepared", pay |-> "p"]>> /\ journalTorn = FALSE /\ synced = 1
    /\ journal = [NoWriter EXCEPT !.open = TRUE, !.entries = file, !.reserved = CloseFrames]
    /\ acks = {Ack("prepared", "p", 1)}
    /\ journalFaults = 0

\* Only one payload of a key but one differs, which is enough for a conflicting retry.
Offered == {kp \in (JournalKeys \ {"prepared"}) \X Payloads : kp[2] = "p" \/ kp[1] \in Ordinary}

JournalNext ==
    \/ \E kp \in Offered : AppendRecord(kp[1], kp[2]) \/ SettleAppend(kp[1], kp[2])
    \/ BeginProtectedClose \/ JournalClose \/ JournalCrash \/ Reopen

JournalSpec == JournalInit /\ [][JournalNext]_journalVars

-----------------------------------------------------------------------------
\* Types; the file never outgrows AuditCapacityLimits.max_records.
JournalTypeOK ==
    /\ file \in Seq(Record) /\ Len(file) <= JournalMaxRecords
    /\ journalTorn \in BOOLEAN /\ synced \in 0 .. Len(file) /\ journalFaults \in 0 .. JournalMaxFaults
    /\ journal.entries \in Seq(Record) /\ journal.recovered \subseteq 1 .. Len(journal.entries)
    /\ journal.reserved \in 0 .. CloseFrames
    /\ acks \subseteq [key : JournalKeys, pay : Payloads, pos : 1 .. JournalMaxRecords]

\* An acknowledgement is never taken back: through every error, crash and reopening the
\* record it names stays in the file at the acknowledged position and cannot be lost
\* (append returns only after the fsync and the read-back, or the re-fsync of a scan).
AckedIsDurable ==
    \A a \in acks : a.pos <= synced /\ file[a.pos] = [key |-> a.key, pay |-> a.pay]

\* However often an uncertain append is retried, before or after a reopening, the file
\* holds each logical key once, starts with the preparation record and ends with the
\* terminal one: the next reopening scan accepts it.
ReopenAccepts == FramesAgree

\* While nothing is in doubt the writer's index is the file: no frame is hidden from the
\* duplicate check and the next frame is written behind the last one.
IndexIsFile == (journal.open /\ ~journal.rescan /\ ~journal.failed) => journal.entries = file

\* The journal: an acknowledged record is durable, a reopening accepts what
\* any crash left, and the index is the file.
JournalSafe ==
    /\ JournalTypeOK /\ AckedIsDurable /\ ReopenAccepts /\ IndexIsFile
=============================================================================
