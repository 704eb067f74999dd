---------------------------- MODULE PaperProofs -----------------------------
(***************************************************************************)
(* What holds of the durable audit journal for any logical keys, capacity  *)
(* and number of faults, of the result store for any processes, threads    *)
(* and crashes, of a backtest attempt for any processes, scenarios and     *)
(* deaths, and what the composed paper components inherit from the three.  *)
(***************************************************************************)
EXTENDS MCPaper, SequenceTheorems, FiniteSetTheorems, TLAPS
-----------------------------------------------------------------------------
(***************************************************************************)
(* The durable audit journal.  The writer's index is a prefix of the file, *)
(* and every indexed frame that no scan found is synced.                   *)
(***************************************************************************)
JournalWriters == [open : BOOLEAN, entries : Seq(Record), rescan : BOOLEAN, failed : BOOLEAN,
                   closing : BOOLEAN, reserved : 0..CloseFrames, recovered : SUBSET Nat]
JournalAcks == [key : JournalKeys, pay : Payloads, pos : 1..JournalMaxRecords]

JournalShape ==
    /\ file \in Seq(Record) /\ Len(file) <= JournalMaxRecords
    /\ journalTorn \in BOOLEAN /\ synced \in 0..Len(file)
    /\ journalFaults \in 0..JournalMaxFaults
    /\ journal \in JournalWriters /\ acks \subseteq JournalAcks

\* A sequence of frames the reopening scan accepts.
Chained(fs) ==
    /\ \A i \in 1..Len(fs) : fs[i].key = "prepared" <=> i = 1
    /\ \A i, k \in 1..Len(fs) : fs[i].key = fs[k].key => i = k
    /\ \A i \in 1..Len(fs) : fs[i].key = "terminal" => i = Len(fs)

\* The index is a prefix of the file, and what a crash could take from it came from a scan.
Follows(j, fs, n) ==
    /\ Len(j.entries) <= Len(fs) /\ \A i \in 1..Len(j.entries) : j.entries[i] = fs[i]
    /\ j.recovered \subseteq 1..Len(j.entries)
    /\ \A i \in 1..Len(j.entries) : i \notin j.recovered => i <= n

\* Nothing is hidden from a writer that is not in doubt.
Indexes(j, fs) == (j.open /\ ~j.rescan /\ ~j.failed) => j.entries = fs

JournalInv ==
    /\ JournalShape /\ Chained(file) /\ Ack("prepared", "p", 1) \in acks /\ AckedIsDurable
    /\ Follows(journal, file, synced) /\ Indexes(journal, file)

LEMMA ShapeOfFile ==
    ASSUME JournalInv
    PROVE  /\ file \in Seq(Record) /\ Len(file) \in Nat /\ Len(file) <= JournalMaxRecords
           /\ synced \in 0..Len(file) /\ journalTorn \in BOOLEAN
           /\ journalFaults \in 0..JournalMaxFaults /\ journal \in JournalWriters
           /\ acks \subseteq JournalAcks /\ JournalMaxRecords \in Nat /\ JournalMaxFaults \in Nat
  BY JournalAssumption DEF JournalInv, JournalShape

LEMMA FramesAgreeIsChained == ASSUME file \in Seq(Record) PROVE FramesAgree <=> Chained(file)
  <1>1. Len(file) \in Nat
    OBVIOUS
  <1>2. \A i \in 1..Len(file) : SubSeq(file, 1, i - 1) = <<>> <=> i = 1
    <2> SUFFICES ASSUME NEW i \in 1..Len(file) PROVE SubSeq(file, 1, i - 1) = <<>> <=> i = 1
      OBVIOUS
    <2>1. Len(SubSeq(file, 1, i - 1)) = i - 1
      BY <1>1
    <2>2. i = 1 => SubSeq(file, 1, 0) = <<>>
      BY <1>1
    <2> QED BY <1>1, <2>1, <2>2
  <1>3. (\A i \in 1..Len(file) : Position(file, file[i].key) = {i})
           <=> \A i, k \in 1..Len(file) : file[i].key = file[k].key => i = k
    BY DEF Position
  <1>4. (\A i \in 1..Len(file) - 1 : file[i].key # "terminal")
           <=> \A i \in 1..Len(file) : file[i].key = "terminal" => i = Len(file)
    BY <1>1
  <1> QED BY <1>2, <1>3, <1>4 DEF FramesAgree, Chained, CreateAuditRecord

\* One more frame with a new key behind a sequence that is not closed.
LEMMA ChainGrows ==
    ASSUME NEW fs \in Seq(Record), Chained(fs), NEW r \in Record, ~HasKey(fs, r.key),
           ~JournalIsTerminal(fs), CreateAuditRecord(fs, r.key)
    PROVE  /\ Append(fs, r) \in Seq(Record) /\ Len(Append(fs, r)) = Len(fs) + 1 /\ Chained(Append(fs, r))
           /\ \A i \in 1..Len(fs) : Append(fs, r)[i] = fs[i]
           /\ Append(fs, r)[Len(fs) + 1] = r /\ Len(fs) \in Nat
  <1>1. /\ Append(fs, r) \in Seq(Record) /\ Len(Append(fs, r)) = Len(fs) + 1
        /\ \A i \in 1..Len(fs) : Append(fs, r)[i] = fs[i]
        /\ Append(fs, r)[Len(fs) + 1] = r /\ Len(fs) \in Nat
    OBVIOUS
  <1>2. \A i \in 1..Len(fs) : fs[i].key # r.key /\ fs[i].key # "terminal"
    BY DEF HasKey, Position, JournalIsTerminal
  <1>3. r.key = "prepared" <=> Len(fs) = 0
    BY DEF CreateAuditRecord
  <1> HIDE DEF Record
  <1> DEFINE t == Append(fs, r)
  <1>4. \A i \in 1..(Len(fs) + 1) : t[i] = IF i = Len(fs) + 1 THEN r ELSE fs[i]
    BY <1>1
  <1> HIDE DEF t
  <1>5. Len(t) = Len(fs) + 1 /\ Len(fs) \in Nat
    BY <1>1 DEF t
  <1>6. \A i \in 1..Len(t) : t[i].key = "prepared" <=> i = 1
    BY <1>3, <1>4, <1>5 DEF Chained
  <1>7. \A i, k \in 1..Len(t) : t[i].key = t[k].key => i = k
    BY <1>2, <1>4, <1>5 DEF Chained
  <1>8. \A i \in 1..Len(t) : t[i].key = "terminal" => i = Len(t)
    BY <1>2, <1>4, <1>5
  <1>9. Chained(t)
    BY <1>6, <1>7, <1>8 DEF Chained
  <1> QED BY <1>1, <1>9 DEF t

\* A prefix of an accepted sequence is accepted.
LEMMA ChainShrinks ==
    ASSUME NEW fs \in Seq(Record), Chained(fs), NEW n \in 0..Len(fs)
    PROVE  /\ SubSeq(fs, 1, n) \in Seq(Record) /\ Len(SubSeq(fs, 1, n)) = n
           /\ Chained(SubSeq(fs, 1, n)) /\ \A i \in 1..n : SubSeq(fs, 1, n)[i] = fs[i]
  <1> DEFINE t == SubSeq(fs, 1, n)
  <1>1. t \in Seq(Record) /\ Len(t) = n /\ \A i \in 1..n : t[i] = fs[i]
    OBVIOUS
  <1>2. Len(fs) \in Nat
    OBVIOUS
  <1> HIDE DEF t
  <1>3. Chained(t)
    <2>1. \A i \in 1..Len(t) : i \in 1..Len(fs) /\ t[i] = fs[i]
      BY <1>1, <1>2
    <2>2. \A i \in 1..Len(t) : t[i].key = "prepared" <=> i = 1
      BY <2>1 DEF Chained
    <2>3. \A i, k \in 1..Len(t) : t[i].key = t[k].key => i = k
      BY <2>1 DEF Chained
    <2>4. \A i \in 1..Len(t) : t[i].key = "terminal" => i = Len(t)
      BY <1>1, <1>2, <2>1 DEF Chained
    <2> QED BY <2>2, <2>3, <2>4 DEF Chained
  <1> QED BY <1>1, <1>3 DEF t

\* What the writer holds once it has scanned again.
LEMMA CurrentFollows ==
    ASSUME JournalInv
    PROVE  /\ Current(journal) \in JournalWriters /\ Follows(Current(journal), file, synced)
           /\ Current(journal).open = journal.open /\ Current(journal).failed = journal.failed
           /\ Current(journal).closing = journal.closing
           /\ Current(journal).reserved = journal.reserved /\ ~Current(journal).rescan
           /\ Indexes(Current(journal), file)
           /\ (journal.open /\ ~journal.failed) => Current(journal).entries = file
  <1>1. journal \in JournalWriters /\ file \in Seq(Record) /\ Len(file) \in Nat
    BY DEF JournalInv, JournalShape
  <1>2. CASE ~journal.rescan
    <2>1. Current(journal) = journal
      BY <1>2 DEF Current
    <2> QED BY <1>1, <1>2, <2>1 DEF JournalInv, Indexes
  <1>3. CASE journal.rescan
    <2>1. Current(journal) = [journal EXCEPT !.entries = file, !.recovered = 1..Len(file),
                                             !.rescan = FALSE]
      BY <1>3 DEF Current, Rescanned
    <2>2. 1..Len(file) \in SUBSET Nat
      BY <1>1
    <2>3. /\ Current(journal) \in JournalWriters /\ Current(journal).entries = file
          /\ Current(journal).recovered = 1..Len(file) /\ Current(journal).rescan = FALSE
          /\ Current(journal).open = journal.open /\ Current(journal).failed = journal.failed
          /\ Current(journal).closing = journal.closing
          /\ Current(journal).reserved = journal.reserved
      BY <1>1, <2>1, <2>2 DEF JournalWriters
    <2> QED BY <1>1, <2>3 DEF Follows, Indexes
  <1> QED BY <1>2, <1>3

\* What each change of the writer does to its fields.
LEMMA WriterDoubts ==
    ASSUME NEW j \in JournalWriters, NEW x,
           x = [j EXCEPT !.failed = TRUE] \/ x = [j EXCEPT !.rescan = TRUE]
    PROVE  /\ x \in JournalWriters /\ x.recovered = j.recovered /\ x.entries = j.entries
           /\ x.failed \/ x.rescan
  BY DEF JournalWriters

LEMMA WriterCloses ==
    ASSUME NEW j \in JournalWriters, NEW x, x = [j EXCEPT !.closing = TRUE]
    PROVE  /\ x \in JournalWriters /\ x.recovered = j.recovered /\ x.entries = j.entries
           /\ x.open = j.open /\ x.rescan = j.rescan /\ x.failed = j.failed
  BY DEF JournalWriters

LEMMA AcksAreAcks ==
    /\ \A k \in JournalKeys, p \in Payloads, i \in 1..JournalMaxRecords :
          Ack(k, p, i) \in JournalAcks
    /\ \A k, p, i : Ack(k, p, i).key = k /\ Ack(k, p, i).pay = p /\ Ack(k, p, i).pos = i
    /\ \A a \in JournalAcks : a.pos \in 1..JournalMaxRecords
  BY DEF JournalAcks, Ack

\* The file stays, more of it may be synced, and one acknowledgement may be returned.
LEMMA FileKept ==
    ASSUME JournalInv, file' = file, synced' \in synced..Len(file), journalTorn' \in BOOLEAN,
           journalFaults' \in 0..JournalMaxFaults, journal' \in JournalWriters,
           Follows(journal', file, synced'), Indexes(journal', file),
           acks \subseteq acks',
           \A a \in acks' \ acks : /\ a \in JournalAcks /\ a.pos <= synced'
                                  /\ file[a.pos] = [key |-> a.key, pay |-> a.pay]
    PROVE  JournalInv'
  <1>1. Len(file) \in Nat /\ synced \in 0..Len(file) /\ Len(file) <= JournalMaxRecords
        /\ JournalMaxRecords \in Nat /\ acks \subseteq JournalAcks
    BY JournalAssumption DEF JournalInv, JournalShape
  <1>2. acks' \subseteq JournalAcks
    BY <1>1
  <1>3. JournalShape'
    BY <1>1, <1>2 DEF JournalInv, JournalShape
  <1>4. \A a \in acks : a.pos <= synced' /\ file'[a.pos] = [key |-> a.key, pay |-> a.pay]
    <2> SUFFICES ASSUME NEW a \in acks
                 PROVE  a.pos <= synced' /\ file'[a.pos] = [key |-> a.key, pay |-> a.pay]
      OBVIOUS
    <2>1. a.pos \in 1..JournalMaxRecords
      BY <1>1, AcksAreAcks
    <2>2. a.pos <= synced /\ file[a.pos] = [key |-> a.key, pay |-> a.pay]
      BY DEF JournalInv, AckedIsDurable
    <2> QED BY <1>1, <2>1, <2>2
  <1>5. AckedIsDurable'
    <2> SUFFICES ASSUME NEW a \in acks'
                 PROVE  a.pos <= synced' /\ file'[a.pos] = [key |-> a.key, pay |-> a.pay]
      BY DEF AckedIsDurable
    <2>1. CASE a \in acks
      BY <1>4, <2>1
    <2>2. CASE a \notin acks
      BY <2>2
    <2> QED BY <2>1, <2>2
  <1> QED BY <1>3, <1>5 DEF JournalInv, Chained, Follows, Indexes

\* A retry is answered from the index.
LEMMA ReplayStep ==
    ASSUME JournalInv, NEW j, j = journal \/ j = Current(journal), 
           NEW k \in JournalKeys, NEW p \in Payloads, HasKey(j.entries, k), Replay(j, k, p)
    PROVE  JournalInv'
  <1>1. /\ j \in JournalWriters /\ Follows(j, file, synced) /\ Indexes(j, file)
        /\ file \in Seq(Record) /\ Len(file) \in Nat /\ synced \in 0..Len(file)
        /\ journalFaults \in 0..JournalMaxFaults /\ journalTorn \in BOOLEAN
        /\ JournalMaxFaults \in Nat /\ Len(j.entries) \in Nat
    BY CurrentFollows, JournalAssumption DEF JournalInv, JournalShape, JournalWriters
  <1>2. PICK i \in 1..Len(j.entries) :
            /\ j.entries[i].key = k /\ file' = file /\ journalTorn' = (journalTorn /\ j.rescan)
            /\ \/ /\ j.entries[i].pay = p
                  /\ synced' = (IF i \in j.recovered THEN Len(file) ELSE synced)
                  /\ journal' = [j EXCEPT !.recovered = @ \ {i}]
                  /\ acks' = acks \cup {Ack(k, p, i)} /\ journalFaults' = journalFaults
               \/ /\ journal' = [j EXCEPT !.failed = TRUE] /\ synced' = synced /\ acks' = acks
                  /\ journalFaults' = journalFaults \/ JournalFault
    <2> DEFINE i == CHOOSE n \in Position(j.entries, k) : TRUE
    <2>1. i \in Position(j.entries, k)
      BY DEF HasKey
    <2>2. i \in 1..Len(j.entries) /\ j.entries[i].key = k
      BY <2>1 DEF Position
    <2>3. /\ file' = file /\ journalTorn' = (journalTorn /\ j.rescan)
          /\ \/ /\ j.entries[i].pay = p
                /\ synced' = (IF i \in j.recovered THEN Len(file) ELSE synced)
                /\ journal' = [j EXCEPT !.recovered = @ \ {i}]
                /\ acks' = acks \cup {Ack(k, p, i)} /\ journalFaults' = journalFaults
             \/ /\ journal' = [j EXCEPT !.failed = TRUE] /\ synced' = synced /\ acks' = acks
                /\ journalFaults' = journalFaults \/ JournalFault
      BY DEF Replay
    <2> HIDE DEF i
    <2> QED BY <2>2, <2>3
  <1>3. journalTorn' \in BOOLEAN /\ journalFaults' \in 0..JournalMaxFaults
    BY <1>1, <1>2 DEF JournalFault
  <1>4. CASE journal' = [j EXCEPT !.failed = TRUE] /\ synced' = synced /\ acks' = acks
    <2>1. /\ journal' \in JournalWriters /\ journal'.recovered = j.recovered
          /\ journal'.entries = j.entries /\ journal'.failed
      BY <1>1, <1>4, WriterDoubts
    <2>2. Follows(journal', file, synced') /\ Indexes(journal', file)
      BY <1>1, <1>4, <2>1 DEF Follows, Indexes
    <2> QED BY <1>1, <1>2, <1>3, <1>4, <2>1, <2>2, FileKept
  <1>5. CASE /\ j.entries[i].pay = p
             /\ synced' = (IF i \in j.recovered THEN Len(file) ELSE synced)
             /\ journal' = [j EXCEPT !.recovered = @ \ {i}]
             /\ acks' = acks \cup {Ack(k, p, i)}
    <2>1. /\ journal' \in JournalWriters /\ journal'.recovered = j.recovered \ {i}
          /\ journal'.entries = j.entries /\ journal'.open = j.open
          /\ journal'.rescan = j.rescan /\ journal'.failed = j.failed
      <3>1. j.recovered \ {i} \in SUBSET Nat
        BY <1>1 DEF JournalWriters
      <3>2. journal' = [j EXCEPT !.recovered = j.recovered \ {i}]
        BY <1>5
      <3> QED BY <1>1, <3>1, <3>2 DEF JournalWriters
    <2>2. synced' \in synced..Len(file) /\ i <= synced' /\ i \in 1..Len(file)
      BY <1>1, <1>5 DEF Follows
    <2>3. Follows(journal', file, synced') /\ Indexes(journal', file)
      BY <1>1, <2>1, <2>2 DEF Follows, Indexes
    <2>4. file[i] = [key |-> k, pay |-> p]
      <3>1. file[i] = j.entries[i] /\ file[i] \in Record
        BY <1>1, <2>2 DEF Follows
      <3> QED BY <1>2, <1>5, <3>1 DEF Record
    <2>5. \A a \in acks' \ acks : /\ a \in JournalAcks /\ a.pos <= synced'
                                  /\ file[a.pos] = [key |-> a.key, pay |-> a.pay]
      <3>1. i \in 1..JournalMaxRecords
        BY <1>1, <2>2, JournalAssumption DEF JournalInv, JournalShape
      <3> QED BY <1>5, <2>2, <2>4, <3>1, AcksAreAcks
    <2>6. acks \subseteq acks'
      BY <1>5
    <2> QED BY <1>2, <1>3, <2>1, <2>2, <2>3, <2>5, <2>6, FileKept
  <1> QED BY <1>2, <1>4, <1>5

\* A new record: written behind the last frame, or left for the next scan to find.
LEMMA WriteStep ==
    ASSUME JournalInv, journal.open, ~journal.failed,
           NEW k \in JournalKeys, NEW p \in Payloads, NEW j, j = Current(journal),
           ~HasKey(j.entries, k), HasRoom(j, k), CreateAuditRecord(j.entries, k), Write(j, k, p)
    PROVE  JournalInv'
  <1> DEFINE r == [key |-> k, pay |-> p]
             here == Len(file) + 1
             longer == Append(file, r)
  <1>1. /\ j \in JournalWriters /\ Follows(j, file, synced) /\ j.entries = file
        /\ file \in Seq(Record) /\ Len(file) \in Nat /\ synced \in 0..Len(file)
        /\ journalFaults \in 0..JournalMaxFaults /\ JournalMaxFaults \in Nat
        /\ JournalMaxRecords \in Nat /\ acks \subseteq JournalAcks /\ Chained(file)
        /\ j.reserved \in 0..CloseFrames /\ CloseFrames \in Nat
    <2>1. j \in JournalWriters /\ Follows(j, file, synced) /\ j.entries = file
      BY CurrentFollows
    <2>2. j.reserved \in 0..CloseFrames
      BY <2>1 DEF JournalWriters
    <2> QED BY <2>1, <2>2, JournalAssumption DEF JournalInv, JournalShape
  <1>2. r \in Record /\ r.key = k
    BY DEF Record
  <1>3. /\ longer \in Seq(Record) /\ Len(longer) = here /\ Chained(longer)
        /\ \A i \in 1..Len(file) : longer[i] = file[i]
        /\ longer[here] = r
    BY <1>1, <1>2, ChainGrows DEF HasRoom
  <1>4. here <= JournalMaxRecords /\ (j.closing => j.reserved >= 1)
    BY <1>1 DEF HasRoom
  <1>5. /\ journalTorn' \in BOOLEAN /\ journalFaults' \in 0..JournalMaxFaults
        /\ synced' \in {synced, here} /\ file' \in {file, longer}
        /\ synced' = here => file' = longer
    <2>1. journalFaults' = journalFaults \/ JournalFault
      BY DEF Write
    <2>2. \/ file' = longer /\ journalTorn' = FALSE /\ synced' = here
          \/ journalTorn' \in BOOLEAN /\ file' = file /\ synced' = synced
          \/ journalTorn' = FALSE /\ file' = longer /\ synced' = synced
      BY <1>1 DEF Write
    <2>3. journalFaults' \in 0..JournalMaxFaults
      BY <1>1, <2>1 DEF JournalFault
    <2> HIDE DEF longer
    <2>4. journalTorn' \in BOOLEAN
      BY <2>2
    <2> QED BY <1>1, <2>2, <2>3, <2>4
  <1> HIDE DEF r, longer
  <1>6. /\ file' \in Seq(Record) /\ Len(file') \in Nat /\ Len(file') <= JournalMaxRecords
        /\ Len(file) <= Len(file') /\ Chained(file') /\ synced' \in synced..Len(file')
        /\ \A i \in 1..Len(file) : file'[i] = file[i]
    BY <1>1, <1>3, <1>4, <1>5 DEF JournalInv, JournalShape
  <1>7. \A a \in acks : a.pos <= synced' /\ file'[a.pos] = [key |-> a.key, pay |-> a.pay]
    <2> SUFFICES ASSUME NEW a \in acks
                 PROVE  a.pos <= synced' /\ file'[a.pos] = [key |-> a.key, pay |-> a.pay]
      OBVIOUS
    <2>1. a.pos \in 1..JournalMaxRecords
      BY <1>1, AcksAreAcks
    <2>2. a.pos <= synced /\ file[a.pos] = [key |-> a.key, pay |-> a.pay]
      BY DEF JournalInv, AckedIsDurable
    <2> QED BY <1>1, <1>6, <2>1, <2>2
  <1>8. CASE /\ acks' = acks
             /\ journal' = [j EXCEPT !.rescan = TRUE] \/ journal' = [j EXCEPT !.failed = TRUE]
    <2>1. /\ journal' \in JournalWriters /\ journal'.recovered = j.recovered
          /\ journal'.entries = j.entries /\ (journal'.failed \/ journal'.rescan)
      BY <1>1, <1>8, WriterDoubts
    <2>2. Follows(journal', file', synced') /\ Indexes(journal', file')
      BY <1>1, <1>6, <2>1 DEF Follows, Indexes
    <2>3. JournalShape'
      BY <1>1, <1>5, <1>6, <1>8, <2>1 DEF JournalShape
    <2>4. AckedIsDurable'
      BY <1>7, <1>8 DEF AckedIsDurable
    <2> QED BY <1>6, <1>8, <2>2, <2>3, <2>4 DEF JournalInv, Follows, Indexes, Chained
  <1>9. CASE /\ file' = longer /\ synced' = here /\ acks' = acks \cup {Ack(k, p, here)}
             /\ journal' = [j EXCEPT !.entries = longer,
                                     !.reserved = @ - (IF j.closing THEN 1 ELSE 0)]
    <2>1. /\ journal' \in JournalWriters /\ journal'.recovered = j.recovered
          /\ journal'.entries = longer
      <3>1. j.reserved - (IF j.closing THEN 1 ELSE 0) \in 0..CloseFrames
        BY <1>1, <1>4
      <3>2. journal' = [j EXCEPT !.entries = longer,
                                 !.reserved = j.reserved - (IF j.closing THEN 1 ELSE 0)]
        BY <1>9
      <3>3. \A n \in 0..CloseFrames : [j EXCEPT !.entries = longer, !.reserved = n] \in JournalWriters
        BY <1>1, <1>3 DEF JournalWriters
      <3>4. journal' \in JournalWriters
        BY <3>1, <3>2, <3>3
      <3> QED BY <1>1, <3>2, <3>4 DEF JournalWriters
    <2>2. Follows(journal', file', synced') /\ Indexes(journal', file')
      BY <1>1, <1>3, <1>9, <2>1 DEF Follows, Indexes
    <2>3. acks' \subseteq JournalAcks
      <3>1. here \in 1..JournalMaxRecords
        BY <1>1, <1>4
      <3> QED BY <1>1, <1>9, <3>1, AcksAreAcks
    <2>4. JournalShape'
      BY <1>1, <1>5, <1>6, <2>1, <2>3 DEF JournalShape
    <2>5. AckedIsDurable'
      <3>1. Ack(k, p, here).pos = here /\ Ack(k, p, here).key = k /\ Ack(k, p, here).pay = p
        BY AcksAreAcks
      <3>2. file'[here] = [key |-> k, pay |-> p]
        BY <1>3, <1>9 DEF r
      <3>3. \A a \in acks' : a.pos <= synced' /\ file'[a.pos] = [key |-> a.key, pay |-> a.pay]
        <4> SUFFICES ASSUME NEW a \in acks'
                     PROVE  a.pos <= synced' /\ file'[a.pos] = [key |-> a.key, pay |-> a.pay]
          OBVIOUS
        <4>1. CASE a \in acks
          BY <1>7, <4>1
        <4>2. CASE a = Ack(k, p, here)
          BY <1>1, <1>9, <3>1, <3>2, <4>2
        <4> QED BY <1>9, <4>1, <4>2
      <3> QED BY <3>3 DEF AckedIsDurable
    <2> QED BY <1>6, <1>9, <2>2, <2>4, <2>5 DEF JournalInv, Follows, Indexes, Chained
  <1>10. \/ /\ file' = longer /\ synced' = here /\ acks' = acks \cup {Ack(k, p, here)}
            /\ journal' = [j EXCEPT !.entries = longer,
                                    !.reserved = @ - (IF j.closing THEN 1 ELSE 0)]
         \/ /\ acks' = acks
            /\ journal' = [j EXCEPT !.rescan = TRUE] \/ journal' = [j EXCEPT !.failed = TRUE]
    BY <1>1 DEF Write, longer, r
  <1> QED BY <1>8, <1>9, <1>10

LEMMA AppendRecordStep ==
    ASSUME JournalInv, NEW k \in JournalKeys, NEW p \in Payloads, AppendRecord(k, p)
    PROVE  JournalInv'
  <1> DEFINE j == Current(journal)
  <1>1. journal.open /\ ~journal.failed
    BY DEF AppendRecord
  <1>2. CASE HasKey(journal.entries, k) /\ Replay(journal, k, p)
    BY <1>2, ReplayStep
  <1>3. CASE HasKey(j.entries, k) /\ Replay(j, k, p)
    BY <1>3, ReplayStep
  <1>4. CASE /\ ~HasKey(j.entries, k) /\ HasRoom(j, k) /\ CreateAuditRecord(j.entries, k)
             /\ Write(j, k, p)
    BY <1>1, <1>4, WriteStep
  <1>5. CASE journal' = j /\ journalTorn' = FALSE /\ UNCHANGED <<file, synced, acks, journalFaults>>
    <2>1. j \in JournalWriters /\ Follows(j, file, synced) /\ Indexes(j, file)
      BY CurrentFollows
    <2>2. synced' \in synced..Len(file) /\ journalFaults' \in 0..JournalMaxFaults
      BY <1>5, ShapeOfFile
    <2>3. journalTorn' \in BOOLEAN
      BY <1>5
    <2> HIDE DEF j
    <2> QED BY <1>5, <2>1, <2>2, <2>3, FileKept
  <1> QED BY <1>2, <1>3, <1>4, <1>5 DEF AppendRecord

LEMMA SettleAppendStep ==
    ASSUME JournalInv, NEW k \in JournalKeys, NEW p \in Payloads, SettleAppend(k, p)
    PROVE  JournalInv'
  <1>1. PICK j : j = Current(journal)
    OBVIOUS
  <1>2. /\ j \in JournalWriters /\ Follows(j, file, synced) /\ Indexes(j, file)
        /\ j.entries = file /\ file' = file
        /\ Len(file) \in Nat /\ synced \in 0..Len(file) /\ Len(file) <= JournalMaxRecords
        /\ file \in Seq(Record) /\ JournalMaxRecords \in Nat
        /\ journalFaults \in 0..JournalMaxFaults /\ JournalMaxFaults \in Nat
    <2>1. journal.open /\ ~journal.failed /\ file' = file
      BY DEF SettleAppend
    <2> QED BY <1>1, <2>1, CurrentFollows, ShapeOfFile
  <1>3. journalTorn' \in BOOLEAN
    BY DEF SettleAppend
  <1>4. \A n \in synced..Len(file) : Follows(j, file, n)
    BY <1>2 DEF Follows
  <1>5. CASE journal' = j /\ synced' = Len(file) /\ UNCHANGED <<acks, journalFaults>>
    BY <1>2, <1>3, <1>4, <1>5, FileKept
  <1>6. CASE /\ journal' = [j EXCEPT !.failed = TRUE] \/ journal' = [j EXCEPT !.rescan = TRUE]
             /\ UNCHANGED <<synced, acks>> /\ (journalFaults' = journalFaults \/ JournalFault)
    <2>1. /\ journal' \in JournalWriters /\ journal'.recovered = j.recovered
          /\ journal'.entries = j.entries /\ (journal'.failed \/ journal'.rescan)
      BY <1>2, <1>6, WriterDoubts
    <2>2. Follows(journal', file, synced') /\ Indexes(journal', file)
      BY <1>2, <1>6, <2>1 DEF Follows, Indexes
    <2>3. journalFaults' \in 0..JournalMaxFaults
      BY <1>2, <1>6 DEF JournalFault
    <2> QED BY <1>2, <1>3, <1>6, <2>1, <2>2, <2>3, FileKept
  <1>7. ASSUME NEW i \in Position(j.entries, k), j.entries[i].pay = p,
               journal' = [j EXCEPT !.recovered = @ \ {i}], synced' = Len(file),
               acks' = acks \cup {Ack(k, p, i)}, UNCHANGED journalFaults
        PROVE  JournalInv'
    <2>1. i \in 1..Len(file) /\ file[i].key = k /\ file[i].pay = p /\ file[i] \in Record
      BY <1>2, <1>7 DEF Position
    <2>2. /\ journal' \in JournalWriters /\ journal'.recovered = j.recovered \ {i}
          /\ journal'.entries = j.entries /\ journal'.open = j.open
          /\ journal'.rescan = j.rescan /\ journal'.failed = j.failed
      <3>1. j.recovered \ {i} \in SUBSET Nat
        BY <1>2 DEF JournalWriters
      <3>2. journal' = [j EXCEPT !.recovered = j.recovered \ {i}]
        BY <1>7
      <3> QED BY <1>2, <3>1, <3>2 DEF JournalWriters
    <2>3. Follows(journal', file, synced') /\ Indexes(journal', file)
      BY <1>2, <1>7, <2>2 DEF Follows, Indexes
    <2>4. file[i] = [key |-> k, pay |-> p]
      BY <2>1 DEF Record
    <2>5. \A a \in acks' \ acks : /\ a \in JournalAcks /\ a.pos <= synced'
                                  /\ file[a.pos] = [key |-> a.key, pay |-> a.pay]
      <3>1. i \in 1..JournalMaxRecords
        BY <1>2, <2>1
      <3> QED BY <1>7, <2>1, <2>4, <3>1, AcksAreAcks
    <2>6. acks \subseteq acks'
      BY <1>7
    <2>7. synced' \in synced..Len(file) /\ journalFaults' \in 0..JournalMaxFaults
      BY <1>2, <1>7
    <2> QED BY <1>2, <1>3, <2>2, <2>3, <2>5, <2>6, <2>7, FileKept
  <1> QED BY <1>1, <1>5, <1>6, <1>7 DEF SettleAppend

LEMMA BeginCloseStep == ASSUME JournalInv, BeginProtectedClose PROVE JournalInv'
  <1>1. PICK j : j = Current(journal)
    OBVIOUS
  <1>2. /\ j \in JournalWriters /\ Follows(j, file, synced) /\ Indexes(j, file)
        /\ journal' = [j EXCEPT !.closing = TRUE]
        /\ journalTorn' = FALSE /\ UNCHANGED <<file, synced, acks, journalFaults>>
    BY <1>1, CurrentFollows DEF BeginProtectedClose
  <1>3. /\ journal' \in JournalWriters /\ journal'.recovered = j.recovered
        /\ journal'.entries = j.entries /\ journal'.open = j.open
        /\ journal'.rescan = j.rescan /\ journal'.failed = j.failed
    BY <1>2, WriterCloses
  <1>4. Follows(journal', file, synced') /\ Indexes(journal', file)
    BY <1>2, <1>3 DEF Follows, Indexes
  <1>5. synced' \in synced..Len(file) /\ journalFaults' \in 0..JournalMaxFaults
    BY <1>2, ShapeOfFile
  <1>6. journalTorn' \in BOOLEAN
    BY <1>2
  <1> QED BY <1>2, <1>3, <1>4, <1>5, <1>6, FileKept

LEMMA NoWriterFollows ==
    /\ NoWriter \in JournalWriters
    /\ \A fs, n : Len(fs) \in Nat => Follows(NoWriter, fs, n) /\ Indexes(NoWriter, fs)
  BY JournalAssumption DEF NoWriter, JournalWriters, Follows, Indexes

LEMMA JournalCloseStep == ASSUME JournalInv, JournalClose PROVE JournalInv'
  <1>1. /\ journal' = NoWriter /\ UNCHANGED <<file, journalTorn, synced, acks, journalFaults>>
        /\ Len(file) \in Nat
    BY ShapeOfFile DEF JournalClose
  <1>2. /\ synced' \in synced..Len(file) /\ journalFaults' \in 0..JournalMaxFaults
        /\ journalTorn' \in BOOLEAN
    BY <1>1, ShapeOfFile
  <1> QED BY <1>1, <1>2, NoWriterFollows, FileKept

\* A crash keeps every synced frame, and an acknowledged one is synced.
LEMMA JournalCrashStep == ASSUME JournalInv, JournalCrash PROVE JournalInv'
  <1>1. /\ journal' = NoWriter /\ synced' = synced /\ acks' = acks /\ JournalFault
        /\ Len(file) \in Nat /\ file \in Seq(Record) /\ synced \in 0..Len(file)
        /\ Chained(file) /\ acks \subseteq JournalAcks /\ Len(file) <= JournalMaxRecords
        /\ JournalMaxRecords \in Nat /\ journalFaults \in 0..JournalMaxFaults
        /\ JournalMaxFaults \in Nat /\ journalTorn \in BOOLEAN
    BY JournalAssumption DEF JournalCrash, JournalInv, JournalShape
  <1>2. PICK n \in synced..Len(file) :
            /\ file' = SubSeq(file, 1, n)
            /\ journalTorn' \in (IF journalTorn \/ n < Len(file) THEN BOOLEAN ELSE {FALSE})
    BY DEF JournalCrash
  <1>3. n \in 0..Len(file)
    BY <1>1, <1>2
  <1>4. journalTorn' \in BOOLEAN
    BY <1>2
  <1>5. /\ file' \in Seq(Record) /\ Len(file') = n /\ Chained(file')
        /\ \A i \in 1..n : file'[i] = file[i]
    BY <1>1, <1>2, <1>3, ChainShrinks
  <1>6. journalFaults' \in 0..JournalMaxFaults
    BY <1>1 DEF JournalFault
  <1>7. synced' \in 0..Len(file') /\ Len(file') <= JournalMaxRecords /\ Len(file') \in Nat
    BY <1>1, <1>2, <1>3, <1>5
  <1>8. JournalShape'
    BY <1>1, <1>3, <1>4, <1>5, <1>6, <1>7, NoWriterFollows DEF JournalShape
  <1>9. AckedIsDurable'
    <2> SUFFICES ASSUME NEW a \in acks
                 PROVE  a.pos <= synced /\ file'[a.pos] = [key |-> a.key, pay |-> a.pay]
      BY <1>1 DEF AckedIsDurable
    <2>1. a.pos \in 1..JournalMaxRecords
      BY <1>1, AcksAreAcks
    <2>2. a.pos <= synced /\ file[a.pos] = [key |-> a.key, pay |-> a.pay]
      BY DEF JournalInv, AckedIsDurable
    <2>3. a.pos \in 1..n
      BY <1>1, <1>2, <2>1, <2>2
    <2> QED BY <1>5, <2>2, <2>3
  <1>10. Follows(journal', file', synced') /\ Indexes(journal', file')
    BY <1>1, <1>7, NoWriterFollows
  <1> QED BY <1>1, <1>5, <1>8, <1>9, <1>10 DEF JournalInv, Chained, Follows, Indexes

\* The preparation record is acknowledged, so a reopening always finds it.
LEMMA ReopenStep == ASSUME JournalInv, Reopen PROVE JournalInv'
  <1>1. /\ Len(file) \in Nat /\ file \in Seq(Record) /\ synced \in 0..Len(file)
        /\ Len(file) <= JournalMaxRecords /\ JournalMaxRecords \in Nat
        /\ journalFaults \in 0..JournalMaxFaults /\ acks \subseteq JournalAcks
        /\ Ack("prepared", "p", 1) \in acks
    BY JournalAssumption DEF JournalInv, JournalShape
  <1>2. 1 <= synced /\ file[1] = [key |-> "prepared", pay |-> "p"]
    BY <1>1, AcksAreAcks DEF JournalInv, AckedIsDurable
  <1>3. file' = file /\ synced' = Len(file) /\ journalTorn' = FALSE
    BY <1>1, <1>2 DEF Reopen
  <1>4. /\ acks' = acks /\ journalFaults' = journalFaults
        /\ journal' = [NoWriter EXCEPT !.open = TRUE, !.entries = file, !.recovered = 2..Len(file)]
    BY <1>1, <1>3 DEF Reopen
  <1>5. journal' = [open |-> TRUE, entries |-> file, rescan |-> FALSE, failed |-> FALSE,
                    closing |-> FALSE, reserved |-> 0, recovered |-> 2..Len(file)]
    BY <1>4 DEF NoWriter
  <1>6. 2..Len(file) \in SUBSET Nat /\ 0 \in 0..CloseFrames
    BY <1>1, JournalAssumption
  <1>7. journal' \in JournalWriters
    BY <1>1, <1>5, <1>6 DEF JournalWriters
  <1>8. Follows(journal', file, synced') /\ Indexes(journal', file)
    BY <1>1, <1>3, <1>5 DEF Follows, Indexes
  <1>9. synced' \in synced..Len(file)
    BY <1>1, <1>3
  <1>10. journalTorn' \in BOOLEAN
    BY <1>3
  <1> QED BY <1>1, <1>3, <1>4, <1>7, <1>8, <1>9, <1>10, FileKept

LEMMA JournalStarts == JournalInit => JournalInv
  <1> SUFFICES ASSUME JournalInit PROVE JournalInv
    OBVIOUS
  <1> DEFINE r == [key |-> "prepared", pay |-> "p"]
  <1>1. /\ file = <<r>> /\ journalTorn = FALSE /\ synced = 1 /\ journalFaults = 0
        /\ acks = {Ack("prepared", "p", 1)}
        /\ journal = [NoWriter EXCEPT !.open = TRUE, !.entries = file, !.reserved = CloseFrames]
    BY DEF JournalInit
  <1>2. r \in Record /\ r.key = "prepared" /\ "prepared" \in JournalKeys /\ "p" \in Payloads
    BY DEF Record, JournalKeys, Payloads
  <1>3. 1 \in 1..JournalMaxRecords /\ CloseFrames \in 0..CloseFrames /\ JournalMaxFaults \in Nat
        /\ CloseFrames \in Nat
    BY JournalAssumption
  <1> HIDE DEF r
  <1>4. file \in Seq(Record) /\ Len(file) = 1 /\ file[1] = r
    BY <1>1, <1>2
  <1>5. journal = [open |-> TRUE, entries |-> file, rescan |-> FALSE, failed |-> FALSE,
                   closing |-> FALSE, reserved |-> CloseFrames, recovered |-> {}]
    BY <1>1 DEF NoWriter
  <1>6. journal \in JournalWriters
    BY <1>3, <1>4, <1>5 DEF JournalWriters
  <1>7. Follows(journal, file, synced) /\ Indexes(journal, file)
    <2>1. journal.entries = file /\ journal.recovered = {}
      BY <1>5
    <2>2. \A i \in 1..Len(file) : i <= synced
      BY <1>1, <1>4
    <2>3. Len(file) <= Len(file) /\ {} \subseteq 1..Len(file)
      BY <1>4
    <2>4. Follows(journal, file, synced)
      BY <2>1, <2>2, <2>3 DEF Follows
    <2> QED BY <2>1, <2>4 DEF Indexes
  <1>8. Ack("prepared", "p", 1) \in JournalAcks
    BY <1>2, <1>3, AcksAreAcks
  <1>9. JournalShape
    <2>1. Len(file) <= JournalMaxRecords /\ synced \in 0..Len(file)
      BY <1>1, <1>3, <1>4
    <2>2. journalFaults \in 0..JournalMaxFaults
      BY <1>1, <1>3
    <2>3. journalTorn \in BOOLEAN
      BY <1>1
    <2>4. acks \subseteq JournalAcks
      BY <1>1, <1>8
    <2> QED BY <1>4, <1>6, <2>1, <2>2, <2>3, <2>4 DEF JournalShape
  <1>10. AckedIsDurable
    BY <1>1, <1>4, AcksAreAcks DEF AckedIsDurable, r
  <1>11. Chained(file)
    BY <1>2, <1>4 DEF Chained
  <1> QED BY <1>1, <1>7, <1>9, <1>10, <1>11 DEF JournalInv

LEMMA JournalStep == JournalInv /\ [JournalNext]_journalVars => JournalInv'
  <1> SUFFICES ASSUME JournalInv, [JournalNext]_journalVars PROVE JournalInv'
    OBVIOUS
  <1>1. CASE UNCHANGED journalVars
    <2>1. /\ file' = file /\ synced' = synced /\ journalTorn' = journalTorn
          /\ journalFaults' = journalFaults /\ journal' = journal /\ acks' = acks
      BY <1>1 DEF journalVars
    <2>2. synced' \in synced..Len(file)
      BY <2>1, ShapeOfFile
    <2>3. Follows(journal', file, synced') /\ Indexes(journal', file)
      BY <2>1 DEF JournalInv
    <2> QED BY <2>1, <2>2, <2>3, ShapeOfFile, FileKept
  <1>2. ASSUME NEW kp \in Offered, AppendRecord(kp[1], kp[2]) \/ SettleAppend(kp[1], kp[2])
        PROVE  JournalInv'
    <2>1. kp[1] \in JournalKeys /\ kp[2] \in Payloads
      BY DEF Offered
    <2> QED BY <1>2, <2>1, AppendRecordStep, SettleAppendStep
  <1> QED BY <1>1, <1>2, BeginCloseStep, JournalCloseStep, JournalCrashStep,
             ReopenStep
         DEF JournalNext

\* What holds of file, index and acknowledgements through every error, crash and
\* reopening, for any capacity and any set of logical keys.
THEOREM JournalInvariant == JournalSpec => []JournalInv
  BY JournalStarts, JournalStep, PTL DEF JournalSpec

\* An acknowledged record stays durable where it was acknowledged, a reopening
\* accepts whatever any error or crash left, and the index is the file
\* (experiments/audit.py, append, settle_append and _rescan).
THEOREM JournalIsSafe == JournalSpec => []JournalSafe
  <1>1. JournalInv => JournalSafe
    <2> SUFFICES ASSUME JournalInv PROVE JournalSafe
      OBVIOUS
    <2> USE DEF JournalInv
    <2>1. journal \in JournalWriters
      BY DEF JournalShape
    <2>2. JournalTypeOK
      BY <2>1 DEF JournalTypeOK, JournalShape, JournalWriters, Follows, JournalAcks
    <2>3. ReopenAccepts
      BY FramesAgreeIsChained DEF ReopenAccepts, JournalShape
    <2>4. IndexIsFile
      BY DEF IndexIsFile, Indexes
    <2> QED BY <2>2, <2>3, <2>4 DEF JournalSafe
  <1> QED BY JournalInvariant, <1>1, PTL

-----------------------------------------------------------------------------
(***************************************************************************)
(* The result store.  The lock, the entries on disk and the capabilities   *)
(* of each process agree on how far the attempt has come.                  *)
(***************************************************************************)
StorePcs == {"idle", "preparing", "writing", "verified"}
ProcRecs == [pc : StorePcs, step : 0..9, count : Nat, terminal : BOOLEAN, replayed : BOOLEAN]
CapStates == {"none", "available", "consuming", "consumed", "failed"}
CapRecs == [state : CapStates, token : Threads \cup {StoreNobody}]

\* What is on disk when a preparation has come to step k.
LaidTo(k) ==
    /\ Exists("run")
    /\ k >= 3 => Exists("audit") /\ Exists("outputs")
    /\ k >= 5 => storeDisk["lock"] = "durable"
    /\ k >= 6 => Exists("manifest")
    /\ k >= 7 => storeDisk["bytes"] = "durable"
    /\ k >= 8 => \A e \in {"audit", "outputs", "manifest"} : storeDisk[e] = "durable"
    /\ k >= 9 => storeDisk["run"] = "durable"

\* A process that prepares: the attempt is its own and nothing was appended.
PreparesOk(p, m) ==
    m.pc = "preparing" =>
        /\ m.step \in 2..9 /\ storeJournal.records = 0 /\ LaidTo(m.step)
        /\ m.step >= 4 => flock = p

\* A process that writes, or recovers, holds the lock and what it found still holds.
HoldsOk(p, m, c) ==
    /\ m.pc = "writing" => flock = p /\ storeJournal.records > 0
    /\ m.pc = "verified" =>
          /\ storeJournal.records > 0
          /\ c["classification"].state # "consumed" => flock = p
          /\ flock = p => storeJournal.records = m.count /\ storeJournal.terminal = m.terminal
    /\ c["admission"].state # "none" => flock = p /\ ~m.terminal

\* The capabilities follow one another, and each was made into its product when consumed.
ChainOk(m, c, n) ==
    /\ m.pc \in {"idle", "preparing"} => c = NoCaps /\ m.replayed = FALSE
    /\ c["admission"].state # "none" => c["classification"].state = "consumed"
    /\ c["assembly"].state # "none" => c["admission"].state = "consumed"
    /\ \A cs \in StoreStages :
          /\ c[cs].state \in {"available", "consuming"} => m.pc = "verified"
          /\ n[cs] = IF c[cs].state = "consumed" THEN 1 ELSE 0
    /\ m.replayed => c["assembly"].state \in {"consuming", "consumed", "failed"}

ProcOk(p, m, c, n) ==
    /\ m \in ProcRecs /\ c \in [StoreStages -> CapRecs] /\ n \in [StoreStages -> Nat]
    /\ PreparesOk(p, m) /\ HoldsOk(p, m, c) /\ ChainOk(m, c, n)

AttemptStands ==
    /\ storeDisk \in [Entries -> {"absent", "cached", "durable"}]
    /\ flock \in StoreProcesses \cup {StoreNobody}
    /\ storeJournal \in [records : 0..StoreMaxRecords, terminal : BOOLEAN]
    /\ storeJournal.records = 0 => ~storeJournal.terminal
    /\ storeJournal.records > 0 => \A e \in Entries : storeDisk[e] = "durable"
    /\ ~lost

OnePrepares ==
    \A p, q \in StoreProcesses :
        storeProc[p].pc = "preparing" /\ storeProc[q].pc = "preparing" => p = q

StoreInv ==
    /\ AttemptStands /\ OnePrepares
    /\ storeProc \in [StoreProcesses -> ProcRecs]
    /\ cap = [p \in StoreProcesses |-> cap[p]] /\ made = [p \in StoreProcesses |-> made[p]]
    /\ \A p \in StoreProcesses :
          \E m, c, n : storeProc[p] = m /\ cap[p] = c /\ made[p] = n /\ ProcOk(p, m, c, n)
\* What a step of process p leaves alone of the others: the lock of another, the journal
\* and the disk while another prepares or recovers.
OthersAlone(p) ==
    /\ \/ flock' = flock
       \/ flock = p /\ flock' = StoreNobody
       \/ flock = StoreNobody /\ flock' = p
    /\ \/ storeJournal' = storeJournal
       \/ /\ storeJournal'.records > 0 /\ flock = p
          /\ \A q \in StoreProcesses \ {p} : storeProc[q].pc # "preparing"
    /\ \/ storeDisk' = storeDisk
       \/ \A q \in StoreProcesses \ {p} : storeProc[q].pc # "preparing"

LEMMA OthersStay ==
    ASSUME NEW p \in StoreProcesses, NEW q \in StoreProcesses, q # p, OthersAlone(p),
           NEW m, NEW c, NEW n, storeProc[q] = m, ProcOk(q, m, c, n)
    PROVE  ProcOk(q, m, c, n)'
<1>1. flock' = q <=> flock = q
    BY StoreAssumption DEF OthersAlone
<1>2. PreparesOk(q, m)'
    BY <1>1 DEF ProcOk, PreparesOk, OthersAlone, LaidTo, Exists
<1>3. HoldsOk(q, m, c)'
    BY <1>1 DEF ProcOk, HoldsOk, OthersAlone
<1> QED  BY <1>2, <1>3 DEF ProcOk, ChainOk

\* A step of process p that leaves it with m, c and n.
StoreStepOf(p, m, c, n) ==
    /\ storeProc' = [storeProc EXCEPT ![p] = m]
    /\ cap' = [cap EXCEPT ![p] = c] /\ made' = [made EXCEPT ![p] = n]
    /\ ProcOk(p, m, c, n)'
    /\ OthersAlone(p) /\ AttemptStands'
    /\ m.pc = "preparing" => \A q \in StoreProcesses \ {p} : storeProc[q].pc # "preparing"

LEMMA StepKeepsStore ==
    ASSUME StoreInv, NEW p \in StoreProcesses, NEW m, NEW c, NEW n, StoreStepOf(p, m, c, n)
    PROVE  StoreInv'
<1>1. m \in ProcRecs
    BY DEF StoreStepOf, ProcOk
<1>2. /\ storeProc' \in [StoreProcesses -> ProcRecs]
      /\ cap' = [q \in StoreProcesses |-> cap'[q]] /\ made' = [q \in StoreProcesses |-> made'[q]]
    BY <1>1 DEF StoreInv, StoreStepOf
<1>3. /\ storeProc'[p] = m /\ cap'[p] = c /\ made'[p] = n
      /\ \A q \in StoreProcesses \ {p} :
            storeProc'[q] = storeProc[q] /\ cap'[q] = cap[q] /\ made'[q] = made[q]
    BY DEF StoreInv, StoreStepOf
<1>4. OnePrepares'
    BY <1>3 DEF StoreInv, OnePrepares, StoreStepOf
<1>5. ASSUME NEW q \in StoreProcesses
      PROVE  \E mm, cc, nn : /\ storeProc'[q] = mm /\ cap'[q] = cc /\ made'[q] = nn
                             /\ ProcOk(q, mm, cc, nn)'
    <2>1. CASE q = p
        BY <1>3, <2>1 DEF StoreStepOf
    <2>2. CASE q # p
        <3>1. PICK mm, cc, nn : /\ storeProc[q] = mm /\ cap[q] = cc /\ made[q] = nn
                                /\ ProcOk(q, mm, cc, nn)
            BY DEF StoreInv
        <3>2. ProcOk(q, mm, cc, nn)'
            BY <2>2, <3>1, OthersStay DEF StoreStepOf
        <3> QED  BY <1>3, <2>2, <3>1, <3>2
    <2> QED  BY <2>1, <2>2
<1> QED  BY <1>2, <1>4, <1>5 DEF StoreInv, StoreStepOf

\* What the invariant says of one process.
LEMMA ProcIs ==
    ASSUME StoreInv, NEW p \in StoreProcesses
    PROVE  \E m, c, n : /\ storeProc[p] = m /\ cap[p] = c /\ made[p] = n /\ ProcOk(p, m, c, n)
                        /\ m \in ProcRecs /\ AttemptStands
BY DEF StoreInv, ProcOk

\* A process that starts over.
LEMMA StartsOver == ASSUME NEW p PROVE ProcOk(p, NoProc, NoCaps, NoneMade)
<1>1. /\ NoProc \in ProcRecs /\ NoProc.pc = "idle" /\ NoProc.replayed = FALSE
      /\ NoProc.step = 0
    BY DEF NoProc, ProcRecs, StorePcs
<1>2. /\ NoCap.state = "none" /\ NoCap \in CapRecs
    BY DEF NoCap, CapRecs, CapStates
<1>3. /\ NoCaps \in [StoreStages -> CapRecs] /\ \A cs \in StoreStages : NoCaps[cs].state = "none"
    BY <1>2 DEF NoCaps
<1>4. NoneMade \in [StoreStages -> Nat] /\ \A cs \in StoreStages : NoneMade[cs] = 0
    BY DEF NoneMade
<1>5. {"classification", "admission", "assembly"} = StoreStages
    BY DEF StoreStages
<1> QED  BY <1>1, <1>3, <1>4, <1>5 DEF ProcOk, PreparesOk, HoldsOk, ChainOk

LEMMA StartsOverAfter == ASSUME NEW p PROVE ProcOk(p, NoProc, NoCaps, NoneMade)'
<1>1. ProcOk(p, NoProc, NoCaps, NoneMade)
    BY StartsOver
<1> QED  BY <1>1, PTL
\* The fields of a process record.
LEMMA ProcFields ==
    /\ NoProc.pc = "idle" /\ NoProc.step = 0 /\ NoProc.count = 0
    /\ NoProc.terminal = FALSE /\ NoProc.replayed = FALSE /\ NoProc \in ProcRecs
BY DEF NoProc, ProcRecs, StorePcs

\* Preparation, step by step.
LEMMA ReserveKeepsStore == ASSUME StoreInv, NEW p \in StoreProcesses, Reserve(p) PROVE StoreInv'
<1>1. PICK m, c, n : /\ storeProc[p] = m /\ cap[p] = c /\ made[p] = n /\ ProcOk(p, m, c, n)
                     /\ m \in ProcRecs /\ AttemptStands
    BY ProcIs
<1> PICK pc \in StorePcs, two \in 2..9 : pc = "preparing" /\ two = 2
    BY DEF StorePcs
<1> PICK w : w = [NoProc EXCEPT !.pc = pc, !.step = two]
    OBVIOUS
<1>2. w = [NoProc EXCEPT !.pc = "preparing", !.step = 2]
    OBVIOUS
<1>3. w \in ProcRecs /\ w.pc = "preparing" /\ w.step = 2 /\ w.replayed = FALSE
    <2>1. NoProc \in ProcRecs  BY ProcFields
    <2> PICK z \in ProcRecs : z = NoProc
        BY <2>1
    <2>3. w = [z EXCEPT !.pc = pc, !.step = two]
        OBVIOUS
    <2>4. z = [pc |-> z.pc, step |-> z.step, count |-> z.count, terminal |-> z.terminal,
               replayed |-> z.replayed]
        BY DEF ProcRecs
    <2>5. w = [pc |-> pc, step |-> two, count |-> z.count, terminal |-> z.terminal,
               replayed |-> z.replayed]
        BY <2>3, <2>4
    <2>2. w \in ProcRecs /\ w.pc = pc /\ w.step = two /\ w.replayed = NoProc.replayed
        BY <2>5 DEF ProcRecs
    <2> QED  BY <2>2, ProcFields
<1>4. storeJournal.records = 0
    <2>1. storeDisk["run"] # "durable" /\ "run" \in Entries
        BY DEF Reserve, Exists, Entries
    <2> QED  BY <1>1, <2>1 DEF AttemptStands
<1>5. ASSUME NEW q \in StoreProcesses PROVE storeProc[q].pc # "preparing"
    <2>1. PICK mm, cc, nn : storeProc[q] = mm /\ ProcOk(q, mm, cc, nn)
        BY ProcIs
    <2> QED  BY <2>1 DEF ProcOk, PreparesOk, LaidTo, Reserve
<1>6. c = NoCaps /\ UNCHANGED <<flock, storeJournal, cap, made, lost>>
    BY <1>1 DEF Reserve, ProcOk, ChainOk
<1>7. storeDisk' = [storeDisk EXCEPT !["run"] = "cached"]
    BY DEF Reserve
<1>8. AttemptStands' /\ Exists("run")'
    BY <1>1, <1>4, <1>6, <1>7 DEF AttemptStands, Entries, Exists
<1>9. ProcOk(p, w, c, n)'
    <2>1. PreparesOk(p, w)'  BY <1>3, <1>4, <1>6, <1>8 DEF PreparesOk, LaidTo
    <2>2. c["admission"].state = "none"
        BY <1>6 DEF NoCaps, NoCap, StoreStages
    <2>3. HoldsOk(p, w, c)'  BY <1>3, <2>2 DEF HoldsOk
    <2>4. ChainOk(w, c, n)'
        BY <1>1, <1>3, <1>6 DEF ChainOk, ProcOk, Reserve
    <2> QED  BY <1>1, <1>3, <2>1, <2>3, <2>4 DEF ProcOk
<1>10. StoreStepOf(p, w, c, n)
    <2>1. storeProc' = [storeProc EXCEPT ![p] = w]
        BY <1>2 DEF Reserve
    <2>2. cap' = [cap EXCEPT ![p] = c] /\ made' = [made EXCEPT ![p] = n]
        BY <1>1, <1>6 DEF StoreInv
    <2>3. OthersAlone(p)
        BY <1>5, <1>6 DEF OthersAlone
    <2> QED  BY <1>5, <1>8, <1>9, <2>1, <2>2, <2>3 DEF StoreStepOf
<1> QED  BY <1>10, StepKeepsStore

\* What each step of the plan makes and synchronises.
LEMMA PlanIs ==
    /\ Plan[2].make = {"audit", "outputs"} /\ Plan[2].sync = {}
    /\ Plan[3].make = {"lock"} /\ Plan[3].sync = {}
    /\ Plan[4].make = {} /\ Plan[4].sync = {"lock"}
    /\ Plan[5].make = {"manifest", "bytes"} /\ Plan[5].sync = {}
    /\ Plan[6].make = {} /\ Plan[6].sync = {"bytes"}
    /\ Plan[7].make = {} /\ Plan[7].sync = {"audit", "outputs", "manifest"}
    /\ Plan[8].make = {} /\ Plan[8].sync = {"run"}
BY DEF Plan

LEMMA PrepareKeepsStore == ASSUME StoreInv, NEW p \in StoreProcesses, PrepareStep(p) PROVE StoreInv'
<1>1. PICK m, c, n : /\ storeProc[p] = m /\ cap[p] = c /\ made[p] = n /\ ProcOk(p, m, c, n)
                     /\ m \in ProcRecs /\ AttemptStands
    BY ProcIs
<1>2. /\ m.pc = "preparing" /\ m.step \in 2..8 /\ storeJournal.records = 0 /\ LaidTo(m.step)
      /\ m.step >= 4 => flock = p
    BY <1>1 DEF PrepareStep, ProcOk, PreparesOk
<1>3. PICK k \in 2..8 : k = m.step
    BY <1>2
<1>4. PICK w : w = [m EXCEPT !.step = k + 1]
    OBVIOUS
<1>5. w \in ProcRecs /\ w.pc = "preparing" /\ w.step = k + 1 /\ w.replayed = m.replayed
    BY <1>1, <1>2, <1>3, <1>4 DEF ProcRecs
<1>6. ASSUME NEW q \in StoreProcesses \ {p} PROVE storeProc[q].pc # "preparing"
    BY <1>1, <1>2 DEF StoreInv, OnePrepares
<1>7. /\ storeDisk' = [e \in Entries |-> IF e \in Plan[k].make THEN "cached"
                                         ELSE IF e \in Plan[k].sync THEN "durable"
                                         ELSE storeDisk[e]]
      /\ storeProc' = [storeProc EXCEPT ![p] = w]
      /\ UNCHANGED <<storeJournal, cap, made, lost>>
    BY <1>1, <1>3, <1>4 DEF PrepareStep, Synchronised, StoreInv
<1>8. flock' = (IF "lock" \in Plan[k].make THEN p ELSE flock)
     /\ ("lock" \in Plan[k].make => flock = StoreNobody)
    BY <1>1, <1>3 DEF PrepareStep
<1>9. k = 3 <=> "lock" \in Plan[k].make
    BY <1>3, PlanIs
<1>10. Entries = {"run", "audit", "outputs", "lock", "manifest", "bytes"}
    BY DEF Entries
<1>11. LaidTo(k) /\ storeDisk \in [Entries -> {"absent", "cached", "durable"}]
    BY <1>1, <1>2, <1>3 DEF AttemptStands
<1>12. LaidTo(k + 1)'
    <2>1. CASE k = 2  BY <1>7, <1>10, <1>11, <2>1, PlanIs DEF LaidTo, Exists
    <2>2. CASE k = 3  BY <1>7, <1>10, <1>11, <2>2, PlanIs DEF LaidTo, Exists
    <2>3. CASE k = 4  BY <1>7, <1>10, <1>11, <2>3, PlanIs DEF LaidTo, Exists
    <2>4. CASE k = 5  BY <1>7, <1>10, <1>11, <2>4, PlanIs DEF LaidTo, Exists
    <2>5. CASE k = 6  BY <1>7, <1>10, <1>11, <2>5, PlanIs DEF LaidTo, Exists
    <2>6. CASE k = 7  BY <1>7, <1>10, <1>11, <2>6, PlanIs DEF LaidTo, Exists
    <2>7. CASE k = 8  BY <1>7, <1>10, <1>11, <2>7, PlanIs DEF LaidTo, Exists
    <2> QED  BY <2>1, <2>2, <2>3, <2>4, <2>5, <2>6, <2>7
<1>13. storeDisk' \in [Entries -> {"absent", "cached", "durable"}]
    BY <1>7, <1>11
<1>14. AttemptStands'
    BY <1>1, <1>2, <1>7, <1>8, <1>13 DEF AttemptStands
<1>15. k + 1 >= 4 => flock' = p
    BY <1>2, <1>3, <1>8, <1>9
<1>16. c = NoCaps
    BY <1>1, <1>2 DEF ProcOk, ChainOk
<1>17. c["admission"].state = "none"
    BY <1>16 DEF NoCaps, NoCap, StoreStages
<1>18. PreparesOk(p, w)' /\ HoldsOk(p, w, c)' /\ ChainOk(w, c, n)'
    <2>1. PreparesOk(p, w)'  BY <1>2, <1>5, <1>7, <1>12, <1>15 DEF PreparesOk
    <2>2. HoldsOk(p, w, c)'  BY <1>5, <1>17 DEF HoldsOk
    <2>3. ChainOk(w, c, n)'  BY <1>1, <1>2, <1>5 DEF ChainOk, ProcOk
    <2> QED  BY <2>1, <2>2, <2>3
<1>19. StoreStepOf(p, w, c, n)
    BY <1>1, <1>5, <1>6, <1>7, <1>8, <1>14, <1>18 DEF StoreStepOf, OthersAlone, ProcOk, StoreInv
<1> QED  BY <1>19, StepKeepsStore

\* A process that gives the attempt up, and its lock with it.
LEMMA LeavesKeepsStore ==
    ASSUME StoreInv, NEW p \in StoreProcesses, UNCHANGED <<storeDisk, storeJournal, lost>>,
           storeProc' = [storeProc EXCEPT ![p] = NoProc],
           cap' = [cap EXCEPT ![p] = NoCaps], made' = [made EXCEPT ![p] = NoneMade],
           flock' = IF Holds(p) THEN StoreNobody ELSE flock
    PROVE  StoreInv'
<1>1. AttemptStands /\ AttemptStands'
    BY DEF StoreInv, AttemptStands, Holds
<1>2. ProcOk(p, NoProc, NoCaps, NoneMade)'
    BY StartsOverAfter
<1>3. OthersAlone(p)
    BY DEF OthersAlone, Holds
<1>4. StoreStepOf(p, NoProc, NoCaps, NoneMade)
    BY <1>1, <1>2, <1>3, ProcFields DEF StoreStepOf
<1> QED  BY <1>4, StepKeepsStore

LEMMA FailsKeepsStore == ASSUME StoreInv, NEW p \in StoreProcesses, PrepareFails(p) PROVE StoreInv'
<1>1. PICK m, c, n : /\ storeProc[p] = m /\ cap[p] = c /\ made[p] = n /\ ProcOk(p, m, c, n)
                     /\ m \in ProcRecs /\ AttemptStands
    BY ProcIs
<1>2. /\ c = NoCaps /\ n \in [StoreStages -> Nat]
      /\ \A cs \in StoreStages : n[cs] = IF c[cs].state = "consumed" THEN 1 ELSE 0
    BY <1>1 DEF PrepareFails, ProcOk, ChainOk
<1>3. n = NoneMade
    BY <1>2 DEF NoCaps, NoCap, NoneMade
<1>4. cap' = [cap EXCEPT ![p] = NoCaps] /\ made' = [made EXCEPT ![p] = NoneMade]
    BY <1>1, <1>2, <1>3 DEF PrepareFails, StoreInv
<1> QED  BY <1>4, LeavesKeepsStore DEF PrepareFails

LEMMA CloseKeepsStore == ASSUME StoreInv, NEW p \in StoreProcesses, StoreClose(p) PROVE StoreInv'
BY LeavesKeepsStore DEF StoreClose

LEMMA CrashKeepsStore == ASSUME StoreInv, NEW p \in StoreProcesses, StoreCrash(p) PROVE StoreInv'
<1>1. /\ storeProc' = [storeProc EXCEPT ![p] = NoProc]
      /\ cap' = [cap EXCEPT ![p] = NoCaps] /\ made' = [made EXCEPT ![p] = NoneMade]
    BY DEF StoreCrash, Gone, StoreInv
<1> QED  BY <1>1, LeavesKeepsStore DEF StoreCrash, Gone, Holds
\* The prepared attempt is admitted: everything of it is durable.
LEMMA AdmitKeepsStore == ASSUME StoreInv, NEW p \in StoreProcesses, StoreAdmit(p) PROVE StoreInv'
<1>1. PICK m, c, n : /\ storeProc[p] = m /\ cap[p] = c /\ made[p] = n /\ ProcOk(p, m, c, n)
                     /\ m \in ProcRecs /\ AttemptStands
    BY ProcIs
<1>2. m.pc = "preparing" /\ m.step = 9
    BY <1>1 DEF StoreAdmit
<1>3. storeJournal.records = 0 /\ LaidTo(9) /\ flock = p /\ c = NoCaps
    BY <1>1, <1>2 DEF ProcOk, PreparesOk, ChainOk
<1>4. storeJournal.terminal = FALSE
    BY <1>1, <1>3 DEF AttemptStands
<1> PICK w : w = [NoProc EXCEPT !.pc = "writing"]
    OBVIOUS
<1>5. w \in ProcRecs /\ w.pc = "writing" /\ w.replayed = FALSE
    <2> PICK pc \in StorePcs : pc = "writing"
        BY DEF StorePcs
    <2> PICK z \in ProcRecs : z = NoProc
        BY ProcFields
    <2>1. w = [z EXCEPT !.pc = pc]
        OBVIOUS
    <2>2. w \in ProcRecs /\ w.pc = pc /\ w.replayed = z.replayed
        BY <2>1 DEF ProcRecs
    <2> QED  BY <2>2, ProcFields
<1> PICK one \in 0..StoreMaxRecords : one = 1
    BY StoreAssumption
<1>6. storeJournal' = [storeJournal EXCEPT !.records = one]
    BY DEF StoreAdmit
<1>7. storeJournal' \in [records : 0..StoreMaxRecords, terminal : BOOLEAN] /\ storeJournal'.records = 1
    BY <1>1, <1>6 DEF AttemptStands
<1>8. \A e \in Entries : storeDisk[e] = "durable"
    BY <1>3 DEF LaidTo, Entries
<1>9. AttemptStands'
    BY <1>1, <1>7, <1>8 DEF AttemptStands, StoreAdmit
<1>10. c["admission"].state = "none" /\ c["assembly"].state = "none"
    BY <1>3 DEF NoCaps, NoCap, StoreStages
<1>11. ProcOk(p, w, c, n)'
    <2>1. PreparesOk(p, w)'  BY <1>5 DEF PreparesOk
    <2>2. HoldsOk(p, w, c)'  BY <1>3, <1>5, <1>7, <1>10 DEF HoldsOk, StoreAdmit
    <2>3. ChainOk(w, c, n)'
        BY <1>1, <1>2, <1>5, <1>10 DEF ChainOk, ProcOk
    <2> QED  BY <1>1, <1>5, <2>1, <2>2, <2>3 DEF ProcOk
<1>12. ASSUME NEW q \in StoreProcesses \ {p} PROVE storeProc[q].pc # "preparing"
    BY <1>1, <1>2 DEF StoreInv, OnePrepares
<1>13. OthersAlone(p)
    BY <1>3, <1>7, <1>12 DEF OthersAlone, StoreAdmit
<1>14. /\ storeProc' = [storeProc EXCEPT ![p] = w]
       /\ cap' = [cap EXCEPT ![p] = c] /\ made' = [made EXCEPT ![p] = n]
    BY <1>1 DEF StoreAdmit, StoreInv
<1> QED  BY <1>5, <1>9, <1>11, <1>13, <1>14, StepKeepsStore DEF StoreStepOf

LEMMA AppendKeepsStore == ASSUME StoreInv, NEW p \in StoreProcesses, StoreAppend(p) PROVE StoreInv'
<1>1. PICK m, c, n : /\ storeProc[p] = m /\ cap[p] = c /\ made[p] = n /\ ProcOk(p, m, c, n)
                     /\ m \in ProcRecs /\ AttemptStands
    BY ProcIs
<1>2. m.pc = "writing" /\ flock = p /\ storeJournal.records > 0
    BY <1>1 DEF StoreAppend, Writing, ProcOk, HoldsOk
<1>3. PICK last \in BOOLEAN : storeJournal' = [storeJournal EXCEPT !.records = @ + 1, !.terminal = last]
    BY DEF StoreAppend
<1> PICK r \in 1..StoreMaxRecords : r = storeJournal.records + 1
    BY <1>1, StoreAssumption DEF StoreAppend, AttemptStands
<1>4. storeJournal' \in [records : 0..StoreMaxRecords, terminal : BOOLEAN] /\ storeJournal'.records = r
    <2> PICK j \in [records : 0..StoreMaxRecords, terminal : BOOLEAN] : j = storeJournal
        BY <1>1 DEF AttemptStands
    <2>1. storeJournal' = [j EXCEPT !.records = r, !.terminal = last]
        BY <1>3
    <2>2. storeJournal' = [records |-> r, terminal |-> last]
        BY <2>1
    <2> QED  BY <2>2
<1>5. AttemptStands'
    BY <1>1, <1>2, <1>4 DEF AttemptStands, StoreAppend
<1>6. ProcOk(p, m, c, n)'
    <2>1. PreparesOk(p, m)'  BY <1>2 DEF PreparesOk
    <2>2. HoldsOk(p, m, c)'  BY <1>1, <1>2, <1>4 DEF HoldsOk, StoreAppend, ProcOk
    <2> QED  BY <1>1, <2>1, <2>2 DEF ProcOk, ChainOk
<1>7. ASSUME NEW q \in StoreProcesses PROVE storeProc[q].pc # "preparing"
    <2>1. PICK mm, cc, nn : storeProc[q] = mm /\ ProcOk(q, mm, cc, nn)
        BY ProcIs
    <2> QED  BY <1>2, <2>1 DEF ProcOk, PreparesOk
<1>8. OthersAlone(p)
    BY <1>2, <1>4, <1>7 DEF OthersAlone, StoreAppend
<1>9. /\ storeProc' = [storeProc EXCEPT ![p] = m]
      /\ cap' = [cap EXCEPT ![p] = c] /\ made' = [made EXCEPT ![p] = n]
    BY <1>1 DEF StoreAppend, StoreInv
<1> QED  BY <1>2, <1>5, <1>6, <1>8, <1>9, StepKeepsStore DEF StoreStepOf

\* A recovery begins: it takes the lock and keeps what it found.
LEMMA VerifyKeepsStore == ASSUME StoreInv, NEW p \in StoreProcesses, Verify(p) PROVE StoreInv'
<1>1. PICK m, c, n : /\ storeProc[p] = m /\ cap[p] = c /\ made[p] = n /\ ProcOk(p, m, c, n)
                     /\ m \in ProcRecs /\ AttemptStands
    BY ProcIs
<1>2. flock = StoreNobody /\ flock' = p /\ storeJournal.records > 0
    BY DEF Verify, LockAttempt
<1> PICK w : w = [NoProc EXCEPT !.pc = "verified", !.count = storeJournal.records,
                                !.terminal = storeJournal.terminal]
    OBVIOUS
<1>3. /\ w \in ProcRecs /\ w.pc = "verified" /\ w.count = storeJournal.records
      /\ w.terminal = storeJournal.terminal /\ w.replayed = FALSE
    <2> PICK pc \in StorePcs : pc = "verified"
        BY DEF StorePcs
    <2> PICK z \in ProcRecs : z = NoProc
        BY ProcFields
    <2> PICK r \in Nat : r = storeJournal.records
        BY <1>1 DEF AttemptStands
    <2> PICK t \in BOOLEAN : t = storeJournal.terminal
        BY <1>1 DEF AttemptStands
    <2>1. w = [z EXCEPT !.pc = pc, !.count = r, !.terminal = t]
        OBVIOUS
    <2>2. /\ w \in ProcRecs /\ w.pc = pc /\ w.count = r /\ w.terminal = t
          /\ w.replayed = z.replayed
        BY <2>1 DEF ProcRecs
    <2> QED  BY <2>2, ProcFields
<1> PICK d : d = [NoCaps EXCEPT !["classification"].state = "available"]
    OBVIOUS
<1>4. /\ d \in [StoreStages -> CapRecs] /\ d["classification"].state = "available"
      /\ d["admission"].state = "none" /\ d["assembly"].state = "none"
    BY DEF NoCaps, NoCap, CapRecs, CapStates, StoreStages
<1>5. \A cs \in StoreStages : d[cs].state # "consumed" /\ d[cs].state # "consuming" /\ NoneMade[cs] = 0
    BY <1>4 DEF StoreStages, NoneMade
<1>6. NoneMade \in [StoreStages -> Nat]
    BY DEF NoneMade
<1>7. AttemptStands'
    BY <1>1, <1>2 DEF AttemptStands, Verify
<1>8. ProcOk(p, w, d, NoneMade)'
    <2>1. PreparesOk(p, w)'  BY <1>3 DEF PreparesOk
    <2>2. HoldsOk(p, w, d)'  BY <1>2, <1>3, <1>4 DEF HoldsOk, Verify
    <2>3. ChainOk(w, d, NoneMade)'
        BY <1>3, <1>4, <1>5 DEF ChainOk
    <2> QED  BY <1>3, <1>4, <1>6, <2>1, <2>2, <2>3 DEF ProcOk
<1>9. OthersAlone(p)
    BY <1>2 DEF OthersAlone, Verify
<1>10. /\ storeProc' = [storeProc EXCEPT ![p] = w]
       /\ cap' = [cap EXCEPT ![p] = d] /\ made' = [made EXCEPT ![p] = NoneMade]
    BY DEF Verify
<1> QED  BY <1>3, <1>7, <1>8, <1>9, <1>10, StepKeepsStore DEF StoreStepOf

LEMMA DamagedKeepsStore ==
    ASSUME StoreInv, NEW p \in StoreProcesses, VerifyDamaged(p) PROVE StoreInv'
<1>1. AttemptStands'
    BY DEF VerifyDamaged, StoreInv, AttemptStands, Complete, Exists
<1>2. PICK m, c, n : /\ storeProc[p] = m /\ cap[p] = c /\ made[p] = n /\ ProcOk(p, m, c, n)
                     /\ m \in ProcRecs /\ AttemptStands
    BY ProcIs
<1>3. ProcOk(p, m, c, n)'
    BY <1>2 DEF ProcOk, PreparesOk, HoldsOk, ChainOk, LaidTo, Exists, VerifyDamaged
<1>4. OthersAlone(p)
    BY DEF OthersAlone, VerifyDamaged
<1>5. /\ storeProc' = [storeProc EXCEPT ![p] = m]
      /\ cap' = [cap EXCEPT ![p] = c] /\ made' = [made EXCEPT ![p] = n]
    BY <1>2 DEF VerifyDamaged, StoreInv
<1>6. m.pc = "idle"
    BY <1>2 DEF VerifyDamaged
<1> QED  BY <1>1, <1>3, <1>4, <1>5, <1>6, StepKeepsStore DEF StoreStepOf
\* A step that only moves capabilities of p, and what was made of them.
LEMMA CapsKeepStore ==
    ASSUME StoreInv, NEW p \in StoreProcesses, NEW m, NEW c, NEW n, NEW d, NEW k,
           storeProc[p] = m, cap[p] = c, made[p] = n, ProcOk(p, m, c, n),
           cap' = [cap EXCEPT ![p] = d], made' = [made EXCEPT ![p] = k],
           UNCHANGED <<storeDisk, flock, storeJournal, storeProc, lost>>,
           d \in [StoreStages -> CapRecs], k \in [StoreStages -> Nat], ChainOk(m, d, k),
           d["classification"].state = "consumed" \/ c["classification"].state # "consumed",
           d["admission"].state # "none" => flock = p /\ ~m.terminal
    PROVE  StoreInv'
<1>1. AttemptStands'
    BY DEF StoreInv, AttemptStands
<1>2. ProcOk(p, m, d, k)'
    <2>1. PreparesOk(p, m)'  BY DEF PreparesOk, LaidTo, Exists, ProcOk
    <2>2. HoldsOk(p, m, d)'  BY DEF HoldsOk, ProcOk
    <2> QED  BY <2>1, <2>2 DEF ProcOk, ChainOk
<1>3. OthersAlone(p)
    BY DEF OthersAlone
<1>4. storeProc' = [storeProc EXCEPT ![p] = m]
    BY DEF StoreInv
<1>5. m.pc = "preparing" => \A q \in StoreProcesses \ {p} : storeProc[q].pc # "preparing"
    BY DEF StoreInv, OnePrepares
<1> QED  BY <1>1, <1>2, <1>3, <1>4, <1>5, StepKeepsStore DEF StoreStepOf

\* A capability that is written.
CapSet(c, cs, st, t, d) ==
    /\ c \in [StoreStages -> CapRecs] /\ cs \in StoreStages /\ st \in CapStates
    /\ t \in Threads \cup {StoreNobody} /\ d = [c EXCEPT ![cs] = [state |-> st, token |-> t]]
LEMMA CapIs ==
    ASSUME NEW c, NEW cs, NEW st, NEW t, NEW d, CapSet(c, cs, st, t, d)
    PROVE  /\ d \in [StoreStages -> CapRecs] /\ d[cs].state = st
           /\ \A r \in StoreStages : r # cs => d[r] = c[r]
BY DEF CapRecs, CapSet

LEMMA StagesAre ==
    /\ "classification" \in StoreStages /\ "admission" \in StoreStages /\ "assembly" \in StoreStages
    /\ \A cs \in StoreStages : cs = "classification" \/ cs = "admission" \/ cs = "assembly"
BY DEF StoreStages

\* A capability is taken, once it is available.
LEMMA TakeKeepsStore ==
    ASSUME StoreInv, NEW p \in StoreProcesses, NEW cs \in StoreStages, NEW t \in Threads,
           StoreTake(p, cs, t)
    PROVE  StoreInv'
<1>1. PICK m, c, n : /\ storeProc[p] = m /\ cap[p] = c /\ made[p] = n /\ ProcOk(p, m, c, n)
                     /\ m \in ProcRecs /\ AttemptStands
    BY ProcIs
<1> PICK st \in CapStates : st = "consuming"
    BY DEF CapStates
<1>d. PICK d : d = [c EXCEPT ![cs] = [state |-> st, token |-> t]]
    OBVIOUS
<1>2. /\ c \in [StoreStages -> CapRecs] /\ n \in [StoreStages -> Nat] /\ ChainOk(m, c, n)
      /\ c[cs].state = "available"
    BY <1>1 DEF ProcOk, StoreTake, ReserveUse
<1>3. /\ d \in [StoreStages -> CapRecs] /\ d[cs].state = "consuming"
      /\ \A r \in StoreStages : r # cs => d[r] = c[r]
    <2>1. CapSet(c, cs, st, t, d)
        BY <1>d, <1>2 DEF CapSet
    <2> QED  BY <2>1, CapIs
<1>4. cap' = [cap EXCEPT ![p] = d] /\ made' = [made EXCEPT ![p] = n]
    BY <1>1, <1>d DEF StoreTake, ReserveUse, StoreInv
<1>5. m.pc = "verified"  BY <1>2 DEF ChainOk
<1>6. /\ d["classification"].state = "consumed" <=> c["classification"].state = "consumed"
      /\ d["admission"].state = "none" <=> c["admission"].state = "none"
      /\ d["admission"].state = "consumed" <=> c["admission"].state = "consumed"
      /\ d["assembly"].state = "none" <=> c["assembly"].state = "none"
    BY <1>2, <1>3, StagesAre
<1>7. m.replayed => d["assembly"].state \in {"consuming", "consumed", "failed"}
    BY <1>2, <1>3, StagesAre DEF ChainOk
<1>8. \A r \in StoreStages : n[r] = IF d[r].state = "consumed" THEN 1 ELSE 0
    BY <1>2, <1>3 DEF ChainOk
<1>9. ChainOk(m, d, n)
    BY <1>2, <1>5, <1>6, <1>7, <1>8 DEF ChainOk
<1>10. HoldsOk(p, m, c)
    BY <1>1 DEF ProcOk
<1> QED
    BY <1>1, <1>2, <1>3, <1>4, <1>6, <1>9, <1>10, CapsKeepStore DEF StoreTake, HoldsOk

LEMMA UseFailsKeepsStore ==
    ASSUME StoreInv, NEW p \in StoreProcesses, NEW cs \in StoreStages, NEW t \in Threads,
           UseFails(p, cs, t)
    PROVE  StoreInv'
<1>1. PICK m, c, n : /\ storeProc[p] = m /\ cap[p] = c /\ made[p] = n /\ ProcOk(p, m, c, n)
                     /\ m \in ProcRecs /\ AttemptStands
    BY ProcIs
<1> PICK st \in {"available", "failed"} :
        /\ cap' = [cap EXCEPT ![p][cs] = [state |-> st, token |-> StoreNobody]]
        /\ st = "available" => Retryable(p, cs)
    BY DEF UseFails, StoreEnds
<1>d. PICK d : d = [c EXCEPT ![cs] = [state |-> st, token |-> StoreNobody]]
    OBVIOUS
<1>2. /\ c \in [StoreStages -> CapRecs] /\ n \in [StoreStages -> Nat] /\ ChainOk(m, c, n)
      /\ c[cs].state = "consuming"
    BY <1>1 DEF ProcOk, UseFails, Uses
<1>3. /\ d \in [StoreStages -> CapRecs] /\ d[cs].state = st
      /\ \A r \in StoreStages : r # cs => d[r] = c[r]
    <2>1. st \in CapStates  BY DEF CapStates
    <2> PICK tok \in Threads \cup {StoreNobody} : tok = StoreNobody
        OBVIOUS
    <2>2. CapSet(c, cs, st, tok, d)
        BY <1>d, <1>2, <2>1 DEF CapSet
    <2> QED  BY <2>2, CapIs
<1>4. cap' = [cap EXCEPT ![p] = d] /\ made' = [made EXCEPT ![p] = n]
    BY <1>1, <1>d DEF UseFails, StoreInv
<1>5. m.pc = "verified"  BY <1>2 DEF ChainOk
<1>6. /\ d["classification"].state = "consumed" <=> c["classification"].state = "consumed"
      /\ d["admission"].state = "none" <=> c["admission"].state = "none"
      /\ d["admission"].state = "consumed" <=> c["admission"].state = "consumed"
      /\ d["assembly"].state = "none" <=> c["assembly"].state = "none"
    BY <1>2, <1>3, StagesAre
<1>7. m.replayed => d["assembly"].state \in {"consuming", "consumed", "failed"}
    BY <1>1, <1>2, <1>3, StagesAre DEF ChainOk, Retryable
<1>8. \A r \in StoreStages : n[r] = IF d[r].state = "consumed" THEN 1 ELSE 0
    BY <1>2, <1>3 DEF ChainOk
<1>9. ChainOk(m, d, n)
    BY <1>2, <1>5, <1>6, <1>7, <1>8 DEF ChainOk
<1>10. HoldsOk(p, m, c)
    BY <1>1 DEF ProcOk
<1> QED
    BY <1>1, <1>2, <1>3, <1>4, <1>6, <1>9, <1>10, CapsKeepStore DEF UseFails, HoldsOk
\* A use that succeeds consumes its capability and may issue the next one.
CapsSet(c, cs, st, r, su, d) ==
    /\ c \in [StoreStages -> CapRecs] /\ cs \in StoreStages /\ r \in StoreStages /\ r # cs
    /\ st \in CapStates /\ su \in CapStates
    /\ d = [c EXCEPT ![cs] = [state |-> st, token |-> StoreNobody],
                     ![r] = [state |-> su, token |-> StoreNobody]]
LEMMA CapsAre ==
    ASSUME NEW c, NEW cs, NEW r, NEW st, NEW su, NEW d, CapsSet(c, cs, st, r, su, d)
    PROVE  /\ d \in [StoreStages -> CapRecs] /\ d[cs].state = st /\ d[r].state = su
           /\ \A q \in StoreStages : q # cs /\ q # r => d[q] = c[q]
<1> PICK tok \in Threads \cup {StoreNobody} : tok = StoreNobody
    OBVIOUS
<1>e. PICK e : e = [c EXCEPT ![cs] = [state |-> st, token |-> tok]]
    OBVIOUS
<1>1. CapSet(c, cs, st, tok, e) /\ cs \in StoreStages /\ r \in StoreStages /\ r # cs
    BY <1>e DEF CapsSet, CapSet
<1>2. /\ e \in [StoreStages -> CapRecs] /\ e[cs].state = st
      /\ \A q \in StoreStages : q # cs => e[q] = c[q]
    BY <1>1, CapIs
<1>3. CapSet(e, r, su, tok, d)
    BY <1>2, <1>e DEF CapsSet, CapSet
<1>4. /\ d \in [StoreStages -> CapRecs] /\ d[r].state = su
      /\ \A q \in StoreStages : q # r => d[q] = e[q]
    BY <1>3, CapIs
<1> QED  BY <1>1, <1>2, <1>4

\* recover_incomplete_attempt and admit_recovered_run.
LEMMA RecoverKeepsStore ==
    ASSUME StoreInv, NEW p \in StoreProcesses, NEW t \in Threads, RecoverIncomplete(p, t)
    PROVE  StoreInv'
<1>1. PICK m, c, n : /\ storeProc[p] = m /\ cap[p] = c /\ made[p] = n /\ ProcOk(p, m, c, n)
                     /\ m \in ProcRecs /\ AttemptStands
    BY ProcIs
<1>c. PICK cs \in StoreStages, r \in StoreStages : cs = "classification" /\ r = "admission"
    BY StagesAre
<1>t. PICK st \in CapStates, su \in CapStates : st = "consumed" /\ su = "available"
    BY DEF CapStates
<1>d. PICK d : d = [c EXCEPT ![cs] = [state |-> st, token |-> StoreNobody],
                           ![r] = [state |-> su, token |-> StoreNobody]]
    OBVIOUS
<1>k. PICK k : k = [n EXCEPT ![cs] = @ + 1]
    OBVIOUS
<1>2. /\ c \in [StoreStages -> CapRecs] /\ n \in [StoreStages -> Nat] /\ ChainOk(m, c, n)
      /\ c[cs].state = "consuming" /\ ~m.terminal
    BY <1>c, <1>1 DEF ProcOk, RecoverIncomplete, Uses
<1>3. /\ d \in [StoreStages -> CapRecs] /\ d[cs].state = "consumed" /\ d[r].state = "available"
      /\ \A q \in StoreStages : q # cs /\ q # r => d[q] = c[q]
    <2>1. CapsSet(c, cs, st, r, su, d)
        BY <1>c, <1>t, <1>d, <1>2 DEF CapsSet
    <2>2. /\ d \in [StoreStages -> CapRecs] /\ d[cs].state = st /\ d[r].state = su
          /\ \A q \in StoreStages : q # cs /\ q # r => d[q] = c[q]
        BY <2>1, CapsAre
    <2> QED  BY <1>t, <2>2
<1>4. cap' = [cap EXCEPT ![p] = d] /\ made' = [made EXCEPT ![p] = k]
    BY <1>c, <1>t, <1>1, <1>d, <1>k DEF RecoverIncomplete, StoreInv
<1>5. /\ m.pc = "verified" /\ c[r].state = "none" /\ c["assembly"].state = "none"
      /\ flock = p /\ ~m.replayed
    BY <1>c, <1>1, <1>2 DEF ChainOk, ProcOk, HoldsOk
<1>6. n[cs] = 0 /\ k \in [StoreStages -> Nat] /\ k[cs] = 1
      /\ \A q \in StoreStages : q # cs => k[q] = n[q]
    BY <1>c, <1>2, <1>k DEF ChainOk
<1>7. d["assembly"].state = "none"
    BY <1>c, <1>3, <1>5, StagesAre
<1>8. \A q \in StoreStages : k[q] = IF d[q].state = "consumed" THEN 1 ELSE 0
    BY <1>c, <1>2, <1>3, <1>5, <1>6 DEF ChainOk
<1>9. ChainOk(m, d, k)
    BY <1>c, <1>3, <1>5, <1>7, <1>8 DEF ChainOk
<1> QED
    BY <1>c, <1>1, <1>2, <1>3, <1>4, <1>5, <1>6, <1>9, CapsKeepStore DEF RecoverIncomplete

LEMMA RecoveredKeepsStore ==
    ASSUME StoreInv, NEW p \in StoreProcesses, NEW t \in Threads, AdmitRecovered(p, t)
    PROVE  StoreInv'
<1>1. PICK m, c, n : /\ storeProc[p] = m /\ cap[p] = c /\ made[p] = n /\ ProcOk(p, m, c, n)
                     /\ m \in ProcRecs /\ AttemptStands
    BY ProcIs
<1>c. PICK cs \in StoreStages, r \in StoreStages : cs = "admission" /\ r = "assembly"
    BY StagesAre
<1>t. PICK st \in CapStates, su \in CapStates : st = "consumed" /\ su = "available"
    BY DEF CapStates
<1>d. PICK d : d = [c EXCEPT ![cs] = [state |-> st, token |-> StoreNobody],
                           ![r] = [state |-> su, token |-> StoreNobody]]
    OBVIOUS
<1>k. PICK k : k = [n EXCEPT ![cs] = @ + 1]
    OBVIOUS
<1>2. /\ c \in [StoreStages -> CapRecs] /\ n \in [StoreStages -> Nat] /\ ChainOk(m, c, n)
      /\ c[cs].state = "consuming"
    BY <1>c, <1>1 DEF ProcOk, AdmitRecovered, Uses
<1>3. /\ d \in [StoreStages -> CapRecs] /\ d[cs].state = "consumed" /\ d[r].state = "available"
      /\ \A q \in StoreStages : q # cs /\ q # r => d[q] = c[q]
    <2>1. CapsSet(c, cs, st, r, su, d)
        BY <1>c, <1>t, <1>d, <1>2 DEF CapsSet
    <2>2. /\ d \in [StoreStages -> CapRecs] /\ d[cs].state = st /\ d[r].state = su
          /\ \A q \in StoreStages : q # cs /\ q # r => d[q] = c[q]
        BY <2>1, CapsAre
    <2> QED  BY <1>t, <2>2
<1>4. cap' = [cap EXCEPT ![p] = d] /\ made' = [made EXCEPT ![p] = k]
    BY <1>c, <1>t, <1>1, <1>d, <1>k DEF AdmitRecovered, StoreInv
<1>5. /\ m.pc = "verified" /\ c[r].state = "none" /\ c["classification"].state = "consumed"
      /\ flock = p /\ ~m.replayed /\ ~m.terminal
    BY <1>c, <1>1, <1>2 DEF ChainOk, ProcOk, HoldsOk
<1>6. n[cs] = 0 /\ k \in [StoreStages -> Nat] /\ k[cs] = 1
      /\ \A q \in StoreStages : q # cs => k[q] = n[q]
    BY <1>c, <1>2, <1>k DEF ChainOk
<1>7. d["classification"].state = "consumed"
    BY <1>c, <1>3, <1>5, StagesAre
<1>8. \A q \in StoreStages : k[q] = IF d[q].state = "consumed" THEN 1 ELSE 0
    BY <1>c, <1>2, <1>3, <1>5, <1>6 DEF ChainOk
<1>9. ChainOk(m, d, k)
    BY <1>c, <1>3, <1>5, <1>7, <1>8 DEF ChainOk
<1> QED
    BY <1>c, <1>1, <1>2, <1>3, <1>4, <1>5, <1>6, <1>7, <1>9, CapsKeepStore DEF AdmitRecovered

\* recover_terminal_attempt gives the lock back.
LEMMA TerminalKeepsStore ==
    ASSUME StoreInv, NEW p \in StoreProcesses, NEW t \in Threads, RecoverTerminal(p, t)
    PROVE  StoreInv'
<1>1. PICK m, c, n : /\ storeProc[p] = m /\ cap[p] = c /\ made[p] = n /\ ProcOk(p, m, c, n)
                     /\ m \in ProcRecs /\ AttemptStands
    BY ProcIs
<1> PICK cs \in StoreStages : cs = "classification"
    BY StagesAre
<1> PICK st \in CapStates : st = "consumed"
    BY DEF CapStates
<1> PICK tok \in Threads \cup {StoreNobody} : tok = StoreNobody
    OBVIOUS
<1>d. PICK d : d = [c EXCEPT ![cs] = [state |-> st, token |-> tok]]
    OBVIOUS
<1>k. PICK k : k = [n EXCEPT ![cs] = @ + 1]
    OBVIOUS
<1>2. /\ c \in [StoreStages -> CapRecs] /\ n \in [StoreStages -> Nat] /\ ChainOk(m, c, n)
      /\ c[cs].state = "consuming"
    BY <1>1 DEF ProcOk, RecoverTerminal, Uses
<1>3. /\ d \in [StoreStages -> CapRecs] /\ d[cs].state = st
      /\ \A q \in StoreStages : q # cs => d[q] = c[q]
    <2>1. CapSet(c, cs, st, tok, d)
        BY <1>d, <1>2 DEF CapSet
    <2> QED  BY <2>1, CapIs
<1>4. cap' = [cap EXCEPT ![p] = d] /\ made' = [made EXCEPT ![p] = k]
    BY <1>1, <1>d, <1>k DEF RecoverTerminal, StoreEnds, StoreInv
<1>5. /\ m.pc = "verified" /\ c["admission"].state = "none" /\ c["assembly"].state = "none"
      /\ flock = p /\ ~m.replayed /\ storeJournal.records > 0
    BY <1>1, <1>2 DEF ChainOk, ProcOk, HoldsOk
<1>6. n[cs] = 0 /\ k \in [StoreStages -> Nat] /\ k[cs] = 1
      /\ \A q \in StoreStages : q # cs => k[q] = n[q]
    BY <1>2, <1>k DEF ChainOk
<1>7. d["admission"].state = "none" /\ d["assembly"].state = "none"
    BY <1>3, <1>5, StagesAre
<1>8. \A q \in StoreStages : k[q] = IF d[q].state = "consumed" THEN 1 ELSE 0
    BY <1>2, <1>3, <1>5, <1>6 DEF ChainOk
<1>9. ChainOk(m, d, k)'
    BY <1>3, <1>5, <1>7, <1>8 DEF ChainOk
<1>10. flock' = StoreNobody /\ UNCHANGED <<storeDisk, storeJournal, storeProc, lost>>
    BY <1>5 DEF RecoverTerminal, Holds
<1>11. PreparesOk(p, m)' /\ HoldsOk(p, m, d)'
    BY <1>3, <1>5, <1>7, <1>10, StoreAssumption DEF PreparesOk, HoldsOk
<1>12. AttemptStands' /\ OthersAlone(p)
    BY <1>1, <1>5, <1>10 DEF AttemptStands, OthersAlone
<1>13. storeProc' = [storeProc EXCEPT ![p] = m]
    BY <1>1, <1>10 DEF StoreInv
<1>14. ProcOk(p, m, d, k)'
    BY <1>1, <1>3, <1>6, <1>9, <1>11 DEF ProcOk
<1> QED
    BY <1>4, <1>5, <1>12, <1>13, <1>14, StepKeepsStore DEF StoreStepOf
\* The lifecycle is rebuilt, and assembled: from then on the process writes.
LEMMA ReplayKeepsStore ==
    ASSUME StoreInv, NEW p \in StoreProcesses, NEW t \in Threads, StoreReplay(p, t)
    PROVE  StoreInv'
<1>1. PICK m, c, n : /\ storeProc[p] = m /\ cap[p] = c /\ made[p] = n /\ ProcOk(p, m, c, n)
                     /\ m \in ProcRecs /\ AttemptStands
    BY ProcIs
<1> PICK yes \in BOOLEAN : yes = TRUE
    OBVIOUS
<1>w. PICK w : w = [m EXCEPT !.replayed = yes]
    OBVIOUS
<1>2. /\ w \in ProcRecs /\ w.pc = m.pc /\ w.count = m.count /\ w.terminal = m.terminal
      /\ w.step = m.step /\ w.replayed
    BY <1>1, <1>w DEF ProcRecs
<1>3. c["assembly"].state = "consuming" /\ m.pc = "verified"
    BY <1>1, StagesAre DEF StoreReplay, Uses, ProcOk, ChainOk
<1>4. AttemptStands' /\ OthersAlone(p)
    BY <1>1 DEF StoreReplay, AttemptStands, OthersAlone
<1>5. PreparesOk(p, w)'  BY <1>2, <1>3 DEF PreparesOk
<1>6. HoldsOk(p, w, c)'
    BY <1>1, <1>2, <1>3 DEF HoldsOk, ProcOk, StoreReplay
<1>7. ChainOk(w, c, n)'
    BY <1>1, <1>2, <1>3 DEF ChainOk, ProcOk
<1>8. ProcOk(p, w, c, n)'
    BY <1>1, <1>2, <1>5, <1>6, <1>7 DEF ProcOk
<1>9. /\ storeProc' = [storeProc EXCEPT ![p] = w]
      /\ cap' = [cap EXCEPT ![p] = c] /\ made' = [made EXCEPT ![p] = n]
    BY <1>1, <1>w DEF StoreReplay, StoreInv
<1> QED  BY <1>2, <1>3, <1>4, <1>8, <1>9, StepKeepsStore DEF StoreStepOf

LEMMA AssembleKeepsStore ==
    ASSUME StoreInv, NEW p \in StoreProcesses, NEW t \in Threads, Assemble(p, t)
    PROVE  StoreInv'
<1>1. PICK m, c, n : /\ storeProc[p] = m /\ cap[p] = c /\ made[p] = n /\ ProcOk(p, m, c, n)
                     /\ m \in ProcRecs /\ AttemptStands
    BY ProcIs
<1> PICK pc \in StorePcs : pc = "writing"
    BY DEF StorePcs
<1>w. PICK w : w = [m EXCEPT !.pc = pc]
    OBVIOUS
<1> PICK cs \in StoreStages : cs = "assembly"
    BY StagesAre
<1> PICK st \in CapStates : st = "consumed"
    BY DEF CapStates
<1> PICK tok \in Threads \cup {StoreNobody} : tok = StoreNobody
    OBVIOUS
<1>d. PICK d : d = [c EXCEPT ![cs] = [state |-> st, token |-> tok]]
    OBVIOUS
<1>k. PICK k : k = [n EXCEPT ![cs] = @ + 1]
    OBVIOUS
<1>2. /\ w \in ProcRecs /\ w.pc = "writing" /\ w.count = m.count /\ w.terminal = m.terminal
      /\ w.step = m.step /\ w.replayed = m.replayed
    BY <1>1, <1>w DEF ProcRecs
<1>3. /\ c \in [StoreStages -> CapRecs] /\ n \in [StoreStages -> Nat] /\ ChainOk(m, c, n)
      /\ c[cs].state = "consuming"
    BY <1>1 DEF ProcOk, Assemble, Uses
<1>4. /\ d \in [StoreStages -> CapRecs] /\ d[cs].state = st
      /\ \A q \in StoreStages : q # cs => d[q] = c[q]
    <2>1. CapSet(c, cs, st, tok, d)
        BY <1>d, <1>3 DEF CapSet
    <2> QED  BY <2>1, CapIs
<1>5. cap' = [cap EXCEPT ![p] = d] /\ made' = [made EXCEPT ![p] = k]
    BY <1>1, <1>d, <1>k DEF Assemble, StoreEnds, StoreInv
<1>6. /\ m.pc = "verified" /\ c["admission"].state = "consumed"
      /\ c["classification"].state = "consumed"
    BY <1>3 DEF ChainOk
<1>7. flock = p /\ ~m.terminal /\ storeJournal.records > 0
    BY <1>1, <1>6 DEF ProcOk, HoldsOk
<1>8. n[cs] = 0 /\ k \in [StoreStages -> Nat] /\ k[cs] = 1
      /\ \A q \in StoreStages : q # cs => k[q] = n[q]
    BY <1>3, <1>k DEF ChainOk
<1>9. d["admission"].state = "consumed" /\ d["classification"].state = "consumed"
    BY <1>4, <1>6, StagesAre
<1>10. \A q \in StoreStages : k[q] = IF d[q].state = "consumed" THEN 1 ELSE 0
    BY <1>3, <1>4, <1>8 DEF ChainOk
<1>11. \A q \in StoreStages : d[q].state = "consumed"
    BY <1>4, <1>9, StagesAre
<1>12. ChainOk(w, d, k)'
    BY <1>2, <1>9, <1>10, <1>11, StagesAre DEF ChainOk
<1>13. PreparesOk(p, w)'  BY <1>2 DEF PreparesOk
<1>14. HoldsOk(p, w, d)'
    BY <1>2, <1>7 DEF HoldsOk, Assemble
<1>15. AttemptStands' /\ OthersAlone(p)
    BY <1>1 DEF AttemptStands, OthersAlone, Assemble
<1>16. ProcOk(p, w, d, k)'
    BY <1>2, <1>4, <1>8, <1>12, <1>13, <1>14 DEF ProcOk
<1>17. storeProc' = [storeProc EXCEPT ![p] = w]
    BY <1>1, <1>w DEF Assemble, StoreInv
<1> QED  BY <1>2, <1>5, <1>15, <1>16, <1>17, StepKeepsStore DEF StoreStepOf

\* A loss of power ends every process, and takes nothing of an admitted attempt.
LEMMA PowerKeepsStore == ASSUME StoreInv, PowerLoss PROVE StoreInv'
<1>1. /\ storeProc' = [p \in StoreProcesses |-> NoProc]
      /\ cap' = [p \in StoreProcesses |-> NoCaps] /\ made' = [p \in StoreProcesses |-> NoneMade]
    BY DEF PowerLoss, Gone
<1>2. PICK gone \in SUBSET {e \in Entries : storeDisk[e] = "cached"} :
          storeDisk' = [e \in Entries |->
              IF e \in (gone \cup {f \in Entries : Parent[f] \in gone})
                       \cup {f \in Entries : Parent[f] \in gone \cup {g \in Entries : Parent[g] \in gone}}
              THEN "absent" ELSE storeDisk[e]]
    BY DEF PowerLoss
<1>3. storeDisk' \in [Entries -> {"absent", "cached", "durable"}]
    BY <1>2 DEF StoreInv, AttemptStands
<1>4. storeJournal.records > 0 => storeDisk' = storeDisk
    <2> SUFFICES ASSUME storeJournal.records > 0 PROVE storeDisk' = storeDisk
        OBVIOUS
    <2>1. gone = {}
        BY DEF StoreInv, AttemptStands
    <2> QED  BY <1>2, <2>1 DEF StoreInv, AttemptStands
<1>5. flock' \in StoreProcesses \cup {StoreNobody}
    BY DEF PowerLoss, Gone, StoreInv, AttemptStands
<1>6. AttemptStands'
    BY <1>3, <1>4, <1>5 DEF StoreInv, AttemptStands, PowerLoss
<1>7. \A p \in StoreProcesses : ProcOk(p, NoProc, NoCaps, NoneMade)'
    BY StartsOverAfter
<1> QED  BY <1>1, <1>6, <1>7, ProcFields DEF StoreInv, OnePrepares

LEMMA StoreInitOk == ASSUME StoreInit PROVE StoreInv
<1>1. AttemptStands
    BY StoreAssumption DEF StoreInit, AttemptStands
<1>2. \A p \in StoreProcesses : ProcOk(p, NoProc, NoCaps, NoneMade)
    BY StartsOver
<1> QED  BY <1>1, <1>2, ProcFields DEF StoreInit, StoreInv, OnePrepares

LEMMA NextKeepsStore == StoreInv /\ [StoreNext]_storeVars => StoreInv'
<1> SUFFICES ASSUME StoreInv, [StoreNext]_storeVars PROVE StoreInv'
    OBVIOUS
<1>1. CASE UNCHANGED storeVars
    <2>1. /\ AttemptStands' /\ OnePrepares' /\ storeProc' = storeProc /\ cap' = cap /\ made' = made
          /\ UNCHANGED <<storeDisk, flock, storeJournal>>
        BY <1>1 DEF StoreInv, storeVars, AttemptStands, OnePrepares
    <2>2. ASSUME NEW p \in StoreProcesses, NEW m, NEW c, NEW n, ProcOk(p, m, c, n)
          PROVE  ProcOk(p, m, c, n)'
        BY <2>1, <2>2 DEF ProcOk, PreparesOk, HoldsOk, ChainOk, LaidTo, Exists
    <2> QED  BY <2>1, <2>2 DEF StoreInv
<1>2. ASSUME NEW p \in StoreProcesses, NEW t \in Threads,
             \/ RecoverIncomplete(p, t) \/ RecoverTerminal(p, t) \/ AdmitRecovered(p, t)
             \/ StoreReplay(p, t) \/ Assemble(p, t)
             \/ \E cs \in StoreStages : StoreTake(p, cs, t) \/ UseFails(p, cs, t)
      PROVE  StoreInv'
    BY <1>2, RecoverKeepsStore, TerminalKeepsStore, RecoveredKeepsStore, ReplayKeepsStore,
       AssembleKeepsStore, TakeKeepsStore, UseFailsKeepsStore
<1> QED
    BY <1>1, <1>2, ReserveKeepsStore, PrepareKeepsStore, FailsKeepsStore, AdmitKeepsStore,
       AppendKeepsStore, CloseKeepsStore, VerifyKeepsStore, DamagedKeepsStore, CrashKeepsStore,
       PowerKeepsStore DEF StoreNext

LEMMA StoreInvIsSafe == ASSUME StoreInv PROVE ResultSafe
<1>1. ASSUME NEW p \in StoreProcesses
      PROVE  /\ storeProc[p].pc \in StorePcs /\ storeProc[p].step \in 0..9
             /\ \A cs \in StoreStages : cap[p][cs].state \in CapStates /\ made[p][cs] <= 1
             /\ Writing(p) => Holds(p)
             /\ storeProc[p].pc = "verified" /\ Holds(p)
                   => storeJournal.records = storeProc[p].count
    <2>1. PICK m, c, n : /\ storeProc[p] = m /\ cap[p] = c /\ made[p] = n /\ ProcOk(p, m, c, n)
                         /\ m \in ProcRecs /\ AttemptStands
        BY ProcIs
    <2>2. m.pc \in StorePcs /\ m.step \in 0..9
        BY <2>1 DEF ProcRecs
    <2>3. \A cs \in StoreStages : c[cs].state \in CapStates /\ n[cs] <= 1
        BY <2>1 DEF ProcOk, ChainOk, CapRecs
    <2>4. HoldsOk(p, m, c)
        BY <2>1 DEF ProcOk
    <2> QED  BY <2>1, <2>2, <2>3, <2>4 DEF Writing, Holds, HoldsOk
<1>2. AttemptStands  BY DEF StoreInv
<1>3. StoreTypeOK
    BY <1>1, <1>2 DEF StoreTypeOK, AttemptStands, StorePcs, CapStates
<1> QED
    BY <1>1, <1>2, <1>3
       DEF ResultSafe, OneWriter, CapabilityUsedOnce, PrefixIsExact, PreparedIsDurable, AttemptStands

\* However processes prepare, recover, crash and lose power: the holder of the lock alone
\* writes, each capability yields one product, what is assembled starts from the records
\* it was classified by, and an admitted attempt stays whole (experiments/store.py,
\* composition/run.py and lifecycle.py).
THEOREM ResultIsSafe == StoreSpec => []ResultSafe
<1>1. StoreInit => StoreInv
    BY StoreInitOk
<1>2. StoreInv => ResultSafe
    BY StoreInvIsSafe
<1> QED  BY <1>1, <1>2, NextKeepsStore, PTL DEF StoreSpec

\* A process starts to write only over a journal without a terminal record
\* (lifecycle.py, recover_phase1_historical_lifecycle).
THEOREM EndedStays == StoreSpec => EndedIsNotResumed
<1>1. ASSUME StoreInv, [StoreNext]_storeVars
      PROVE  [\A p \in StoreProcesses : Writing(p)' /\ ~Writing(p) => ~storeJournal.terminal]_storeVars
    <2> SUFFICES ASSUME StoreNext, NEW p \in StoreProcesses, Writing(p)', ~Writing(p)
                 PROVE  ~storeJournal.terminal
        BY <1>1
    <2>1. PICK m, c, n : /\ storeProc[p] = m /\ cap[p] = c /\ made[p] = n /\ ProcOk(p, m, c, n)
                         /\ m \in ProcRecs /\ AttemptStands
        BY <1>1, ProcIs
    <2>2. StoreAdmit(p) \/ \E t \in Threads : Assemble(p, t)
        <3>1. PICK d : d = storeProc'[p]
            OBVIOUS
        <3>2. d.pc = "writing" /\ m.pc # "writing"
            BY <2>1, <3>1 DEF Writing
        <3>3. storeProc = [q \in StoreProcesses |-> storeProc[q]] /\ NoProc.pc # "writing"
            BY <1>1, ProcFields DEF StoreInv
        <3>4. ASSUME NEW q \in StoreProcesses
              PROVE  ~(StoreAppend(q) \/ VerifyDamaged(q))
            BY <2>1, <3>1, <3>2 DEF StoreAppend, VerifyDamaged
        <3>5. ASSUME NEW q \in StoreProcesses, Reserve(q) PROVE FALSE
            BY <2>1, <3>1, <3>2, <3>3, <3>5 DEF Reserve, NoProc
        <3>6. ASSUME NEW q \in StoreProcesses, PrepareStep(q) PROVE FALSE
            BY <2>1, <3>1, <3>2, <3>3, <3>6 DEF PrepareStep, ProcRecs
        <3>7. ASSUME NEW q \in StoreProcesses, StoreAdmit(q), q # p PROVE FALSE
            BY <2>1, <3>1, <3>2, <3>3, <3>7 DEF StoreAdmit
        <3>8. ASSUME NEW q \in StoreProcesses PROVE ~(PrepareFails(q) \/ StoreClose(q))
            BY <2>1, <3>1, <3>2, <3>3 DEF PrepareFails, StoreClose
        <3>9. ASSUME NEW q \in StoreProcesses, Verify(q) PROVE FALSE
            BY <2>1, <3>1, <3>2, <3>3, <3>9 DEF Verify, NoProc
        <3>10. ASSUME NEW q \in StoreProcesses PROVE ~StoreCrash(q)
            BY <2>1, <3>1, <3>2, <3>3 DEF StoreCrash, Gone
        <3>11. ~PowerLoss
            BY <3>1, <3>2, <3>3 DEF PowerLoss, Gone
        <3>12. ASSUME NEW q \in StoreProcesses, NEW t \in Threads
               PROVE  ~(\/ RecoverIncomplete(q, t) \/ RecoverTerminal(q, t) \/ AdmitRecovered(q, t)
                        \/ \E cs \in StoreStages : StoreTake(q, cs, t) \/ UseFails(q, cs, t))
            BY <2>1, <3>1, <3>2 DEF RecoverIncomplete, RecoverTerminal, AdmitRecovered, StoreTake,
               UseFails
        <3>13. ASSUME NEW q \in StoreProcesses, NEW t \in Threads, StoreReplay(q, t) PROVE FALSE
            BY <2>1, <3>1, <3>2, <3>3, <3>13 DEF StoreReplay, ProcRecs
        <3>14. ASSUME NEW q \in StoreProcesses, NEW t \in Threads, Assemble(q, t), q # p
               PROVE  FALSE
            BY <2>1, <3>1, <3>2, <3>3, <3>14 DEF Assemble
        <3> QED
            BY <3>4, <3>5, <3>6, <3>7, <3>8, <3>9, <3>10, <3>11, <3>12, <3>13, <3>14, Zenon
               DEF StoreNext
    <2>3. CASE StoreAdmit(p)
        BY <2>1, <2>3 DEF StoreAdmit, ProcOk, PreparesOk, AttemptStands
    <2>4. ASSUME NEW t \in Threads, Assemble(p, t) PROVE ~storeJournal.terminal
        <3>1. c["assembly"].state = "consuming"
            BY <2>1, <2>4 DEF Assemble, Uses
        <3>2. /\ m.pc = "verified" /\ c["admission"].state = "consumed"
            BY <2>1, <3>1, StagesAre DEF ProcOk, ChainOk
        <3> QED  BY <2>1, <3>2 DEF ProcOk, HoldsOk
    <2> QED  BY <2>2, <2>3, <2>4
<1>2. StoreSpec => []StoreInv
    BY StoreInitOk, NextKeepsStore, PTL DEF StoreSpec
<1> QED  BY <1>1, <1>2, PTL DEF StoreSpec, EndedIsNotResumed

\* A replay that failed is not assembled again by the same classification
\* (lifecycle.py, AdmittedRecoveredRun._reserve_consumption).
THEOREM FailedReplayStays == StoreSpec => FailedReplayIsFinal
<1>1. ASSUME StoreInv, [StoreNext]_storeVars
      PROVE  [\A p \in StoreProcesses :
                 storeProc[p].replayed /\ cap[p]["assembly"].state # "consuming"
                 => cap'[p]["assembly"].state # "consuming"]_storeVars
    <2> SUFFICES ASSUME StoreNext, NEW p \in StoreProcesses, storeProc[p].replayed,
                        cap[p]["assembly"].state # "consuming",
                        cap'[p]["assembly"].state = "consuming"
                 PROVE  FALSE
        BY <1>1
    <2>1. PICK m, c, n : /\ storeProc[p] = m /\ cap[p] = c /\ made[p] = n /\ ProcOk(p, m, c, n)
                         /\ m \in ProcRecs /\ AttemptStands
        BY <1>1, ProcIs
    <2>2. c["assembly"].state # "available"
        BY <2>1 DEF ProcOk, ChainOk
    <2>3. \E t \in Threads : StoreTake(p, "assembly", t)
        <3>1. PICK d : d = cap'[p]
            OBVIOUS
        <3>2. d["assembly"].state = "consuming" /\ c["assembly"].state # "consuming"
            BY <2>1, <3>1
        <3>3. c \in [StoreStages -> CapRecs] /\ NoCaps["assembly"].state = "none"
            BY <2>1 DEF ProcOk, NoCaps, NoCap, StoreStages
        <3>4. cap = [q \in StoreProcesses |-> cap[q]]
            BY <1>1 DEF StoreInv
        <3>5. ASSUME NEW q \in StoreProcesses
              PROVE  ~(\/ Reserve(q) \/ PrepareStep(q) \/ PrepareFails(q) \/ StoreAdmit(q)
                       \/ StoreAppend(q) \/ VerifyDamaged(q))
            BY <2>1, <3>1, <3>2 DEF Reserve, PrepareStep, PrepareFails, StoreAdmit, StoreAppend,
               VerifyDamaged
        <3>6. ASSUME NEW q \in StoreProcesses PROVE ~(StoreClose(q) \/ StoreCrash(q))
            BY <2>1, <3>1, <3>2, <3>3, <3>4 DEF StoreClose, StoreCrash, Gone
        <3>7. ~PowerLoss
            BY <3>1, <3>2, <3>3 DEF PowerLoss, Gone
        <3>8. ASSUME NEW q \in StoreProcesses, Verify(q) PROVE FALSE
            <4>1. q = p
                BY <2>1, <3>1, <3>2, <3>4, <3>8 DEF Verify
            <4>2. d = [NoCaps EXCEPT !["classification"].state = "available"]
                BY <3>1, <3>4, <3>8, <4>1 DEF Verify
            <4> QED  BY <3>2, <4>2 DEF NoCaps, NoCap, StoreStages
        <3>9. ASSUME NEW q \in StoreProcesses, NEW t \in Threads, q # p
              PROVE  ~(\/ RecoverIncomplete(q, t) \/ RecoverTerminal(q, t) \/ AdmitRecovered(q, t)
                       \/ StoreReplay(q, t) \/ Assemble(q, t)
                       \/ \E cs \in StoreStages : StoreTake(q, cs, t) \/ UseFails(q, cs, t))
            BY <2>1, <3>1, <3>2, <3>4, <3>9 DEF RecoverIncomplete, RecoverTerminal, AdmitRecovered,
               StoreReplay, Assemble, StoreTake, UseFails, StoreEnds, ReserveUse
        <3>10. ASSUME NEW t \in Threads
               PROVE  ~(\/ RecoverIncomplete(p, t) \/ RecoverTerminal(p, t) \/ AdmitRecovered(p, t)
                        \/ StoreReplay(p, t) \/ Assemble(p, t))
            BY <2>1, <3>1, <3>2, <3>3, <3>4 DEF RecoverIncomplete, RecoverTerminal, AdmitRecovered,
               StoreReplay, Assemble, StoreEnds, StoreStages
        <3>11. ASSUME NEW t \in Threads, NEW cs \in StoreStages, UseFails(p, cs, t)
               PROVE  FALSE
            BY <2>1, <3>1, <3>2, <3>3, <3>4, <3>11 DEF UseFails, StoreEnds, StoreStages
        <3>12. ASSUME NEW t \in Threads, NEW cs \in StoreStages, StoreTake(p, cs, t)
               PROVE  cs = "assembly"
            BY <2>1, <3>1, <3>2, <3>3, <3>4, <3>12 DEF StoreTake, ReserveUse, StoreStages
        <3> QED
            BY <3>5, <3>6, <3>7, <3>8, <3>9, <3>10, <3>11, <3>12, Zenon DEF StoreNext
    <2> QED  BY <2>1, <2>2, <2>3 DEF StoreTake, ReserveUse
<1>2. StoreSpec => []StoreInv
    BY StoreInitOk, NextKeepsStore, PTL DEF StoreSpec
<1> QED  BY <1>1, <1>2, PTL DEF StoreSpec, FailedReplayIsFinal

-----------------------------------------------------------------------------
(***************************************************************************)
(* The backtest attempt.  Each process stands at an item of the program;   *)
(* Before(kind, n) counts the records the items before n write, and the journal  *)
(* holds at least those.                                                   *)
(***************************************************************************)
Before(k, n) ==
    CASE k = "flat"     -> (IF n < 2 THEN 0 ELSE IF n < 5 THEN 1 ELSE IF n < 7 THEN 2 ELSE 3)
      [] k = "long"     -> (IF n < 2 THEN 0 ELSE IF n < 5 THEN 1 ELSE IF n < 8 THEN n - 3
                               ELSE IF n < 11 THEN n - 4 ELSE IF n < 12 THEN 6 ELSE 7)
      [] k = "trip"     -> (IF n < 2 THEN 0 ELSE IF n < 5 THEN 1 ELSE IF n < 8 THEN n - 3
                               ELSE IF n < 12 THEN n - 4 ELSE IF n < 15 THEN n - 5
                               ELSE IF n < 16 THEN 9 ELSE 10)
      [] k = "rejected" -> (IF n < 2 THEN 0 ELSE IF n < 5 THEN 1 ELSE 2)

\* The frontier that n records of the journal hold, as _verified_persisted_frontier ranks it.
Held(k, n) ==
    CASE k = "flat"     -> (IF n < 2 THEN "funding_durable" ELSE "reconciliation_durable")
      [] k = "long"     -> (IF n < 4 THEN "funding_durable"
                               ELSE IF n < 6 THEN "dispatch_durable" ELSE "reconciliation_durable")
      [] k = "trip"     -> (IF n < 4 THEN "funding_durable"
                               ELSE IF n < 9 THEN "dispatch_durable" ELSE "reconciliation_durable")
      [] k = "rejected" -> "funding_durable"

FrontierNames == {"attempt_prepared", "funding_durable", "dispatch_durable", "reconciliation_durable",
          "terminal_durable"}
\* The length of the program and of the journal it leaves.
Size(k)  == CASE k = "flat" -> 7 [] k = "long" -> 12 [] k = "trip" -> 16 [] k = "rejected" -> 5
Total(k) == CASE k = "flat" -> 3 [] k = "long" -> 7 [] k = "trip" -> 10 [] k = "rejected" -> 2
Cap(k, n) == IF k # "rejected" /\ n = Total(k) THEN 5 ELSE Rank(Held(k, n))

LEMMA AttemptKind ==
    kind \in Kinds => kind = "flat" \/ kind = "long" \/ kind = "trip" \/ kind = "rejected"
  BY BacktestAssumption

LEMMA RankIs ==
    /\ Rank("attempt_prepared") = 1 /\ Rank("funding_durable") = 2
    /\ Rank("dispatch_durable") = 3 /\ Rank("reconciliation_durable") = 4
    /\ Rank("terminal_durable") = 5
  <1>1. \A n \in FrontierNames : \E i \in 1..5 :
            <<"attempt_prepared", "funding_durable", "dispatch_durable", "reconciliation_durable",
              "terminal_durable">>[i] = n
    BY DEF FrontierNames
  <1>2. \A n \in FrontierNames :
            /\ Rank(n) \in 1..5
            /\ <<"attempt_prepared", "funding_durable", "dispatch_durable",
                 "reconciliation_durable", "terminal_durable">>[Rank(n)] = n
    BY <1>1 DEF Rank
  <1> QED  BY <1>2 DEF FrontierNames

LEMMA RecordsFlat ==
    ASSUME kind = "flat"
    PROVE  /\ Len(Records) = 3 /\ Records[1] = <<"prepared", 0>>
           /\ Records[2] = <<"cash", 0>> /\ Records[3] = <<"terminal", 0>>
  BY DEF Records, EndRecords
LEMMA RecordsLong ==
    ASSUME kind = "long"
    PROVE  /\ Len(Records) = 7 /\ Records[1] = <<"prepared", 0>>
           /\ Records[2] = <<"fact", 1>> /\ Records[3] = <<"handoff", 1>>
           /\ Records[4] = <<"completed", 1>> /\ Records[5] = <<"position", 0>>
           /\ Records[6] = <<"cash", 0>> /\ Records[7] = <<"terminal", 0>>
  BY DEF Records, EndRecords, FillRecords
LEMMA RecordsTrip ==
    ASSUME kind = "trip"
    PROVE  /\ Len(Records) = 10 /\ Records[1] = <<"prepared", 0>>
           /\ Records[2] = <<"fact", 1>> /\ Records[3] = <<"handoff", 1>>
           /\ Records[4] = <<"completed", 1>>
           /\ Records[5] = <<"fact", 2>> /\ Records[6] = <<"handoff", 2>>
           /\ Records[7] = <<"completed", 2>> /\ Records[8] = <<"position", 0>>
           /\ Records[9] = <<"cash", 0>> /\ Records[10] = <<"terminal", 0>>
  BY DEF Records, EndRecords, FillRecords
LEMMA RecordsRejected ==
    ASSUME kind = "rejected"
    PROVE  /\ Len(Records) = 2 /\ Records[1] = <<"prepared", 0>>
           /\ Records[2] = <<"window", 0>>
  BY DEF Records

LEMMA ProgramFlat ==
    ASSUME kind = "flat"
    PROVE  /\ Len(Program) = 7 /\ Program[1] = A(Records[1]) /\ Program[2] = Funding
           /\ Program[3] = F("funding_durable") /\ Program[4] = A(Records[2])
           /\ Program[5] = F("reconciliation_durable") /\ Program[6] = A(Records[3])
           /\ Program[7] = F("terminal_durable")
  BY RecordsFlat DEF Program, Cash, Terminal
LEMMA ProgramLong ==
    ASSUME kind = "long"
    PROVE  /\ Len(Program) = 12 /\ Program[1] = A(Records[1]) /\ Program[2] = Funding
           /\ Program[3] = F("funding_durable") /\ Program[4] = A(Records[2])
           /\ Program[5] = A(Records[3]) /\ Program[6] = A(Records[4])
           /\ Program[7] = F("dispatch_durable") /\ Program[8] = A(Records[5])
           /\ Program[9] = A(Records[6]) /\ Program[10] = F("reconciliation_durable")
           /\ Program[11] = A(Records[7]) /\ Program[12] = F("terminal_durable")
  BY RecordsLong DEF Program, Fill, Balances, Terminal
LEMMA ProgramTrip ==
    ASSUME kind = "trip"
    PROVE  /\ Len(Program) = 16 /\ Program[1] = A(Records[1]) /\ Program[2] = Funding
           /\ Program[3] = F("funding_durable") /\ Program[4] = A(Records[2])
           /\ Program[5] = A(Records[3]) /\ Program[6] = A(Records[4])
           /\ Program[7] = F("dispatch_durable") /\ Program[8] = A(Records[5])
           /\ Program[9] = A(Records[6]) /\ Program[10] = A(Records[7])
           /\ Program[11] = F("dispatch_durable") /\ Program[12] = A(Records[8])
           /\ Program[13] = A(Records[9]) /\ Program[14] = F("reconciliation_durable")
           /\ Program[15] = A(Records[10]) /\ Program[16] = F("terminal_durable")
  BY RecordsTrip DEF Program, Fill, Balances, Terminal
LEMMA ProgramRejected ==
    ASSUME kind = "rejected"
    PROVE  /\ Len(Program) = 5 /\ Program[1] = A(Records[1]) /\ Program[2] = Funding
           /\ Program[3] = F("funding_durable") /\ Program[4] = A(Records[2])
           /\ Program[5] = Reject
  BY RecordsRejected DEF Program

\* What an item stands for: the next record, or a frontier the records before it reach.
ItemOk(n) ==
    /\ Before(kind, n) \in 0..Len(Records) /\ Before(kind, n + 1) \in 0..Len(Records)
    /\ Program[n].op \in {"append", "frontier", "write", "reject"}
    /\ Program[n].op = "append" =>
          Before(kind, n + 1) = Before(kind, n) + 1 /\ Program[n].arg = Records[Before(kind, n) + 1]
    /\ Program[n].op # "append" => Before(kind, n + 1) = Before(kind, n)
    /\ Program[n].op = "frontier" =>
          /\ Program[n].arg[1] \in FrontierNames
          /\ Rank(Program[n].arg[1]) <= Cap(kind, Before(kind, n))
          /\ \A m \in 0..Len(Records) :
                m < Before(kind, n) => Rank(Held(kind, m)) <= Rank(Program[n].arg[1])
    /\ Program[n].op = "reject" <=> kind = "rejected" /\ n = 5
    /\ Program[n].op = "write" <=> n = 2

LEMMA BeforeFlat == ASSUME kind = "flat" PROVE Before(kind, 1) = 0 /\ Before(kind, 2) = 1 /\ Before(kind, 3) = 1 /\ Before(kind, 4) = 1 /\ Before(kind, 5) = 2 /\ Before(kind, 6) = 2 /\ Before(kind, 7) = 3 /\ Before(kind, 8) = 3
  BY DEF Before
LEMMA ItemsFlat == ASSUME kind = "flat", NEW n \in 1..Len(Program) PROVE ItemOk(n)
  <1>1. n \in 1..7
    BY ProgramFlat
  <1>2. \/ n = 1 \/ n = 2 \/ n = 3 \/ n = 4 \/ n = 5 \/ n = 6 \/ n = 7
    BY <1>1
  <1>3. Before(kind, n) \in 0..Len(Records) /\ Before(kind, n + 1) \in 0..Len(Records)
    <2>1. Before(kind, n) \in 0..3 /\ Before(kind, n + 1) \in 0..3
      BY <1>2, BeforeFlat
    <2> QED  BY <2>1, RecordsFlat
  <1>4. Program[n].op \in {"append", "frontier", "write", "reject"}
    BY <1>2, ProgramFlat DEF A, F, Funding, Reject
  <1>5. Program[n].op = "append" => Before(kind, n + 1) = Before(kind, n) + 1
    BY <1>2, BeforeFlat, ProgramFlat DEF A, F, Funding, Reject
  <1>6. Program[n].op = "append" => Program[n].arg = Records[Before(kind, n) + 1]
    <2>1. PICK m : m = Before(kind, n) + 1
      OBVIOUS
    <2>2. \/ Program[n].op # "append"
          \/ n = 1 /\ m = 1
          \/ n = 4 /\ m = 2
          \/ n = 6 /\ m = 3
      BY <1>2, <2>1, BeforeFlat, ProgramFlat DEF F, Funding, Reject
    <2>3. Program[n].op = "append" => Program[n].arg = Records[m]
      BY <2>2, ProgramFlat DEF A
    <2> QED  BY <2>1, <2>3
  <1>7. Program[n].op # "append" => Before(kind, n + 1) = Before(kind, n)
    BY <1>2, BeforeFlat, ProgramFlat DEF A, F, Funding, Reject
  <1>8. /\ Program[n].op = "reject" <=> kind = "rejected" /\ n = 5
        /\ Program[n].op = "write" <=> n = 2
    BY <1>2, ProgramFlat DEF A, F, Funding, Reject
  <1>9. ASSUME Program[n].op = "frontier"
        PROVE  \/ Program[n].arg[1] = "funding_durable" /\ Before(kind, n) = 1
               \/ Program[n].arg[1] = "reconciliation_durable" /\ Before(kind, n) = 2
               \/ Program[n].arg[1] = "terminal_durable" /\ Before(kind, n) = 3
    BY <1>2, <1>9, BeforeFlat, ProgramFlat DEF A, F, Funding, Reject
  <1>10. ASSUME Program[n].op = "frontier"
         PROVE  /\ Program[n].arg[1] \in FrontierNames
                /\ Rank(Program[n].arg[1]) <= Cap(kind, Before(kind, n))
                /\ \A m \in 0..Len(Records) :
                      m < Before(kind, n) => Rank(Held(kind, m)) <= Rank(Program[n].arg[1])
    <2>1. Program[n].arg[1] \in FrontierNames
      BY <1>9, <1>10 DEF FrontierNames
    <2>2. \A m \in 0..3 : Rank(Held(kind, m)) = IF m < 2 THEN 2 ELSE 4
      BY RankIs DEF Held
    <2>3. \A m \in 0..3 : Cap(kind, m) = IF m = 3 THEN 5 ELSE Rank(Held(kind, m))
      BY DEF Cap, Total
    <2>4. Rank(Program[n].arg[1]) <= Cap(kind, Before(kind, n))
      BY <1>9, <1>10, <2>2, <2>3, RankIs
    <2> QED  BY <1>9, <1>10, <2>1, <2>2, <2>4, RankIs, RecordsFlat
  <1> QED
    BY <1>3, <1>4, <1>5, <1>6, <1>7, <1>8, <1>10, Zenon DEF ItemOk
LEMMA BeforeLong == ASSUME kind = "long" PROVE Before(kind, 1) = 0 /\ Before(kind, 2) = 1 /\ Before(kind, 3) = 1 /\ Before(kind, 4) = 1 /\ Before(kind, 5) = 2 /\ Before(kind, 6) = 3 /\ Before(kind, 7) = 4 /\ Before(kind, 8) = 4 /\ Before(kind, 9) = 5 /\ Before(kind, 10) = 6 /\ Before(kind, 11) = 6 /\ Before(kind, 12) = 7 /\ Before(kind, 13) = 7
  BY DEF Before
LEMMA ItemsLong == ASSUME kind = "long", NEW n \in 1..Len(Program) PROVE ItemOk(n)
  <1>1. n \in 1..12
    BY ProgramLong
  <1>2. \/ n = 1 \/ n = 2 \/ n = 3 \/ n = 4 \/ n = 5 \/ n = 6 \/ n = 7 \/ n = 8
        \/ n = 9 \/ n = 10 \/ n = 11 \/ n = 12
    BY <1>1
  <1>3. Before(kind, n) \in 0..Len(Records) /\ Before(kind, n + 1) \in 0..Len(Records)
    <2>1. Before(kind, n) \in 0..7 /\ Before(kind, n + 1) \in 0..7
      BY <1>2, BeforeLong
    <2> QED  BY <2>1, RecordsLong
  <1>4. Program[n].op \in {"append", "frontier", "write", "reject"}
    BY <1>2, ProgramLong DEF A, F, Funding, Reject
  <1>5. Program[n].op = "append" => Before(kind, n + 1) = Before(kind, n) + 1
    BY <1>2, BeforeLong, ProgramLong DEF A, F, Funding, Reject
  <1>6. Program[n].op = "append" => Program[n].arg = Records[Before(kind, n) + 1]
    <2>1. PICK m : m = Before(kind, n) + 1
      OBVIOUS
    <2>2. \/ Program[n].op # "append"
          \/ n = 1 /\ m = 1
          \/ n = 4 /\ m = 2
          \/ n = 5 /\ m = 3
          \/ n = 6 /\ m = 4
          \/ n = 8 /\ m = 5
          \/ n = 9 /\ m = 6
          \/ n = 11 /\ m = 7
      BY <1>2, <2>1, BeforeLong, ProgramLong DEF F, Funding, Reject
    <2>3. Program[n].op = "append" => Program[n].arg = Records[m]
      BY <2>2, ProgramLong DEF A
    <2> QED  BY <2>1, <2>3
  <1>7. Program[n].op # "append" => Before(kind, n + 1) = Before(kind, n)
    BY <1>2, BeforeLong, ProgramLong DEF A, F, Funding, Reject
  <1>8. /\ Program[n].op = "reject" <=> kind = "rejected" /\ n = 5
        /\ Program[n].op = "write" <=> n = 2
    BY <1>2, ProgramLong DEF A, F, Funding, Reject
  <1>9. ASSUME Program[n].op = "frontier"
        PROVE  \/ Program[n].arg[1] = "funding_durable" /\ Before(kind, n) = 1
               \/ Program[n].arg[1] = "dispatch_durable" /\ Before(kind, n) = 4
               \/ Program[n].arg[1] = "reconciliation_durable" /\ Before(kind, n) = 6
               \/ Program[n].arg[1] = "terminal_durable" /\ Before(kind, n) = 7
    BY <1>2, <1>9, BeforeLong, ProgramLong DEF A, F, Funding, Reject
  <1>10. ASSUME Program[n].op = "frontier"
         PROVE  /\ Program[n].arg[1] \in FrontierNames
                /\ Rank(Program[n].arg[1]) <= Cap(kind, Before(kind, n))
                /\ \A m \in 0..Len(Records) :
                      m < Before(kind, n) => Rank(Held(kind, m)) <= Rank(Program[n].arg[1])
    <2>1. Program[n].arg[1] \in FrontierNames
      BY <1>9, <1>10 DEF FrontierNames
    <2>2. \A m \in 0..7 : Rank(Held(kind, m)) = IF m < 4 THEN 2 ELSE IF m < 6 THEN 3 ELSE 4
      BY RankIs DEF Held
    <2>3. \A m \in 0..7 : Cap(kind, m) = IF m = 7 THEN 5 ELSE Rank(Held(kind, m))
      BY DEF Cap, Total
    <2>4. Rank(Program[n].arg[1]) <= Cap(kind, Before(kind, n))
      BY <1>9, <1>10, <2>2, <2>3, RankIs
    <2> QED  BY <1>9, <1>10, <2>1, <2>2, <2>4, RankIs, RecordsLong
  <1> QED
    BY <1>3, <1>4, <1>5, <1>6, <1>7, <1>8, <1>10, Zenon DEF ItemOk
LEMMA BeforeTrip == ASSUME kind = "trip" PROVE Before(kind, 1) = 0 /\ Before(kind, 2) = 1 /\ Before(kind, 3) = 1 /\ Before(kind, 4) = 1 /\ Before(kind, 5) = 2 /\ Before(kind, 6) = 3 /\ Before(kind, 7) = 4 /\ Before(kind, 8) = 4 /\ Before(kind, 9) = 5 /\ Before(kind, 10) = 6 /\ Before(kind, 11) = 7 /\ Before(kind, 12) = 7 /\ Before(kind, 13) = 8 /\ Before(kind, 14) = 9 /\ Before(kind, 15) = 9 /\ Before(kind, 16) = 10 /\ Before(kind, 17) = 10
  BY DEF Before
LEMMA ItemsTrip == ASSUME kind = "trip", NEW n \in 1..Len(Program) PROVE ItemOk(n)
  <1>1. n \in 1..16
    BY ProgramTrip
  <1>2. \/ n = 1 \/ n = 2 \/ n = 3 \/ n = 4 \/ n = 5 \/ n = 6 \/ n = 7 \/ n = 8
        \/ n = 9 \/ n = 10 \/ n = 11 \/ n = 12 \/ n = 13 \/ n = 14 \/ n = 15 \/ n = 16
    BY <1>1
  <1>3. Before(kind, n) \in 0..Len(Records) /\ Before(kind, n + 1) \in 0..Len(Records)
    <2>1. Before(kind, n) \in 0..10 /\ Before(kind, n + 1) \in 0..10
      BY <1>2, BeforeTrip
    <2> QED  BY <2>1, RecordsTrip
  <1>4. Program[n].op \in {"append", "frontier", "write", "reject"}
    BY <1>2, ProgramTrip DEF A, F, Funding, Reject
  <1>5. Program[n].op = "append" => Before(kind, n + 1) = Before(kind, n) + 1
    BY <1>2, BeforeTrip, ProgramTrip DEF A, F, Funding, Reject
  <1>6. Program[n].op = "append" => Program[n].arg = Records[Before(kind, n) + 1]
    <2>1. PICK m : m = Before(kind, n) + 1
      OBVIOUS
    <2>2. \/ Program[n].op # "append"
          \/ n = 1 /\ m = 1
          \/ n = 4 /\ m = 2
          \/ n = 5 /\ m = 3
          \/ n = 6 /\ m = 4
          \/ n = 8 /\ m = 5
          \/ n = 9 /\ m = 6
          \/ n = 10 /\ m = 7
          \/ n = 12 /\ m = 8
          \/ n = 13 /\ m = 9
          \/ n = 15 /\ m = 10
      BY <1>2, <2>1, BeforeTrip, ProgramTrip DEF F, Funding, Reject
    <2>3. Program[n].op = "append" => Program[n].arg = Records[m]
      BY <2>2, ProgramTrip DEF A
    <2> QED  BY <2>1, <2>3
  <1>7. Program[n].op # "append" => Before(kind, n + 1) = Before(kind, n)
    BY <1>2, BeforeTrip, ProgramTrip DEF A, F, Funding, Reject
  <1>8. /\ Program[n].op = "reject" <=> kind = "rejected" /\ n = 5
        /\ Program[n].op = "write" <=> n = 2
    BY <1>2, ProgramTrip DEF A, F, Funding, Reject
  <1>9. ASSUME Program[n].op = "frontier"
        PROVE  \/ Program[n].arg[1] = "funding_durable" /\ Before(kind, n) = 1
               \/ Program[n].arg[1] = "dispatch_durable" /\ Before(kind, n) = 4
               \/ Program[n].arg[1] = "dispatch_durable" /\ Before(kind, n) = 7
               \/ Program[n].arg[1] = "reconciliation_durable" /\ Before(kind, n) = 9
               \/ Program[n].arg[1] = "terminal_durable" /\ Before(kind, n) = 10
    BY <1>2, <1>9, BeforeTrip, ProgramTrip DEF A, F, Funding, Reject
  <1>10. ASSUME Program[n].op = "frontier"
         PROVE  /\ Program[n].arg[1] \in FrontierNames
                /\ Rank(Program[n].arg[1]) <= Cap(kind, Before(kind, n))
                /\ \A m \in 0..Len(Records) :
                      m < Before(kind, n) => Rank(Held(kind, m)) <= Rank(Program[n].arg[1])
    <2>1. Program[n].arg[1] \in FrontierNames
      BY <1>9, <1>10 DEF FrontierNames
    <2>2. \A m \in 0..10 : Rank(Held(kind, m)) = IF m < 4 THEN 2 ELSE IF m < 9 THEN 3 ELSE 4
      BY RankIs DEF Held
    <2>3. \A m \in 0..10 : Cap(kind, m) = IF m = 10 THEN 5 ELSE Rank(Held(kind, m))
      BY DEF Cap, Total
    <2>4. Rank(Program[n].arg[1]) <= Cap(kind, Before(kind, n))
      BY <1>9, <1>10, <2>2, <2>3, RankIs
    <2> QED  BY <1>9, <1>10, <2>1, <2>2, <2>4, RankIs, RecordsTrip
  <1> QED
    BY <1>3, <1>4, <1>5, <1>6, <1>7, <1>8, <1>10, Zenon DEF ItemOk
LEMMA BeforeRejected == ASSUME kind = "rejected" PROVE Before(kind, 1) = 0 /\ Before(kind, 2) = 1 /\ Before(kind, 3) = 1 /\ Before(kind, 4) = 1 /\ Before(kind, 5) = 2 /\ Before(kind, 6) = 2
  BY DEF Before
LEMMA ItemsRejected == ASSUME kind = "rejected", NEW n \in 1..Len(Program) PROVE ItemOk(n)
  <1>1. n \in 1..5
    BY ProgramRejected
  <1>2. \/ n = 1 \/ n = 2 \/ n = 3 \/ n = 4 \/ n = 5
    BY <1>1
  <1>3. Before(kind, n) \in 0..Len(Records) /\ Before(kind, n + 1) \in 0..Len(Records)
    <2>1. Before(kind, n) \in 0..2 /\ Before(kind, n + 1) \in 0..2
      BY <1>2, BeforeRejected
    <2> QED  BY <2>1, RecordsRejected
  <1>4. Program[n].op \in {"append", "frontier", "write", "reject"}
    BY <1>2, ProgramRejected DEF A, F, Funding, Reject
  <1>5. Program[n].op = "append" => Before(kind, n + 1) = Before(kind, n) + 1
    BY <1>2, BeforeRejected, ProgramRejected DEF A, F, Funding, Reject
  <1>6. Program[n].op = "append" => Program[n].arg = Records[Before(kind, n) + 1]
    <2>1. PICK m : m = Before(kind, n) + 1
      OBVIOUS
    <2>2. \/ Program[n].op # "append"
          \/ n = 1 /\ m = 1
          \/ n = 4 /\ m = 2
      BY <1>2, <2>1, BeforeRejected, ProgramRejected DEF F, Funding, Reject
    <2>3. Program[n].op = "append" => Program[n].arg = Records[m]
      BY <2>2, ProgramRejected DEF A
    <2> QED  BY <2>1, <2>3
  <1>7. Program[n].op # "append" => Before(kind, n + 1) = Before(kind, n)
    BY <1>2, BeforeRejected, ProgramRejected DEF A, F, Funding, Reject
  <1>8. /\ Program[n].op = "reject" <=> kind = "rejected" /\ n = 5
        /\ Program[n].op = "write" <=> n = 2
    BY <1>2, ProgramRejected DEF A, F, Funding, Reject
  <1>9. ASSUME Program[n].op = "frontier"
        PROVE  \/ Program[n].arg[1] = "funding_durable" /\ Before(kind, n) = 1
    BY <1>2, <1>9, BeforeRejected, ProgramRejected DEF A, F, Funding, Reject
  <1>10. ASSUME Program[n].op = "frontier"
         PROVE  /\ Program[n].arg[1] \in FrontierNames
                /\ Rank(Program[n].arg[1]) <= Cap(kind, Before(kind, n))
                /\ \A m \in 0..Len(Records) :
                      m < Before(kind, n) => Rank(Held(kind, m)) <= Rank(Program[n].arg[1])
    <2>1. Program[n].arg[1] \in FrontierNames
      BY <1>9, <1>10 DEF FrontierNames
    <2>2. \A m \in 0..2 : Rank(Held(kind, m)) = 2
      BY RankIs DEF Held
    <2>3. \A m \in 0..2 : Cap(kind, m) = Rank(Held(kind, m))
      BY DEF Cap, Total
    <2>4. Rank(Program[n].arg[1]) <= Cap(kind, Before(kind, n))
      BY <1>9, <1>10, <2>2, <2>3, RankIs
    <2> QED  BY <1>9, <1>10, <2>1, <2>2, <2>4, RankIs, RecordsRejected
  <1> QED
    BY <1>3, <1>4, <1>5, <1>6, <1>7, <1>8, <1>10, Zenon DEF ItemOk
LEMMA Items == ASSUME kind \in Kinds, NEW n \in 1..Len(Program) PROVE ItemOk(n)
  BY AttemptKind, ItemsFlat, ItemsLong, ItemsTrip, ItemsRejected

LEMMA SizesAre ==
    ASSUME kind \in Kinds
    PROVE  Len(Records) = Total(kind) /\ Len(Program) = Size(kind)
  <1>1. CASE kind = "flat"
    BY <1>1, RecordsFlat, ProgramFlat DEF Total, Size
  <1>2. CASE kind = "long"
    BY <1>2, RecordsLong, ProgramLong DEF Total, Size
  <1>3. CASE kind = "trip"
    BY <1>3, RecordsTrip, ProgramTrip DEF Total, Size
  <1>4. CASE kind = "rejected"
    BY <1>4, RecordsRejected, ProgramRejected DEF Total, Size
  <1> QED  BY <1>1, <1>2, <1>3, <1>4, AttemptKind

\* The place of a record in the journal of its kind.
PlaceOf(r) ==
    CASE r[1] = "prepared"  -> 1
      [] r[1] = "fact"      -> 3 * r[2] - 1
      [] r[1] = "handoff"   -> 3 * r[2]
      [] r[1] = "completed" -> 3 * r[2] + 1
      [] r[1] = "position"  -> (IF kind = "long" THEN 5 ELSE 8)
      [] r[1] = "cash"      -> (IF kind = "flat" THEN 2 ELSE IF kind = "long" THEN 6 ELSE 9)
      [] r[1] = "terminal"  -> (IF kind = "flat" THEN 3 ELSE IF kind = "long" THEN 7 ELSE 10)
      [] r[1] = "window"    -> 2

LEMMA PlacesAre ==
    ASSUME kind \in Kinds
    PROVE  /\ Len(Records) \in Nat \ {0}
           /\ \A i \in 1..Len(Records) : PlaceOf(Records[i]) = i
  <1>1. CASE kind = "flat"
    <2>1. ASSUME NEW i \in 1..3 PROVE PlaceOf(Records[i]) = i
      <3>1. i = 1 \/ i = 2 \/ i = 3
        OBVIOUS
      <3> QED  BY <1>1, <3>1, RecordsFlat DEF PlaceOf
    <2>2. Len(Records) \in Nat \ {0} /\ 1..Len(Records) = 1..3
      <3>1. Len(Records) = 3
        BY <1>1, RecordsFlat
      <3> QED  BY <3>1
    <2> QED  BY <2>1, <2>2
  <1>2. CASE kind = "long"
    <2>1. ASSUME NEW i \in 1..7 PROVE PlaceOf(Records[i]) = i
      <3>1. \/ i = 1 \/ i = 2 \/ i = 3 \/ i = 4 \/ i = 5
            \/ i = 6 \/ i = 7
        OBVIOUS
      <3> QED  BY <1>2, <3>1, RecordsLong DEF PlaceOf
    <2>2. Len(Records) \in Nat \ {0} /\ 1..Len(Records) = 1..7
      <3>1. Len(Records) = 7
        BY <1>2, RecordsLong
      <3> QED  BY <3>1
    <2> QED  BY <2>1, <2>2
  <1>3. CASE kind = "trip"
    <2>1. ASSUME NEW i \in 1..10 PROVE PlaceOf(Records[i]) = i
      <3>1. \/ i = 1 \/ i = 2 \/ i = 3 \/ i = 4 \/ i = 5
            \/ i = 6 \/ i = 7 \/ i = 8 \/ i = 9 \/ i = 10
        OBVIOUS
      <3> QED  BY <1>3, <3>1, RecordsTrip DEF PlaceOf
    <2>2. Len(Records) \in Nat \ {0} /\ 1..Len(Records) = 1..10
      <3>1. Len(Records) = 10
        BY <1>3, RecordsTrip
      <3> QED  BY <3>1
    <2> QED  BY <2>1, <2>2
  <1>4. CASE kind = "rejected"
    <2>1. ASSUME NEW i \in 1..2 PROVE PlaceOf(Records[i]) = i
      <3>1. i = 1 \/ i = 2
        OBVIOUS
      <3> QED  BY <1>4, <3>1, RecordsRejected DEF PlaceOf
    <2>2. Len(Records) \in Nat \ {0} /\ 1..Len(Records) = 1..2
      <3>1. Len(Records) = 2
        BY <1>4, RecordsRejected
      <3> QED  BY <3>1
    <2> QED  BY <2>1, <2>2
  <1> QED  BY <1>1, <1>2, <1>3, <1>4, AttemptKind
\* Where the records of a fill, of the balances and of the end stand.
LEMMA RecordsAre ==
    ASSUME kind \in Kinds, NEW i \in 1..Len(Records)
    PROVE  /\ Records[i][1] = "terminal" <=> kind # "rejected" /\ i = Len(Records)
           /\ Records[i][1] = "completed" => (kind = "long" \/ kind = "trip") /\ ~(i < 4)
           /\ Records[i][1] \in {"position", "cash"} =>
                 Records[i] = <<"position", 0>> \/ Records[i] = <<"cash", 0>>
           /\ Records[i] = <<"position", 0>>
                 <=> (kind = "long" /\ i = 5) \/ (kind = "trip" /\ i = 8)
           /\ Records[i] = <<"cash", 0>>
                 <=> \/ kind = "flat" /\ i = 2
                     \/ kind = "long" /\ i = 6
                     \/ kind = "trip" /\ i = 9
  <1>1. CASE kind = "flat"
    <2>1. Len(Records) = 3
      BY <1>1, RecordsFlat
    <2>2. i = 1 \/ i = 2 \/ i = 3
      BY <2>1
    <2> QED  BY <1>1, <2>1, <2>2, RecordsFlat
  <1>2. CASE kind = "long"
    <2>1. Len(Records) = 7
      BY <1>2, RecordsLong
    <2>2. \/ i = 1 \/ i = 2 \/ i = 3 \/ i = 4 \/ i = 5
          \/ i = 6 \/ i = 7
      BY <2>1
    <2> QED  BY <1>2, <2>1, <2>2, RecordsLong
  <1>3. CASE kind = "trip"
    <2>1. Len(Records) = 10
      BY <1>3, RecordsTrip
    <2>2. \/ i = 1 \/ i = 2 \/ i = 3 \/ i = 4 \/ i = 5
          \/ i = 6 \/ i = 7 \/ i = 8 \/ i = 9 \/ i = 10
      BY <2>1
    <2> QED  BY <1>3, <2>1, <2>2, RecordsTrip
  <1>4. CASE kind = "rejected"
    <2>1. Len(Records) = 2
      BY <1>4, RecordsRejected
    <2>2. i = 1 \/ i = 2
      BY <2>1
    <2> QED  BY <1>4, <2>1, <2>2, RecordsRejected
  <1> QED  BY <1>1, <1>2, <1>3, <1>4, AttemptKind
\* The journal is the beginning of the one nothing interrupts.
Recs == {Records[i] : i \in 1..Len(Records)}
Begins(j) == j \in Seq(Recs) /\ Len(j) <= Len(Records) /\ \A i \in 1..Len(j) : j[i] = Records[i]

LEMMA JournalHas ==
    ASSUME kind \in Kinds, Begins(attemptJournal)
    PROVE  /\ Len(attemptJournal) \in 0..Len(Records) /\ Len(Records) \in Nat \ {0}
           /\ \A r : r \in Range(attemptJournal)
                     <=> \E i \in 1..Len(attemptJournal) : r = Records[i]
           /\ \A i \in 1..Len(Records) :
                 Records[i] \in Range(attemptJournal) <=> i <= Len(attemptJournal)
  <1>1. /\ Len(attemptJournal) \in Nat /\ DOMAIN attemptJournal = 1..Len(attemptJournal)
        /\ Len(attemptJournal) <= Len(Records) /\ Len(Records) \in Nat \ {0}
        /\ \A i \in 1..Len(attemptJournal) : attemptJournal[i] = Records[i]
    BY PlacesAre DEF Begins
  <1>2. \A r : r \in Range(attemptJournal)
               <=> \E i \in 1..Len(attemptJournal) : r = Records[i]
    BY <1>1 DEF Range
  <1>3. ASSUME NEW i \in 1..Len(Records)
        PROVE  Records[i] \in Range(attemptJournal) <=> i <= Len(attemptJournal)
    BY <1>1, <1>2, PlacesAre
  <1> QED  BY <1>1, <1>2, <1>3

LEMMA TerminalIs ==
    ASSUME kind \in Kinds, Begins(attemptJournal)
    PROVE  AttemptIsTerminal <=> kind # "rejected" /\ Len(attemptJournal) = Len(Records)
  <1>1. /\ Len(attemptJournal) \in Nat /\ (attemptJournal # <<>> <=> Len(attemptJournal) # 0)
        /\ Len(Records) \in Nat \ {0}
    BY PlacesAre DEF Begins
  <1>2. ASSUME Len(attemptJournal) # 0
        PROVE  Last(attemptJournal) = Records[Len(attemptJournal)]
               /\ Len(attemptJournal) \in 1..Len(Records)
    BY <1>1, <1>2 DEF Last, Begins
  <1> QED  BY <1>1, <1>2, RecordsAre DEF AttemptIsTerminal

LEMMA TwoBalances ==
    Cardinality({}) = 0 /\ (\A a : Cardinality({a}) = 1)
    /\ Cardinality({<<"position", 0>>, <<"cash", 0>>}) = 2
  <1>1. Cardinality({}) = 0 /\ \A a : Cardinality({a}) = 1
    BY FS_EmptySet, FS_Singleton
  <1>2. {<<"position", 0>>, <<"cash", 0>>} = {<<"position", 0>>} \cup {<<"cash", 0>>}
    OBVIOUS
  <1>3. IsFiniteSet({<<"position", 0>>})
    BY FS_Singleton
  <1>4. <<"cash", 0>> \notin {<<"position", 0>>}
    OBVIOUS
  <1>5. Cardinality({<<"position", 0>>} \cup {<<"cash", 0>>}) = Cardinality({<<"position", 0>>}) + 1
    BY <1>3, <1>4, FS_AddElement
  <1>6. Cardinality({<<"position", 0>>, <<"cash", 0>>}) = 1 + 1
    BY <1>1, <1>2, <1>5, Zenon
  <1> QED  BY <1>1, <1>6

\* The first fill is durable once its three records are there, and is the only one that counts.
LEMMA DurableIs ==
    ASSUME kind \in Kinds, Begins(attemptJournal)
    PROVE  Durable # {} <=> (kind = "long" \/ kind = "trip") /\ ~(Len(attemptJournal) < 4)
  <1> DEFINE n == Len(attemptJournal)
  <1>1. /\ n \in 0..Len(Records) /\ Len(Records) \in Nat
        /\ \A r : r \in Range(attemptJournal) <=> \E i \in 1..n : r = Records[i]
    BY JournalHas
  <1> HIDE DEF n
  <1>2. \A what : \A d : d \in Dispatches(what)
                         <=> \E i \in 1..n : Records[i][1] = what /\ d = Records[i][2]
    BY <1>1 DEF Dispatches
  <1>3. ASSUME Durable # {} PROVE (kind = "long" \/ kind = "trip") /\ ~(n < 4)
    <2>1. PICK d : d \in Dispatches("completed")
      BY <1>3 DEF Durable
    <2>2. PICK i \in 1..n : Records[i][1] = "completed"
      BY <1>2, <2>1
    <2>3. i \in 1..Len(Records)
      BY <1>1
    <2> QED  BY <1>1, <2>2, <2>3, RecordsAre
  <1>4. ASSUME kind = "long" \/ kind = "trip", ~(n < 4) PROVE Durable # {}
    <2>1. 2 \in 1..n /\ 3 \in 1..n /\ 4 \in 1..n
      BY <1>1, <1>4
    <2>2. /\ Records[2] = <<"fact", 1>> /\ Records[3] = <<"handoff", 1>>
          /\ Records[4] = <<"completed", 1>>
      BY <1>4, RecordsLong, RecordsTrip
    <2>3. 1 \in Dispatches("fact") /\ 1 \in Dispatches("handoff") /\ 1 \in Dispatches("completed")
      BY <1>2, <2>1, <2>2
    <2> QED  BY <2>3 DEF Durable
  <1> QED  BY <1>3, <1>4 DEF n

\* How many of the two reconciliation records are there.
LEMMA ReconciliationsAre ==
    ASSUME kind \in Kinds, Begins(attemptJournal)
    PROVE  LET n == Len(attemptJournal)
           IN  /\ Reconciliations = 1 =>
                     (kind = "flat" /\ ~(n < 2)) \/ (kind = "long" /\ n = 5) \/ (kind = "trip" /\ n = 8)
               /\ kind = "flat" /\ ~(n < 2) => Reconciliations = 1
               /\ Reconciliations = 2 <=> (kind = "long" /\ ~(n < 6)) \/ (kind = "trip" /\ ~(n < 9))
  <1> DEFINE n == Len(attemptJournal)
             Noted == {r \in Range(attemptJournal) : r[1] \in {"position", "cash"}}
             P == <<"position", 0>>
             C == <<"cash", 0>>
  <1>1. /\ n \in 0..Len(Records) /\ Len(Records) \in Nat
        /\ \A r : r \in Range(attemptJournal) <=> \E i \in 1..n : r = Records[i]
    BY JournalHas
  <1>2. /\ kind = "flat" => Len(Records) = 3
        /\ kind = "long" => Len(Records) = 7
        /\ kind = "trip" => Len(Records) = 10
    BY RecordsFlat, RecordsLong, RecordsTrip
  <1> HIDE DEF n
  <1>3. Noted \subseteq {P, C}
    <2>1. ASSUME NEW r \in Noted PROVE r = P \/ r = C
      <3>1. PICK i \in 1..n : r = Records[i] /\ r[1] \in {"position", "cash"}
        BY <1>1, <2>1
      <3>2. i \in 1..Len(Records)
        BY <1>1
      <3> QED  BY <3>1, <3>2, RecordsAre
    <2> QED  BY <2>1
  <1>4. P \in Noted <=> (kind = "long" /\ ~(n < 5)) \/ (kind = "trip" /\ ~(n < 8))
    <2>1. P \in Noted <=> \E i \in 1..n : P = Records[i]
      BY <1>1
    <2>2. \A i \in 1..n : P = Records[i] <=> (kind = "long" /\ i = 5) \/ (kind = "trip" /\ i = 8)
      BY <1>1, RecordsAre
    <2> QED  BY <1>1, <1>2, <2>1, <2>2
  <1>5. C \in Noted <=> \/ kind = "flat" /\ ~(n < 2)
                        \/ kind = "long" /\ ~(n < 6)
                        \/ kind = "trip" /\ ~(n < 9)
    <2>1. C \in Noted <=> \E i \in 1..n : C = Records[i]
      BY <1>1
    <2>2. \A i \in 1..n : C = Records[i]
             <=> (kind = "flat" /\ i = 2) \/ (kind = "long" /\ i = 6) \/ (kind = "trip" /\ i = 9)
      BY <1>1, RecordsAre
    <2> QED  BY <1>1, <1>2, <2>1, <2>2
  <1> HIDE DEF Noted, P, C
  <1>6. Reconciliations = Cardinality(Noted)
    BY DEF Reconciliations, Noted
  <1>7. /\ Cardinality(Noted) = 2 <=> P \in Noted /\ C \in Noted
        /\ Cardinality(Noted) = 1 => P \in Noted \/ C \in Noted
        /\ C \in Noted /\ P \notin Noted => Cardinality(Noted) = 1
        /\ P \in Noted /\ C \in Noted => Cardinality(Noted) # 1
    <2>1. Cardinality({}) = 0 /\ Cardinality({P}) = 1 /\ Cardinality({C}) = 1 /\ Cardinality({P, C}) = 2
      BY TwoBalances DEF P, C
    <2>2. \/ Noted = {} /\ P \notin Noted /\ C \notin Noted
          \/ Noted = {P} /\ P \in Noted /\ C \notin Noted
          \/ Noted = {C} /\ P \notin Noted /\ C \in Noted
          \/ Noted = {P, C} /\ P \in Noted /\ C \in Noted
      <3>1. P # C
        BY DEF P, C
      <3> QED  BY <1>3, <3>1
    <2> QED  BY <2>1, <2>2
  <1>8. Reconciliations = 1 =>
           (kind = "flat" /\ ~(n < 2)) \/ (kind = "long" /\ n = 5) \/ (kind = "trip" /\ n = 8)
    BY <1>1, <1>4, <1>5, <1>6, <1>7
  <1>9. kind = "flat" /\ ~(n < 2) => Reconciliations = 1
    BY <1>4, <1>5, <1>6, <1>7
  <1>10. Reconciliations = 2 <=> (kind = "long" /\ ~(n < 6)) \/ (kind = "trip" /\ ~(n < 9))
    BY <1>1, <1>4, <1>5, <1>6, <1>7
  <1> QED  BY <1>8, <1>9, <1>10 DEF n

\* What _verified_persisted_frontier says of such a journal.
LEMMA PersistedIs ==
    ASSUME kind \in Kinds, Begins(attemptJournal)
    PROVE  PersistedFrontier = Held(kind, Len(attemptJournal))
  <1>1. Len(attemptJournal) \in Nat
    BY DEF Begins
  <1>2. CASE Durable = {}
    BY <1>1, <1>2, AttemptKind, DurableIs, ReconciliationsAre DEF PersistedFrontier, Held
  <1>3. CASE Durable # {}
    BY <1>1, <1>3, AttemptKind, DurableIs, ReconciliationsAre DEF PersistedFrontier, Held
  <1> QED  BY <1>2, <1>3

\* More records never hold less.
LEMMA HeldGrows ==
    ASSUME kind \in Kinds, NEW m \in Nat, NEW n \in Nat, m <= n, n <= Total(kind)
    PROVE  /\ Held(kind, m) \in FrontierNames /\ Rank(Held(kind, m)) \in 2..4 /\ Rank(Held(kind, m)) <= Rank(Held(kind, n))
           /\ Rank(Held(kind, m)) <= Cap(kind, m) /\ Cap(kind, m) <= Cap(kind, n) /\ Cap(kind, m) \in 2..5
  <1>1. \A k \in Nat : /\ kind = "flat" => Rank(Held(kind, k)) = IF k < 2 THEN 2 ELSE 4
                       /\ kind = "long" => Rank(Held(kind, k)) = IF k < 4 THEN 2 ELSE IF k < 6 THEN 3 ELSE 4
                       /\ kind = "trip" => Rank(Held(kind, k)) = IF k < 4 THEN 2 ELSE IF k < 9 THEN 3 ELSE 4
                       /\ kind = "rejected" => Rank(Held(kind, k)) = 2
                       /\ Held(kind, k) \in FrontierNames
    BY AttemptKind, RankIs DEF Held, FrontierNames
  <1>2. /\ Rank(Held(kind, m)) \in 2..4 /\ Rank(Held(kind, n)) \in 2..4 /\ Rank(Held(kind, m)) <= Rank(Held(kind, n))
    BY <1>1, AttemptKind
  <1> QED  BY <1>1, <1>2 DEF Cap
-----------------------------------------------------------------------------
(* The invariant of an attempt.                                            *)
Stages == {"run", "audit", "funding", "check", "pending", "marker", "rename", "unlink",
           "failaudit", "failure"}
AttemptRecs == [mode : {"idle", "fresh", "replay", "rebuild"}, stage : Stages, at : Nat,
                open : BOOLEAN, last : FrontierNames, base : Nat, from : FrontierNames,
                ans : {"none", "success", "failed", "refused", "died"}]
Failures == [class : {"none", "product", "internal"}, frontier : FrontierNames, from : FrontierNames]

Publishing == {"check", "pending", "marker", "rename", "unlink"}
Ending == {"audit", "funding"} \cup Publishing

AttemptShape ==
    /\ kind \in Kinds
    /\ attemptDisk \in [AttemptFiles -> {"absent", "torn", "ok"}]
    /\ lock \in AttemptProcesses \cup {AttemptNobody}
    /\ failure \in Failures
    /\ attemptProc \in [AttemptProcesses -> AttemptRecs]
    /\ ~born => attemptJournal = <<>> /\ \A f \in AttemptFiles : attemptDisk[f] = "absent"

\* A process that executes has the records of the items behind it in the journal; what it
\* reports lies between what was durable when it began and what is durable now.
Stands(k, q, n) ==
    /\ q.at \in 1..Size(k) + 1 /\ Before(k, q.at) <= n
    /\ k = "rejected" => q.at # Size(k) + 1
    /\ Rank(q.from) <= Rank(q.last) /\ Rank(q.last) <= Cap(k, n)
    /\ q.mode = "replay" =>
          \E m \in 0..n : q.from = Held(k, m) /\ m <= q.base /\ (n = m \/ n = Before(k, q.at))
    /\ q.mode = "fresh" => q.from = "attempt_prepared"

\* A process that may still change the journal.
Alone(q) == q.mode \in {"fresh", "replay"} /\ q.stage \notin Ending

\* What a process has behind it: the whole journal when it rebuilds or ends, the complete
\* files when it publishes.
Rests(k, q, n, d) ==
    /\ q.mode = "rebuild" \/ q.stage \in Ending =>
          n = Total(k) /\ k # "rejected" /\ d["failure"] = "absent"
    /\ q.mode = "rebuild" => q.stage \notin {"failaudit", "failure"}
    /\ q.stage \in Publishing => d["audit"] = "ok" /\ d["funding"] = "ok"
    /\ q.stage \in {"marker", "rename"} /\ d["result"] = "absent" => d["pending"] = "ok"
    /\ q.stage = "funding" => d["audit"] = "ok"
    /\ Alone(q) => d["result"] = "absent"
    /\ d["failure"] # "absent" => q.stage = "failure"

ProcessOk(k, q, n, d) == q.mode # "idle" => Stands(k, q, n) /\ Rests(k, q, n, d)

\* Only the first process gives up the lock, when its execution is over.
Exclusive ==
    /\ \A p \in AttemptProcesses : Working(p) => born
    /\ \A p \in AttemptProcesses : Working(p) /\ lock # p =>
          Is(p, "fresh") /\ attemptProc[p].stage \in Ending
    /\ \A p, q \in AttemptProcesses : Alone(attemptProc[p]) /\ p # q => ~Working(q)

ResultStands(k, n, d) ==
    d["result"] # "absent" =>
        /\ d["result"] = "ok" /\ n = Total(k) /\ k # "rejected"
        /\ d["audit"] = "ok" /\ d["funding"] = "ok" /\ d["failure"] = "absent"

AttemptInv ==
    /\ AttemptShape /\ Begins(attemptJournal) /\ Exclusive
    /\ ResultStands(kind, Len(attemptJournal), attemptDisk)
    /\ Rank(failure.from) <= Rank(failure.frontier)
    /\ Rank(failure.frontier) <= Cap(kind, Len(attemptJournal))
    /\ \A p \in AttemptProcesses :
          ProcessOk(kind, attemptProc[p], Len(attemptJournal), attemptDisk)
LEMMA AttemptFacts ==
    ASSUME AttemptInv
    PROVE  /\ kind \in Kinds /\ lock \in AttemptProcesses \cup {AttemptNobody}
           /\ attemptDisk \in [AttemptFiles -> {"absent", "torn", "ok"}]
           /\ failure \in Failures /\ Begins(attemptJournal)
           /\ attemptProc \in [AttemptProcesses -> AttemptRecs]
           /\ Len(attemptJournal) \in 0..Total(kind)
           /\ Len(Records) = Total(kind) /\ Total(kind) \in Nat \ {0}
           /\ Len(Program) = Size(kind) /\ Size(kind) \in 5..16
           /\ Before(kind, 1) = 0 /\ Before(kind, Size(kind) + 1) = Total(kind)
           /\ Exclusive /\ ResultStands(kind, Len(attemptJournal), attemptDisk)
           /\ \A p \in AttemptProcesses :
                 ProcessOk(kind, attemptProc[p], Len(attemptJournal), attemptDisk)
           /\ AttemptNobody \notin AttemptProcesses
  <1>1. /\ Size(kind) \in 5..16 /\ Total(kind) \in Nat \ {0}
        /\ Before(kind, 1) = 0 /\ Before(kind, Size(kind) + 1) = Total(kind)
    BY AttemptKind DEF AttemptInv, AttemptShape, Size, Total, Before
  <1> QED  BY <1>1, JournalHas, SizesAre, BacktestAssumption DEF AttemptInv, AttemptShape

\* The files only grow, but for the staged result that is published and the marker.
FilesGrow(d, e) ==
    /\ d["audit"] = "ok" => e["audit"] = "ok"
    /\ d["funding"] = "ok" => e["funding"] = "ok"
    /\ e["result"] = "absent" => d["result"] = "absent" /\ (d["pending"] = "ok" => e["pending"] = "ok")

\* What a step of p must respect: the lock is taken when it is free and given up by its
\* holder, and a process that executes is alone.
Polite(p, r, l) ==
    /\ l = lock \/ (lock = p /\ l = AttemptNobody) \/ (lock = AttemptNobody /\ l = p)
    /\ r.mode # "idle" => l = p \/ (r.mode = "fresh" /\ r.stage \in Ending)
    /\ Alone(r) => Alone(attemptProc[p]) \/ \A q \in AttemptProcesses : q # p => ~Working(q)
    /\ r.mode # "idle" =>
          Working(p) \/ \A q \in AttemptProcesses : q # p => ~Alone(attemptProc[q])

LEMMA OthersRest ==
    ASSUME NEW k, NEW q, NEW n, NEW d, NEW e, ProcessOk(k, q, n, d), FilesGrow(d, e),
           e["failure"] = d["failure"] \/ q.mode = "idle", e = d \/ ~Alone(q)
    PROVE  ProcessOk(k, q, n, e)
  BY DEF ProcessOk, Rests, FilesGrow

LEMMA OneMoves ==
    ASSUME AttemptInv, NEW p \in AttemptProcesses, NEW r \in AttemptRecs, NEW l,
           NEW d \in [AttemptFiles -> {"absent", "torn", "ok"}], NEW fl \in Failures,
           born, kind' = kind, attemptJournal' = attemptJournal, born' = born,
           failure' = fl, lock' = l, attemptDisk' = d,
           attemptProc' = [attemptProc EXCEPT ![p] = r],
           fl = failure \/ (Rank(fl.from) <= Rank(fl.frontier)
                            /\ Rank(fl.frontier) <= Cap(kind, Len(attemptJournal))),
           FilesGrow(attemptDisk, d),
           d["failure"] = attemptDisk["failure"] \/ Alone(attemptProc[p]),
           d = attemptDisk \/ Working(p),
           ProcessOk(kind, r, Len(attemptJournal), d), ResultStands(kind, Len(attemptJournal), d),
           Polite(p, r, l)
    PROVE  AttemptInv'
  <1>1. /\ kind \in Kinds /\ lock \in AttemptProcesses \cup {AttemptNobody}
        /\ attemptProc \in [AttemptProcesses -> AttemptRecs] /\ Exclusive
        /\ \A q \in AttemptProcesses :
              ProcessOk(kind, attemptProc[q], Len(attemptJournal), attemptDisk)
        /\ AttemptNobody \notin AttemptProcesses
    BY AttemptFacts
  <1>2. Records' = Records /\ Recs' = Recs
    BY DEF Records, FillRecords, EndRecords, Recs
  <1>4. \A q \in AttemptProcesses : attemptProc'[q] = IF q = p THEN r ELSE attemptProc[q]
    BY <1>1
  <1>5. AttemptShape'
    BY <1>1 DEF AttemptShape, AttemptInv, Polite
  <1>6. Begins(attemptJournal)'
    BY <1>2, Zenon DEF Begins, AttemptInv
  <1>7. Exclusive'
    <2>1. \A q \in AttemptProcesses : attemptProc'[q].mode # "idle" => born'
      OBVIOUS
    <2>2. ASSUME NEW q \in AttemptProcesses, attemptProc'[q].mode # "idle", lock' # q
          PROVE  attemptProc'[q].mode = "fresh" /\ attemptProc'[q].stage \in Ending
      <3>1. CASE q = p
        BY <1>4, <2>2, <3>1 DEF Polite
      <3>2. CASE q # p
        <4>1. attemptProc'[q] = attemptProc[q] /\ Working(q)
          BY <1>4, <2>2, <3>2 DEF Working
        <4>2. lock # q
          BY <1>1, <2>2, <3>2 DEF Polite
        <4> QED  BY <1>1, <4>1, <4>2 DEF Exclusive, Is
      <3> QED  BY <3>1, <3>2
    <2>3. ASSUME NEW a \in AttemptProcesses, NEW b \in AttemptProcesses,
                 Alone(attemptProc'[a]), a # b
          PROVE  attemptProc'[b].mode = "idle"
      <3>1. CASE a = p
        BY <1>1, <1>4, <2>3, <3>1 DEF Polite, Exclusive, Working
      <3>2. CASE b = p
        BY <1>1, <1>4, <2>3, <3>2 DEF Polite, Exclusive, Working
      <3>3. CASE a # p /\ b # p
        BY <1>1, <1>4, <2>3, <3>3 DEF Exclusive, Working
      <3> QED  BY <3>1, <3>2, <3>3
    <2> QED  BY <2>1, <2>2, <2>3 DEF Exclusive, Working, Is, Alone
  <1>8. ResultStands(kind, Len(attemptJournal), attemptDisk)'
    OBVIOUS
  <1>9. /\ Rank(failure'.from) <= Rank(failure'.frontier)
        /\ Rank(failure'.frontier) <= Cap(kind, Len(attemptJournal))
    BY DEF AttemptInv
  <1>10. ASSUME NEW q \in AttemptProcesses
         PROVE  ProcessOk(kind, attemptProc'[q], Len(attemptJournal), d)
    <2>1. CASE q = p
      BY <1>4, <2>1
    <2>2. CASE q # p
      <3>1. attemptProc'[q] = attemptProc[q]
        BY <1>4, <2>2
      <3>2. d["failure"] = attemptDisk["failure"] \/ attemptProc[q].mode = "idle"
        BY <1>1, <2>2 DEF Exclusive, Working
      <3>3. d = attemptDisk \/ ~Alone(attemptProc[q])
        BY <1>1, <2>2 DEF Exclusive
      <3> QED  BY <1>1, <3>1, <3>2, <3>3, OthersRest
    <2> QED  BY <2>1, <2>2
  <1> QED
    BY <1>5, <1>6, <1>7, <1>8, <1>9, <1>10 DEF AttemptInv
LEMMA SameFiles ==
    ASSUME AttemptInv
    PROVE  FilesGrow(attemptDisk, attemptDisk) /\ failure \in Failures
  BY AttemptFacts DEF FilesGrow

\* What is known of a process that works.
LEMMA WorkerIs ==
    ASSUME AttemptInv, NEW p \in AttemptProcesses, Working(p)
    PROVE  /\ born /\ attemptProc[p] \in AttemptRecs /\ attemptProc[p].mode # "idle"
           /\ Stands(kind, attemptProc[p], Len(attemptJournal))
           /\ Rests(kind, attemptProc[p], Len(attemptJournal), attemptDisk)
           /\ lock = p \/ (Is(p, "fresh") /\ attemptProc[p].stage \in Ending)
           /\ Alone(attemptProc[p]) => \A q \in AttemptProcesses : q # p => ~Working(q)
  BY AttemptFacts DEF ProcessOk, Exclusive, Working

\* A call that ends.
LEMMA AnswerKeeps ==
    ASSUME AttemptInv, NEW p \in AttemptProcesses,
           NEW ans \in {"none", "success", "failed", "refused", "died"},
           attemptProc' = [attemptProc EXCEPT ![p] = AttemptIdle(ans)], lock' = Unlocked(p),
           NEW d \in [AttemptFiles -> {"absent", "torn", "ok"}],
           born, kind' = kind, attemptJournal' = attemptJournal, born' = born,
           failure' = failure, attemptDisk' = d, FilesGrow(attemptDisk, d),
           d["failure"] = attemptDisk["failure"] \/ Alone(attemptProc[p]),
           d = attemptDisk \/ Working(p), ResultStands(kind, Len(attemptJournal), d)
    PROVE  AttemptInv'
  <1> DEFINE r == AttemptIdle(ans)
  <1>1. r \in AttemptRecs /\ r.mode = "idle"
    BY DEF AttemptIdle, AttemptRecs, Stages, FrontierNames
  <1>2. attemptProc' = [attemptProc EXCEPT ![p] = r] /\ lock' = Unlocked(p)
    OBVIOUS
  <1>3. ProcessOk(kind, r, Len(attemptJournal), d)
    BY <1>1 DEF ProcessOk
  <1>4. Polite(p, r, Unlocked(p))
    BY <1>1 DEF Polite, Unlocked, Alone
  <1> QED  BY <1>1, <1>2, <1>3, <1>4, SameFiles, OneMoves

\* A process that goes on: it keeps the lock, or gives it up when its execution is over.
LEMMA GoesOn ==
    ASSUME AttemptInv, NEW p \in AttemptProcesses, Working(p), NEW r \in AttemptRecs,
           NEW d \in [AttemptFiles -> {"absent", "torn", "ok"}], NEW fl \in Failures,
           kind' = kind, attemptJournal' = attemptJournal, born' = born,
           failure' = fl, attemptDisk' = d, attemptProc' = [attemptProc EXCEPT ![p] = r],
           lock' = lock \/ (lock' = Unlocked(p) /\ r.mode = "fresh" /\ r.stage \in Ending),
           r.mode = attemptProc[p].mode,
           r.stage \in Ending \/ attemptProc[p].stage \notin Ending,
           fl = failure \/ (Rank(fl.from) <= Rank(fl.frontier)
                            /\ Rank(fl.frontier) <= Cap(kind, Len(attemptJournal))),
           FilesGrow(attemptDisk, d), d["failure"] = attemptDisk["failure"] \/ Alone(attemptProc[p]),
           Stands(kind, r, Len(attemptJournal)), Rests(kind, r, Len(attemptJournal), d),
           ResultStands(kind, Len(attemptJournal), d)
    PROVE  AttemptInv'
  <1>1. Polite(p, r, lock')
    BY WorkerIs, AttemptFacts DEF Polite, Alone, Is, Unlocked
  <1>2. ProcessOk(kind, r, Len(attemptJournal), d)
    BY DEF ProcessOk
  <1>3. born
    BY WorkerIs
  <1> QED  BY <1>1, <1>2, <1>3, OneMoves

LEMMA StartKeeps ==
    ASSUME AttemptInv, NEW p \in AttemptProcesses, Start(p)
    PROVE  AttemptInv'
  <1> DEFINE n == Len(attemptJournal)
             r == Busy("fresh", "attempt_prepared")
  <1>1. /\ ~born /\ attemptJournal = <<>>
        /\ attemptDisk["failure"] = "absent" /\ attemptDisk["result"] = "absent"
    BY DEF Start, AttemptInv, AttemptShape, AttemptFiles
  <1>2. \A q \in AttemptProcesses : ~Working(q)
    BY <1>1, AttemptFacts DEF Exclusive
  <1>3. n = 0
    BY <1>1
  <1>4. r \in AttemptRecs
    BY <1>3 DEF Busy, AttemptRecs, Stages, FrontierNames
  <1>5. Stands(kind, r, n)
    <2>1. Cap(kind, 0) \in 2..5
      BY AttemptFacts, HeldGrows
    <2>2. /\ r.at = 1 /\ r.from = "attempt_prepared" /\ r.last = "attempt_prepared"
          /\ r.mode = "fresh"
      BY DEF Busy
    <2> QED  BY <1>3, <2>1, <2>2, AttemptFacts, RankIs DEF Stands
  <1>6. Rests(kind, r, n, attemptDisk)
    BY <1>1 DEF Rests, Busy, Ending, Publishing
  <1>7. r.mode = "fresh" /\ r.stage = "run"
    BY DEF Busy
  <1> HIDE DEF r
  <1>8. attemptProc' = [attemptProc EXCEPT ![p] = r] /\ lock' = p
        /\ UNCHANGED <<kind, attemptJournal, attemptDisk, failure>> /\ born'
    BY DEF Start, r
  <1>9. Records' = Records /\ Recs' = Recs
    BY <1>8 DEF Records, FillRecords, EndRecords, Recs
  <1>10. Begins(attemptJournal)'
    BY <1>8, <1>9, Zenon DEF Begins, AttemptInv
  <1>11. \A q \in AttemptProcesses : attemptProc'[q] = IF q = p THEN r ELSE attemptProc[q]
    BY <1>8, AttemptFacts
  <1>12. AttemptShape'
    BY <1>4, <1>8, AttemptFacts DEF AttemptShape
  <1>13. Exclusive'
    BY <1>2, <1>7, <1>8, <1>11 DEF Exclusive, Working, Is, Alone
  <1>14. ASSUME NEW q \in AttemptProcesses
         PROVE  ProcessOk(kind, attemptProc'[q], n, attemptDisk)
    BY <1>2, <1>5, <1>6, <1>11, AttemptFacts DEF ProcessOk
  <1> QED  BY <1>8, <1>10, <1>12, <1>13, <1>14 DEF AttemptInv

LEMMA ResumeKeeps ==
    ASSUME AttemptInv, NEW p \in AttemptProcesses, Resume(p)
    PROVE  AttemptInv'
  <1> DEFINE n == Len(attemptJournal)
  <1>1. /\ ~Working(p) /\ born /\ lock = AttemptNobody
        /\ UNCHANGED <<kind, attemptJournal, attemptDisk, failure, born>>
    BY DEF Resume
  <1>2. CASE ResumeMode \notin {"rebuild", "replay"}
    <2>1. AttemptAnswer(p, ResumeMode) /\ ResumeMode \in {"success", "refused"}
      BY <1>2 DEF Resume, ResumeMode
    <2> QED  BY <1>1, <2>1, AnswerKeeps, AttemptFacts, SameFiles DEF AttemptAnswer
  <1>3. CASE ResumeMode \in {"rebuild", "replay"}
    <2> DEFINE r == Busy(ResumeMode, PersistedFrontier)
    <2>1. attemptProc' = [attemptProc EXCEPT ![p] = r] /\ lock' = p
      BY <1>3 DEF Resume
    <2>2. /\ attemptDisk["failure"] = "absent" /\ attemptDisk["result"] = "absent"
          /\ ResumeMode = "rebuild" <=> AttemptIsTerminal
      BY <1>3 DEF ResumeMode
    <2>3. /\ PersistedFrontier = Held(kind, n) /\ n \in Nat /\ n <= Total(kind)
          /\ AttemptIsTerminal <=> kind # "rejected" /\ n = Total(kind)
      BY PersistedIs, TerminalIs, AttemptFacts
    <2>4. /\ Held(kind, n) \in FrontierNames /\ Rank(Held(kind, n)) \in 2..4
          /\ Rank(Held(kind, n)) <= Cap(kind, n)
      BY <2>3, HeldGrows, AttemptFacts
    <2>5. /\ r.mode = ResumeMode /\ r.stage = "run" /\ r.at = 1 /\ r.base = n
          /\ r.from = Held(kind, n) /\ r.last = Held(kind, n)
      BY <2>3 DEF Busy
    <2>6. r \in AttemptRecs
      BY <1>3, <2>3, <2>4 DEF Busy, AttemptRecs, Stages
    <2> HIDE DEF r
    <2>7. Stands(kind, r, n)
      <3>1. r.mode = "replay" =>
               \E m \in 0..n : r.from = Held(kind, m) /\ m <= r.base /\ (n = m \/ n = Before(kind, r.at))
        BY <2>3, <2>5
      <3> QED  BY <3>1, <1>3, <2>3, <2>4, <2>5, AttemptFacts DEF Stands
    <2>8. Rests(kind, r, n, attemptDisk)
      BY <1>3, <2>2, <2>3, <2>5 DEF Rests, Ending, Publishing
    <2>9. \A q \in AttemptProcesses : Working(q) => Is(q, "fresh") /\ attemptProc[q].stage \in Ending
      BY <1>1, AttemptFacts DEF Exclusive
    <2>10. \A q \in AttemptProcesses : Working(q) => ResumeMode = "rebuild"
      <3>1. ASSUME NEW q \in AttemptProcesses, Working(q) PROVE AttemptIsTerminal
        BY <2>3, <2>9, <3>1, WorkerIs DEF Rests
      <3> QED  BY <2>2, <3>1
    <2>11. Polite(p, r, p)
      BY <1>1, <1>3, <2>5, <2>9, <2>10 DEF Polite, Alone, Is, Working
    <2> QED
      BY <1>1, <2>1, <2>6, <2>7, <2>8, <2>11, OneMoves, AttemptFacts, SameFiles DEF ProcessOk
  <1> QED  BY <1>2, <1>3
\* The next item of a process that executes.
LEMMA ExecutesIs ==
    ASSUME AttemptInv, NEW p \in AttemptProcesses, NEW op, Executing(p, op)
    PROVE  LET q == attemptProc[p]
               n == Len(attemptJournal)
           IN  /\ q \in AttemptRecs /\ q.mode # "idle" /\ q.stage = "run" /\ Working(p) /\ born
               /\ Stands(kind, q, n) /\ Rests(kind, q, n, attemptDisk)
               /\ q.at \in 1..Size(kind) /\ ItemOk(q.at) /\ Program[q.at].op = op
               /\ q.at + 1 \in 1..Size(kind) + 1
               /\ Before(kind, q.at) \in 0..Total(kind) /\ Before(kind, q.at + 1) \in 0..Total(kind)
               /\ Item(p) = Program[q.at]
  <1>1. /\ Working(p) /\ attemptProc[p].stage = "run" /\ attemptProc[p].at <= Len(Program)
        /\ Program[attemptProc[p].at].op = op
    BY DEF Executing, At, Item
  <1>2. /\ Stands(kind, attemptProc[p], Len(attemptJournal)) /\ attemptProc[p] \in AttemptRecs
        /\ Rests(kind, attemptProc[p], Len(attemptJournal), attemptDisk)
        /\ attemptProc[p].mode # "idle" /\ born
    BY <1>1, WorkerIs
  <1>3. attemptProc[p].at \in 1..Size(kind)
    BY <1>1, <1>2, AttemptFacts DEF Stands
  <1>4. ItemOk(attemptProc[p].at)
    BY <1>3, Items, AttemptFacts
  <1>5. attemptProc[p].at + 1 \in 1..Size(kind) + 1
    BY <1>3, AttemptFacts
  <1> QED  BY <1>1, <1>2, <1>3, <1>4, <1>5, AttemptFacts DEF ItemOk, Item

\* A process that has passed an item which is not a record.
LEMMA Passes ==
    ASSUME AttemptInv, NEW p \in AttemptProcesses, NEW op, Executing(p, op),
           op \in {"frontier", "write"},
           NEW r \in AttemptRecs, r.at = attemptProc[p].at + 1, r.mode = attemptProc[p].mode,
           r.from = attemptProc[p].from, r.last = attemptProc[p].last, r.base = attemptProc[p].base
    PROVE  Stands(kind, r, Len(attemptJournal))
  <1>1. Before(kind, attemptProc[p].at + 1) = Before(kind, attemptProc[p].at)
    BY ExecutesIs DEF ItemOk
  <1>2. kind = "rejected" => attemptProc[p].at # 5 /\ Size(kind) = 5
    BY ExecutesIs DEF ItemOk, Size
  <1>3. /\ attemptProc[p].at + 1 \in 1..Size(kind) + 1 /\ attemptProc[p].at \in Nat
        /\ Stands(kind, attemptProc[p], Len(attemptJournal))
    BY ExecutesIs DEF AttemptRecs
  <1> QED  BY <1>1, <1>2, <1>3 DEF Stands

LEMMA AdvancedIs ==
    ASSUME AttemptInv, NEW p \in AttemptProcesses
    PROVE  /\ Advanced(p) = [attemptProc EXCEPT ![p] = [attemptProc[p] EXCEPT !.at = @ + 1, !.open = FALSE]]
           /\ Advanced(p)[p] = [attemptProc[p] EXCEPT !.at = @ + 1, !.open = FALSE]
           /\ Advanced(p)[p] \in AttemptRecs
  <1>1. attemptProc \in [AttemptProcesses -> AttemptRecs] /\ attemptProc[p] \in AttemptRecs
    BY AttemptFacts
  <1>2. Advanced(p) = [attemptProc EXCEPT ![p] = [attemptProc[p] EXCEPT !.at = @ + 1, !.open = FALSE]]
    BY <1>1 DEF Advanced
  <1>3. Advanced(p)[p] = [attemptProc[p] EXCEPT !.at = @ + 1, !.open = FALSE]
    BY <1>1, <1>2
  <1>4. ASSUME NEW q \in AttemptRecs
        PROVE  [q EXCEPT !.at = @ + 1, !.open = FALSE] \in AttemptRecs
    <2>1. q.at + 1 \in Nat
      BY DEF AttemptRecs
    <2>2. \A n \in Nat : [q EXCEPT !.at = n, !.open = FALSE] \in AttemptRecs
      BY DEF AttemptRecs
    <2> QED  BY <2>1, <2>2
  <1> QED  BY <1>1, <1>2, <1>3, <1>4

LEMMA FrontierKeeps ==
    ASSUME AttemptInv, NEW p \in AttemptProcesses, Frontier(p)
    PROVE  AttemptInv'
  <1> DEFINE n == Len(attemptJournal)
             q == attemptProc[p]
             a == Advanced(p)[p]
             news == Is(p, "fresh") \/ (Is(p, "replay") /\ n > a.base)
             name == Item(p).arg[1]
             r == IF news THEN [a EXCEPT !.last = name, !.base = n] ELSE a
  <1>1. Executing(p, "frontier")
    BY DEF Frontier
  <1>2. /\ q \in AttemptRecs /\ q.mode # "idle" /\ q.stage = "run" /\ Working(p)
        /\ Stands(kind, q, n) /\ Rests(kind, q, n, attemptDisk)
        /\ q.at \in 1..Size(kind) /\ ItemOk(q.at) /\ Program[q.at].op = "frontier"
        /\ Before(kind, q.at) \in 0..Total(kind) /\ Item(p) = Program[q.at]
    BY <1>1, ExecutesIs
  <1>3. /\ n \in Nat /\ n <= Total(kind) /\ attemptProc \in [AttemptProcesses -> AttemptRecs]
        /\ Total(kind) \in Nat
    BY AttemptFacts
  <1>4. /\ name \in FrontierNames /\ Rank(name) <= Cap(kind, Before(kind, q.at))
        /\ \A m \in 0..Total(kind) : m < Before(kind, q.at) => Rank(Held(kind, m)) <= Rank(name)
        /\ Rank(name) \in 1..5
    BY <1>2, RankIs, AttemptFacts DEF ItemOk, FrontierNames
  <1>5. a = [q EXCEPT !.at = @ + 1, !.open = FALSE] /\ a \in AttemptRecs
    BY AdvancedIs
  <1>6. Stands(kind, a, n)
    BY <1>1, <1>2, <1>5, Passes DEF AttemptRecs
  <1>7. Before(kind, q.at) <= n /\ Cap(kind, Before(kind, q.at)) <= Cap(kind, n)
        /\ Cap(kind, n) \in 2..5 /\ Cap(kind, Before(kind, q.at)) \in 2..5
    BY <1>2, <1>3, AttemptFacts, HeldGrows DEF Stands
  <1>8. Stands(kind, r, n) /\ r \in AttemptRecs
        /\ r.mode = q.mode /\ r.stage = q.stage
    <2>1. CASE ~news
      BY <1>2, <1>5, <1>6, <2>1 DEF AttemptRecs
    <2>2. CASE news
      <3>1. /\ r \in AttemptRecs /\ r.mode = q.mode /\ r.stage = q.stage /\ r.at = a.at
            /\ r.last = name /\ r.base = n /\ r.from = q.from
        BY <1>2, <1>3, <1>4, <1>5, <2>2 DEF AttemptRecs
      <3>2. Rank(q.from) <= Rank(name)
        <4>1. CASE q.mode = "fresh"
          BY <1>2, <1>4, <4>1, RankIs DEF Stands
        <4>2. CASE q.mode # "fresh"
          <5>1. q.mode = "replay" /\ n > q.base
            BY <1>5, <2>2, <4>2 DEF Is, AttemptRecs
          <5>2. PICK m \in 0..n : q.from = Held(kind, m) /\ m <= q.base /\ (n = m \/ n = Before(kind, q.at))
            BY <1>2, <5>1 DEF Stands
          <5>3. m < n /\ n = Before(kind, q.at) /\ m \in 0..Total(kind)
            BY <1>2, <1>3, <5>1, <5>2 DEF AttemptRecs
          <5> QED  BY <1>4, <5>2, <5>3
        <4> QED  BY <4>1, <4>2
      <3>3. Rank(name) <= Cap(kind, n)
        BY <1>4, <1>7
      <3>4. r.mode = "replay" =>
               \E m \in 0..n : r.from = Held(kind, m) /\ m <= r.base /\ (n = m \/ n = Before(kind, r.at))
        <4>1. ASSUME r.mode = "replay"
              PROVE  \E m \in 0..n : a.from = Held(kind, m) /\ m <= a.base
                                     /\ (n = m \/ n = Before(kind, a.at))
          BY <1>2, <1>5, <1>6, <3>1, <4>1 DEF Stands, AttemptRecs
        <4> QED  BY <1>3, <1>5, <3>1, <4>1 DEF AttemptRecs
      <3> HIDE DEF r, a, news, name
      <3>5. a.at \in 1..Size(kind) + 1 /\ Before(kind, a.at) <= n
            /\ (kind = "rejected" => a.at # Size(kind) + 1)
        BY <1>6 DEF Stands
      <3>6. r.mode = "fresh" => r.from = "attempt_prepared"
        BY <1>2, <3>1 DEF Stands
      <3> QED  BY <3>1, <3>2, <3>3, <3>4, <3>5, <3>6 DEF Stands
    <2> QED  BY <2>1, <2>2
  <1>9. attemptProc' = [attemptProc EXCEPT ![p] = r] /\ lock' = lock
        /\ UNCHANGED <<kind, attemptJournal, attemptDisk, failure, born>>
    BY DEF Frontier
  <1> HIDE DEF r, a, news, name
  <1>10. Rests(kind, r, n, attemptDisk)
    BY <1>2, <1>8 DEF Rests, Alone
  <1> QED  BY <1>2, <1>8, <1>9, <1>10, GoesOn, AttemptFacts, SameFiles DEF Ending, Publishing

LEMMA AppendKeeps ==
    ASSUME AttemptInv, NEW p \in AttemptProcesses, AttemptAppendRecord(p)
    PROVE  AttemptInv'
  <1> DEFINE n == Len(attemptJournal)
             q == attemptProc[p]
             r == Advanced(p)[p]
             rec == Item(p).arg
  <1>1. Executing(p, "append")
    BY DEF AttemptAppendRecord
  <1>2. /\ q \in AttemptRecs /\ q.mode # "idle" /\ q.stage = "run" /\ Working(p) /\ born
        /\ Stands(kind, q, n) /\ Rests(kind, q, n, attemptDisk)
        /\ q.at \in 1..Size(kind) /\ ItemOk(q.at) /\ Program[q.at].op = "append"
        /\ Before(kind, q.at) \in 0..Total(kind) /\ Before(kind, q.at + 1) \in 0..Total(kind)
        /\ Item(p) = Program[q.at] /\ q.at + 1 \in 1..Size(kind) + 1
    BY <1>1, ExecutesIs
  <1>3. /\ n \in Nat /\ n <= Total(kind) /\ attemptProc \in [AttemptProcesses -> AttemptRecs]
        /\ Total(kind) \in Nat /\ Len(Records) = Total(kind) /\ kind \in Kinds
        /\ Begins(attemptJournal)
    BY AttemptFacts
  <1>4. /\ Before(kind, q.at + 1) = Before(kind, q.at) + 1
        /\ rec = Records[Before(kind, q.at) + 1]
    BY <1>2 DEF ItemOk
  <1>5. r = [q EXCEPT !.at = @ + 1, !.open = FALSE] /\ r \in AttemptRecs
    BY AdvancedIs
  <1>6. /\ r.at = q.at + 1 /\ r.mode = q.mode /\ r.stage = "run" /\ r.from = q.from
        /\ r.last = q.last /\ r.base = q.base
    BY <1>2, <1>5 DEF AttemptRecs
  <1>7. /\ attemptProc' = [attemptProc EXCEPT ![p] = r] /\ lock' = lock
        /\ UNCHANGED <<kind, attemptDisk, failure, born>>
        /\ attemptJournal' = IF q.mode = "rebuild" \/ rec \in Range(attemptJournal)
                             THEN attemptJournal ELSE Append(attemptJournal, rec)
    <2>1. attemptProc' = [attemptProc EXCEPT ![p] = r]
      BY DEF AttemptAppendRecord, Advanced
    <2> QED  BY <2>1 DEF AttemptAppendRecord, Is
  <1>8. kind = "rejected" => r.at # Size(kind) + 1
    BY <1>2, <1>6 DEF ItemOk, Size
  <1>9. rec \in Range(attemptJournal) <=> Before(kind, q.at) + 1 <= n
    <2>1. Before(kind, q.at) + 1 \in 1..Len(Records)
      BY <1>2, <1>3, <1>4
    <2> QED  BY <1>3, <1>4, <2>1, JournalHas
  <1> HIDE DEF r, rec
  <1>10. CASE q.mode = "rebuild" \/ rec \in Range(attemptJournal)
    <2>1. attemptJournal' = attemptJournal
      BY <1>7, <1>10
    <2>2. Before(kind, q.at) + 1 <= n
      BY <1>2, <1>3, <1>4, <1>9, <1>10 DEF Rests
    <2>3. Stands(kind, r, n)
      <3>1. r.mode = "replay" =>
               \E m \in 0..n : r.from = Held(kind, m) /\ m <= r.base /\ (n = m \/ n = Before(kind, r.at))
        BY <1>2, <1>3, <1>6, <2>2 DEF Stands
      <3> QED  BY <1>2, <1>4, <1>6, <1>8, <2>2, <3>1 DEF Stands
    <2>4. Rests(kind, r, n, attemptDisk)
      BY <1>2, <1>6 DEF Rests, Alone
    <2> QED
      BY <1>2, <1>5, <1>6, <1>7, <2>1, <2>3, <2>4, GoesOn, AttemptFacts, SameFiles
         DEF Ending, Publishing
  <1>11. CASE ~(q.mode = "rebuild" \/ rec \in Range(attemptJournal))
    <2>1. attemptJournal' = Append(attemptJournal, rec) /\ n = Before(kind, q.at)
      BY <1>2, <1>3, <1>7, <1>9, <1>11 DEF Stands
    <2>2. Alone(q) /\ \A o \in AttemptProcesses : o # p => ~Working(o)
      <3>1. Alone(q)
        BY <1>2, <1>11 DEF Alone, AttemptRecs, Ending, Publishing
      <3> QED  BY <1>2, <3>1, WorkerIs
    <2>3. n + 1 \in 1..Total(kind) /\ rec = Records[n + 1]
      BY <1>2, <1>3, <1>4, <2>1
    <2>4. Records' = Records /\ Recs' = Recs
      BY <1>7 DEF Records, FillRecords, EndRecords, Recs
    <2>5. /\ attemptJournal' \in Seq(Recs) /\ Len(attemptJournal') = n + 1
          /\ \A i \in 1..n + 1 : attemptJournal'[i] = Records[i]
      <3>1. rec \in Recs
        BY <1>3, <2>3 DEF Recs
      <3>2. attemptJournal \in Seq(Recs) /\ \A i \in 1..n : attemptJournal[i] = Records[i]
        BY <1>3 DEF Begins
      <3> QED  BY <1>3, <2>1, <2>3, <3>1, <3>2
    <2>6. Begins(attemptJournal)'
      BY <1>3, <2>3, <2>4, <2>5 DEF Begins
    <2>7. \A o \in AttemptProcesses : attemptProc'[o] = IF o = p THEN r ELSE attemptProc[o]
      BY <1>3, <1>7
    <2>8. AttemptShape'
      BY <1>2, <1>5, <1>7, AttemptFacts DEF AttemptShape
    <2>9. Exclusive'
      BY <1>2, <1>6, <1>7, <2>2, <2>7, WorkerIs, AttemptFacts
         DEF Exclusive, Working, Is, Alone, Ending, Publishing
    <2>10. Cap(kind, n) <= Cap(kind, n + 1) /\ Cap(kind, n) \in 2..5 /\ Cap(kind, n + 1) \in 2..5
      BY <1>3, <2>3, HeldGrows
    <2>11. attemptDisk["result"] = "absent"
      BY <1>2, <2>2 DEF Rests
    <2>12. Stands(kind, r, n + 1)
      <3>1. r.mode = "replay" =>
               \E m \in 0..n + 1 : r.from = Held(kind, m) /\ m <= r.base
                                   /\ (n + 1 = m \/ n + 1 = Before(kind, r.at))
        BY <1>2, <1>3, <1>4, <1>6, <2>1 DEF Stands
      <3>2. Rank(q.last) \in 1..5
        BY <1>2, RankIs DEF AttemptRecs, FrontierNames
      <3> QED  BY <1>2, <1>3, <1>4, <1>6, <1>8, <2>1, <2>10, <3>1, <3>2 DEF Stands
    <2>13. Rests(kind, r, n + 1, attemptDisk)
      BY <1>2, <1>6, <1>11 DEF Rests, Alone, Ending, Publishing
    <2>14. /\ Rank(failure.from) <= Rank(failure.frontier)
           /\ Rank(failure.frontier) <= Cap(kind, n + 1)
      <3>1. Rank(failure.frontier) \in 1..5
        BY AttemptFacts, RankIs DEF Failures, FrontierNames
      <3> QED  BY <2>10, <3>1 DEF AttemptInv
    <2>15. ASSUME NEW o \in AttemptProcesses
           PROVE  ProcessOk(kind, attemptProc'[o], n + 1, attemptDisk)
      BY <2>2, <2>7, <2>12, <2>13 DEF ProcessOk, Working
    <2> QED
      BY <1>7, <2>5, <2>6, <2>8, <2>9, <2>11, <2>14, <2>15 DEF AttemptInv, ResultStands
  <1> QED  BY <1>10, <1>11
LEMMA GotoIs ==
    ASSUME AttemptInv, NEW p \in AttemptProcesses, NEW st \in Stages, Goto(p, st)
    PROVE  \E r \in AttemptRecs :
              /\ attemptProc' = [attemptProc EXCEPT ![p] = r] /\ r.stage = st
              /\ r.mode = attemptProc[p].mode /\ r.at = attemptProc[p].at
              /\ r.from = attemptProc[p].from /\ r.last = attemptProc[p].last
              /\ r.base = attemptProc[p].base
  <1> DEFINE q == attemptProc[p]
             r == [q EXCEPT !.stage = st, !.open = FALSE]
  <1>1. attemptProc \in [AttemptProcesses -> AttemptRecs] /\ q \in AttemptRecs
    BY AttemptFacts
  <1>2. attemptProc' = [attemptProc EXCEPT ![p] = r]
    BY <1>1 DEF Goto
  <1>3. \A x \in AttemptRecs : [x EXCEPT !.stage = st, !.open = FALSE] \in AttemptRecs
    BY DEF AttemptRecs
  <1>4. /\ r \in AttemptRecs /\ r.stage = st /\ r.mode = q.mode /\ r.at = q.at
        /\ r.from = q.from /\ r.last = q.last /\ r.base = q.base
    BY <1>1, <1>3 DEF AttemptRecs
  <1> QED  BY <1>2, <1>4

\* Its standing is that of its place in the program, whatever the stage.
LEMMA StandsOn ==
    ASSUME NEW k, NEW q, NEW r, NEW n, Stands(k, q, n), r.mode = q.mode, r.at = q.at,
           r.from = q.from, r.last = q.last, r.base = q.base
    PROVE  Stands(k, r, n)
  BY DEF Stands

LEMMA RejectedKeeps ==
    ASSUME AttemptInv, NEW p \in AttemptProcesses, Rejected(p)
    PROVE  AttemptInv'
  <1> DEFINE n == Len(attemptJournal)
             q == attemptProc[p]
             st == IF Is(p, "fresh") THEN "failaudit" ELSE "failure"
  <1>1. Executing(p, "reject") /\ Goto(p, st) /\ st \in Stages
        /\ UNCHANGED <<kind, attemptJournal, attemptDisk, lock, born>>
    BY DEF Rejected, Stages
  <1>2. /\ q \in AttemptRecs /\ q.mode # "idle" /\ q.stage = "run" /\ Working(p)
        /\ Stands(kind, q, n) /\ Rests(kind, q, n, attemptDisk) /\ kind = "rejected"
    BY <1>1, ExecutesIs DEF ItemOk
  <1>3. PICK r \in AttemptRecs :
              /\ attemptProc' = [attemptProc EXCEPT ![p] = r] /\ r.stage = st
              /\ r.mode = q.mode /\ r.at = q.at
              /\ r.from = q.from /\ r.last = q.last /\ r.base = q.base
    BY <1>1, GotoIs
  <1>4. PICK fl : fl = failure'
    OBVIOUS
  <1>5. fl \in Failures /\ fl.from = q.from /\ fl.frontier = q.last
    BY <1>2, <1>4 DEF Rejected, Failures, AttemptRecs
  <1>6. Rank(fl.from) <= Rank(fl.frontier) /\ Rank(fl.frontier) <= Cap(kind, n)
    BY <1>2, <1>5 DEF Stands
  <1>7. Stands(kind, r, n)
    BY <1>2, <1>3, StandsOn
  <1>8. Rests(kind, r, n, attemptDisk)
    BY <1>2, <1>3 DEF Rests, Alone, Ending, Publishing
  <1> QED
    BY <1>1, <1>2, <1>3, <1>4, <1>5, <1>6, <1>7, <1>8, GoesOn, AttemptFacts, SameFiles
       DEF Ending, Publishing

LEMMA FaultKeeps ==
    ASSUME AttemptInv, NEW p \in AttemptProcesses, AttemptFault(p)
    PROVE  AttemptInv'
  <1> DEFINE n == Len(attemptJournal)
             q == attemptProc[p]
  <1>1. PICK op \in {"append", "frontier"} : Executing(p, op)
    BY DEF AttemptFault
  <1>2. /\ q \in AttemptRecs /\ q.mode # "idle" /\ q.stage = "run" /\ Working(p) /\ born
        /\ Stands(kind, q, n) /\ Rests(kind, q, n, attemptDisk)
        /\ UNCHANGED <<kind, attemptJournal, attemptDisk, born>>
    BY <1>1, ExecutesIs DEF AttemptFault
  <1>3. CASE Is(p, "rebuild")
    <2>1. AttemptAnswer(p, "refused") /\ UNCHANGED failure
      BY <1>3 DEF AttemptFault
    <2> QED  BY <1>2, <2>1, AnswerKeeps, AttemptFacts, SameFiles DEF AttemptAnswer
  <1>4. CASE ~Is(p, "rebuild")
    <2>1. Goto(p, "failure") /\ UNCHANGED lock
      BY <1>4 DEF AttemptFault
    <2>2. PICK r \in AttemptRecs :
              /\ attemptProc' = [attemptProc EXCEPT ![p] = r] /\ r.stage = "failure"
              /\ r.mode = q.mode /\ r.at = q.at
              /\ r.from = q.from /\ r.last = q.last /\ r.base = q.base
      BY <2>1, GotoIs DEF Stages
    <2>3. PICK fl : fl = failure'
      OBVIOUS
    <2>4. fl \in Failures /\ fl.from = q.from /\ fl.frontier = q.last
      BY <1>2, <1>4, <2>3 DEF AttemptFault, Failures, AttemptRecs
    <2>5. Rank(fl.from) <= Rank(fl.frontier) /\ Rank(fl.frontier) <= Cap(kind, n)
      BY <1>2, <2>4 DEF Stands
    <2>6. Stands(kind, r, n)
      BY <1>2, <2>2, StandsOn
    <2>7. Rests(kind, r, n, attemptDisk)
      BY <1>2, <1>4, <2>2 DEF Rests, Alone, Ending, Publishing, Is
    <2> QED
      BY <1>2, <2>1, <2>2, <2>3, <2>4, <2>5, <2>6, <2>7, GoesOn, AttemptFacts, SameFiles
         DEF Ending, Publishing
  <1> QED  BY <1>3, <1>4

LEMMA ExecutedKeeps ==
    ASSUME AttemptInv, NEW p \in AttemptProcesses, Executed(p)
    PROVE  AttemptInv'
  <1> DEFINE n == Len(attemptJournal)
             q == attemptProc[p]
  <1>1. /\ Working(p) /\ q.stage = "run" /\ q.at > Len(Program) /\ Goto(p, "audit")
        /\ UNCHANGED <<kind, attemptJournal, attemptDisk, failure, born>>
        /\ lock' = IF Is(p, "fresh") THEN Unlocked(p) ELSE lock
    BY DEF Executed, At
  <1>2. /\ q \in AttemptRecs /\ q.mode # "idle" /\ Stands(kind, q, n)
        /\ Rests(kind, q, n, attemptDisk)
    BY <1>1, WorkerIs
  <1>3. q.at = Size(kind) + 1 /\ n = Total(kind) /\ kind # "rejected"
    <2>1. q.at = Size(kind) + 1
      BY <1>1, <1>2, AttemptFacts DEF Stands
    <2>2. n >= Total(kind)
      BY <1>2, <2>1, AttemptFacts DEF Stands
    <2> QED  BY <1>2, <2>1, <2>2, AttemptFacts DEF Stands
  <1>4. PICK r \in AttemptRecs :
              /\ attemptProc' = [attemptProc EXCEPT ![p] = r] /\ r.stage = "audit"
              /\ r.mode = q.mode /\ r.at = q.at
              /\ r.from = q.from /\ r.last = q.last /\ r.base = q.base
    BY <1>1, GotoIs DEF Stages
  <1>5. Stands(kind, r, n)
    BY <1>2, <1>4, StandsOn
  <1>6. Rests(kind, r, n, attemptDisk)
    BY <1>1, <1>2, <1>3, <1>4 DEF Rests, Alone, Ending, Publishing
  <1>7. lock' = lock \/ (lock' = Unlocked(p) /\ r.mode = "fresh" /\ r.stage \in Ending)
    BY <1>1, <1>4 DEF Is, Ending
  <1> QED
    BY <1>1, <1>4, <1>5, <1>6, <1>7, GoesOn, AttemptFacts, SameFiles DEF Ending

\* A file a process writes is the one of its item or of its stage.
LEMMA WritesIs ==
    ASSUME AttemptInv, NEW p \in AttemptProcesses, NEW f \in AttemptFiles, Writes(p, f)
    PROVE  LET q == attemptProc[p]
           IN  /\ Working(p) /\ q \in AttemptRecs /\ q.mode # "idle" /\ born
               /\ Stands(kind, q, Len(attemptJournal))
               /\ Rests(kind, q, Len(attemptJournal), attemptDisk)
               /\ \/ q.stage = "run" /\ f = "funding" /\ Executing(p, "write")
                  \/ q.stage = "audit" /\ f = "audit"
                  \/ q.stage = "funding" /\ f = "funding"
                  \/ q.stage = "pending" /\ f = "pending"
                  \/ q.stage = "marker" /\ f = "publication"
                  \/ q.stage = "failaudit" /\ f = "audit"
                  \/ q.stage = "failure" /\ f = "failure" /\ Alone(q)
  <1>1. Working(p)
    BY DEF Writes, Executing, At
  <1>2. /\ attemptProc[p] \in AttemptRecs /\ attemptProc[p].mode # "idle" /\ born
        /\ Stands(kind, attemptProc[p], Len(attemptJournal))
        /\ Rests(kind, attemptProc[p], Len(attemptJournal), attemptDisk)
    BY <1>1, WorkerIs
  <1>3. attemptProc[p].stage = "failure" => Alone(attemptProc[p])
    BY <1>2 DEF Rests, Alone, AttemptRecs, Ending, Publishing
  <1>4. CASE Executing(p, "write") /\ f = "funding"
    BY <1>1, <1>2, <1>4 DEF Executing, At
  <1>5. CASE \E st \in DOMAIN AttemptStages : At(p, st) /\ f = AttemptStages[st]
    <2>1. PICK st \in {"audit", "funding", "pending", "marker", "failaudit", "failure"} :
              attemptProc[p].stage = st /\ f = AttemptStages[st]
      BY <1>5 DEF AttemptStages, At
    <2> QED  BY <1>1, <1>2, <1>3, <2>1 DEF AttemptStages
  <1> QED  BY <1>4, <1>5 DEF Writes

LEMMA OpenFileKeeps ==
    ASSUME AttemptInv, NEW p \in AttemptProcesses, NEW f \in AttemptFiles, OpenFile(p, f)
    PROVE  AttemptInv'
  <1> DEFINE n == Len(attemptJournal)
             q == attemptProc[p]
             d == [attemptDisk EXCEPT ![f] = "torn"]
             r == [q EXCEPT !.open = TRUE]
  <1>1. /\ Writes(p, f) /\ attemptDisk[f] = "absent" /\ attemptDisk' = d
        /\ UNCHANGED <<kind, attemptJournal, failure, lock, born>>
    BY DEF OpenFile
  <1>2. /\ Working(p) /\ q \in AttemptRecs /\ q.mode # "idle" /\ born
        /\ Stands(kind, q, n) /\ Rests(kind, q, n, attemptDisk)
        /\ \/ q.stage = "run" /\ f = "funding"
           \/ q.stage = "audit" /\ f = "audit"
           \/ q.stage = "funding" /\ f = "funding"
           \/ q.stage = "pending" /\ f = "pending"
           \/ q.stage = "marker" /\ f = "publication"
           \/ q.stage = "failaudit" /\ f = "audit"
           \/ q.stage = "failure" /\ f = "failure" /\ Alone(q)
    BY <1>1, WritesIs
  <1>3. attemptDisk \in [AttemptFiles -> {"absent", "torn", "ok"}]
        /\ attemptProc \in [AttemptProcesses -> AttemptRecs]
        /\ ResultStands(kind, n, attemptDisk)
    BY AttemptFacts
  <1>4. /\ d \in [AttemptFiles -> {"absent", "torn", "ok"}]
        /\ \A g \in AttemptFiles : d[g] = IF g = f THEN "torn" ELSE attemptDisk[g]
    BY <1>3
  <1>5. attemptProc' = [attemptProc EXCEPT ![p] = r]
    BY <1>3 DEF OpenFile
  <1>6. /\ r \in AttemptRecs /\ r.stage = q.stage /\ r.mode = q.mode /\ r.at = q.at
        /\ r.from = q.from /\ r.last = q.last /\ r.base = q.base
    BY <1>2 DEF AttemptRecs
  <1> HIDE DEF d, r
  <1>7. FilesGrow(attemptDisk, d)
    BY <1>1, <1>2, <1>4 DEF FilesGrow, AttemptFiles
  <1>8. d["failure"] = attemptDisk["failure"] \/ Alone(q)
    BY <1>2, <1>4 DEF AttemptFiles
  <1>9. Stands(kind, r, n)
    BY <1>2, <1>6, StandsOn
  <1>10. Rests(kind, r, n, d)
    BY <1>1, <1>2, <1>4, <1>6 DEF Rests, Alone, AttemptFiles, Ending, Publishing
  <1>11. ResultStands(kind, n, d)
    BY <1>1, <1>2, <1>3, <1>4 DEF ResultStands, Rests, AttemptFiles
  <1> QED
    BY <1>1, <1>2, <1>4, <1>5, <1>6, <1>7, <1>8, <1>9, <1>10, <1>11, GoesOn, SameFiles
\* A file that is complete moves its writer on.
LEMMA WrittenKeeps ==
    ASSUME AttemptInv, NEW p \in AttemptProcesses, NEW f \in AttemptFiles, Writes(p, f), Written(p),
           NEW d \in [AttemptFiles -> {"absent", "torn", "ok"}], d[f] = "ok",
           \A g \in AttemptFiles : g # f => d[g] = attemptDisk[g],
           attemptDisk' = d, UNCHANGED <<kind, attemptJournal, failure, born>>
    PROVE  AttemptInv'
  <1> DEFINE n == Len(attemptJournal)
             q == attemptProc[p]
  <1>1. /\ Working(p) /\ q \in AttemptRecs /\ q.mode # "idle" /\ born
        /\ Stands(kind, q, n) /\ Rests(kind, q, n, attemptDisk)
        /\ \/ q.stage = "run" /\ f = "funding" /\ Executing(p, "write")
           \/ q.stage = "audit" /\ f = "audit"
           \/ q.stage = "funding" /\ f = "funding"
           \/ q.stage = "pending" /\ f = "pending"
           \/ q.stage = "marker" /\ f = "publication"
           \/ q.stage = "failaudit" /\ f = "audit"
           \/ q.stage = "failure" /\ f = "failure" /\ Alone(q)
    BY WritesIs
  <1>2. FilesGrow(attemptDisk, d)
    BY <1>1 DEF FilesGrow, AttemptFiles
  <1>3. d["failure"] = attemptDisk["failure"] \/ Alone(q)
    BY <1>1 DEF AttemptFiles
  <1>4. ResultStands(kind, n, d)
    BY <1>1, AttemptFacts DEF ResultStands, Rests, AttemptFiles
  <1>5. CASE q.stage = "failure"
    <2>1. attemptProc' = [attemptProc EXCEPT ![p] = AttemptIdle("failed")] /\ lock' = Unlocked(p)
      BY <1>1, <1>5 DEF Written, At
    <2> QED  BY <1>1, <1>2, <1>3, <1>4, <2>1, AnswerKeeps
  <1>6. CASE q.stage = "run"
    <2> DEFINE r == [q EXCEPT !.at = @ + 1, !.open = FALSE]
    <2>1. attemptProc' = [attemptProc EXCEPT ![p] = r] /\ r \in AttemptRecs /\ lock' = lock
      <3>1. attemptProc' = Advanced(p) /\ lock' = lock
        BY <1>1, <1>6 DEF Written, At
      <3> QED  BY <3>1, AdvancedIs
    <2>2. /\ r.at = q.at + 1 /\ r.mode = q.mode /\ r.stage = q.stage
          /\ r.from = q.from /\ r.last = q.last /\ r.base = q.base
      BY <1>1 DEF AttemptRecs
    <2> HIDE DEF r
    <2>3. Stands(kind, r, n)
      BY <1>1, <1>6, <2>1, <2>2, Passes
    <2>4. Rests(kind, r, n, d)
      BY <1>1, <1>6, <2>2 DEF Rests, Alone, AttemptFiles, Ending, Publishing
    <2> QED  BY <1>1, <1>2, <1>3, <1>4, <2>1, <2>2, <2>3, <2>4, GoesOn, SameFiles
  <1>7. CASE q.stage \notin {"failure", "run"}
    <2> DEFINE r == [q EXCEPT !.stage = After[@], !.open = FALSE]
    <2>1. /\ q.stage = "audit" => After[q.stage] = "funding"
          /\ q.stage = "funding" => After[q.stage] = "check"
          /\ q.stage = "pending" => After[q.stage] = "marker"
          /\ q.stage = "marker" => After[q.stage] = "rename"
          /\ q.stage = "failaudit" => After[q.stage] = "failure"
      BY DEF After
    <2>2. After[q.stage] \in Stages
      BY <1>1, <1>7, <2>1 DEF Stages
    <2>3. attemptProc' = [attemptProc EXCEPT ![p] = r] /\ lock' = lock
      BY <1>7, AttemptFacts DEF Written, At
    <2>4. \A x \in AttemptRecs, st \in Stages : [x EXCEPT !.stage = st, !.open = FALSE] \in AttemptRecs
      BY DEF AttemptRecs
    <2>5. /\ r \in AttemptRecs /\ r.at = q.at /\ r.mode = q.mode /\ r.stage = After[q.stage]
          /\ r.from = q.from /\ r.last = q.last /\ r.base = q.base
      BY <1>1, <2>2, <2>4 DEF AttemptRecs
    <2> HIDE DEF r
    <2>6. Stands(kind, r, n)
      BY <1>1, <2>5, StandsOn
    <2>7. Rests(kind, r, n, d)
      BY <1>1, <1>7, <2>1, <2>5 DEF Rests, Alone, AttemptFiles, Ending, Publishing
    <2>8. r.stage \in Ending \/ q.stage \notin Ending
      BY <1>1, <1>7, <2>1, <2>5 DEF Ending, Publishing
    <2> QED  BY <1>1, <1>2, <1>3, <1>4, <2>3, <2>5, <2>6, <2>7, <2>8, GoesOn, SameFiles
  <1> QED  BY <1>5, <1>6, <1>7

LEMMA SyncFileKeeps ==
    ASSUME AttemptInv, NEW p \in AttemptProcesses, NEW f \in AttemptFiles, SyncFile(p, f)
    PROVE  AttemptInv'
  <1> DEFINE d == [attemptDisk EXCEPT ![f] = "ok"]
  <1>1. /\ d \in [AttemptFiles -> {"absent", "torn", "ok"}] /\ d[f] = "ok"
        /\ \A g \in AttemptFiles : g # f => d[g] = attemptDisk[g]
    BY AttemptFacts
  <1>2. /\ attemptDisk' = d /\ Writes(p, f) /\ Written(p)
        /\ UNCHANGED <<kind, attemptJournal, failure, born>>
    BY DEF SyncFile
  <1> QED  BY <1>1, <1>2, WrittenKeeps

LEMMA VerifyFileKeeps ==
    ASSUME AttemptInv, NEW p \in AttemptProcesses, NEW f \in AttemptFiles, VerifyFile(p, f)
    PROVE  AttemptInv'
  <1>1. /\ Writes(p, f) /\ UNCHANGED <<kind, attemptJournal, attemptDisk, failure, born>>
        /\ attemptDisk \in [AttemptFiles -> {"absent", "torn", "ok"}]
    BY AttemptFacts DEF VerifyFile
  <1>2. CASE attemptDisk[f] = "ok" /\ f # "publication"
    BY <1>1, <1>2, WrittenKeeps DEF VerifyFile
  <1>3. CASE ~(attemptDisk[f] = "ok" /\ f # "publication")
    <2>1. AttemptAnswer(p, "refused")
      BY <1>3 DEF VerifyFile
    <2> QED  BY <1>1, <2>1, WritesIs, AnswerKeeps, AttemptFacts, SameFiles DEF AttemptAnswer
  <1> QED  BY <1>2, <1>3

LEMMA PublishCheckKeeps ==
    ASSUME AttemptInv, NEW p \in AttemptProcesses, PublishCheck(p)
    PROVE  AttemptInv'
  <1> DEFINE n == Len(attemptJournal)
             q == attemptProc[p]
  <1>1. /\ Working(p) /\ q.stage = "check"
        /\ UNCHANGED <<kind, attemptJournal, attemptDisk, failure, born>>
    BY DEF PublishCheck, At
  <1>2. CASE attemptDisk["result"] = "absent"
    <2>1. Goto(p, "pending") /\ lock' = lock
      BY <1>2 DEF PublishCheck
    <2>2. PICK r \in AttemptRecs :
              /\ attemptProc' = [attemptProc EXCEPT ![p] = r] /\ r.stage = "pending"
              /\ r.mode = q.mode /\ r.at = q.at
              /\ r.from = q.from /\ r.last = q.last /\ r.base = q.base
      BY <2>1, GotoIs DEF Stages
    <2>3. Stands(kind, r, n)
      BY <1>1, <2>2, WorkerIs, StandsOn
    <2>4. Rests(kind, r, n, attemptDisk)
      BY <1>1, <2>2, WorkerIs DEF Rests, Alone, Ending, Publishing
    <2> QED
      BY <1>1, <2>1, <2>2, <2>3, <2>4, GoesOn, AttemptFacts, SameFiles DEF Ending, Publishing
  <1>3. CASE attemptDisk["result"] # "absent"
    <2>1. PICK ans \in {"success", "refused"} : AttemptAnswer(p, ans)
      BY <1>3 DEF PublishCheck
    <2> QED  BY <1>1, <2>1, WorkerIs, AnswerKeeps, AttemptFacts, SameFiles DEF AttemptAnswer
  <1> QED  BY <1>2, <1>3

LEMMA PublishRenameKeeps ==
    ASSUME AttemptInv, NEW p \in AttemptProcesses, PublishRename(p)
    PROVE  AttemptInv'
  <1> DEFINE n == Len(attemptJournal)
             q == attemptProc[p]
  <1>1. /\ Working(p) /\ q.stage = "rename" /\ UNCHANGED <<kind, attemptJournal, failure, born>>
    BY DEF PublishRename, At
  <1>2. CASE ~(attemptDisk["result"] = "absent" /\ attemptDisk["pending"] # "absent")
    <2>1. AttemptAnswer(p, "refused") /\ attemptDisk' = attemptDisk
      BY <1>2 DEF PublishRename
    <2> QED  BY <1>1, <2>1, WorkerIs, AnswerKeeps, AttemptFacts, SameFiles DEF AttemptAnswer
  <1>3. CASE attemptDisk["result"] = "absent" /\ attemptDisk["pending"] # "absent"
    <2> DEFINE d == [attemptDisk EXCEPT !["result"] = attemptDisk["pending"], !["pending"] = "absent"]
    <2>1. Goto(p, "unlink") /\ lock' = lock /\ attemptDisk' = d
      BY <1>3 DEF PublishRename
    <2>2. PICK r \in AttemptRecs :
              /\ attemptProc' = [attemptProc EXCEPT ![p] = r] /\ r.stage = "unlink"
              /\ r.mode = q.mode /\ r.at = q.at
              /\ r.from = q.from /\ r.last = q.last /\ r.base = q.base
      BY <2>1, GotoIs DEF Stages
    <2>3. Rests(kind, q, n, attemptDisk) /\ Stands(kind, q, n)
      BY <1>1, WorkerIs
    <2>4. attemptDisk["pending"] = "ok" /\ attemptDisk["audit"] = "ok" /\ attemptDisk["funding"] = "ok"
          /\ attemptDisk["failure"] = "absent" /\ n = Total(kind) /\ kind # "rejected"
      BY <1>1, <1>3, <2>3 DEF Rests, Ending, Publishing
    <2>5. /\ d \in [AttemptFiles -> {"absent", "torn", "ok"}]
          /\ d["result"] = "ok" /\ d["audit"] = "ok" /\ d["funding"] = "ok" /\ d["failure"] = "absent"
      BY <2>4, AttemptFacts DEF AttemptFiles
    <2> HIDE DEF d
    <2>6. Stands(kind, r, n)
      BY <2>2, <2>3, StandsOn
    <2>7. Rests(kind, r, n, d)
      BY <2>2, <2>3, <2>4, <2>5 DEF Rests, Alone, Ending, Publishing
    <2>8. FilesGrow(attemptDisk, d) /\ ResultStands(kind, n, d)
      BY <2>4, <2>5 DEF FilesGrow, ResultStands
    <2>9. r.stage \in Ending
      BY <2>2 DEF Ending, Publishing
    <2> QED
      BY <1>1, <2>1, <2>2, <2>4, <2>5, <2>6, <2>7, <2>8, <2>9, GoesOn, SameFiles
  <1> QED  BY <1>2, <1>3

LEMMA PublishUnlinkKeeps ==
    ASSUME AttemptInv, NEW p \in AttemptProcesses, PublishUnlink(p)
    PROVE  AttemptInv'
  <1> DEFINE d == [attemptDisk EXCEPT !["publication"] = "absent"]
  <1>1. /\ Working(p) /\ attemptDisk' = d /\ UNCHANGED <<kind, attemptJournal, failure, born>>
    BY DEF PublishUnlink, At
  <1>2. PICK ans \in {"success", "refused"} : AttemptAnswer(p, ans)
    BY DEF PublishUnlink
  <1>3. /\ d \in [AttemptFiles -> {"absent", "torn", "ok"}]
        /\ \A g \in AttemptFiles : g # "publication" => d[g] = attemptDisk[g]
    BY AttemptFacts
  <1> HIDE DEF d
  <1>4. FilesGrow(attemptDisk, d) /\ d["failure"] = attemptDisk["failure"]
        /\ ResultStands(kind, Len(attemptJournal), d)
    BY <1>3, AttemptFacts DEF FilesGrow, ResultStands, AttemptFiles
  <1> QED  BY <1>1, <1>2, <1>3, <1>4, WorkerIs, AnswerKeeps DEF AttemptAnswer

LEMMA DieKeeps ==
    ASSUME AttemptInv, NEW p \in AttemptProcesses, Die(p)
    PROVE  AttemptInv'
  <1>1. /\ Working(p) /\ AttemptAnswer(p, "died")
        /\ UNCHANGED <<kind, attemptJournal, attemptDisk, failure, born>>
    BY DEF Die
  <1> QED  BY <1>1, WorkerIs, AnswerKeeps, AttemptFacts, SameFiles DEF AttemptAnswer

LEMMA AttemptStutters == ASSUME AttemptInv, UNCHANGED attemptVars PROVE AttemptInv'
  <1>1. UNCHANGED <<kind, attemptJournal, attemptDisk, failure, lock, attemptProc, born>>
    BY DEF attemptVars
  <1>2. Records' = Records /\ Recs' = Recs
    BY <1>1 DEF Records, FillRecords, EndRecords, Recs
  <1>3. Begins(attemptJournal)'
    BY <1>1, <1>2, Zenon DEF Begins, AttemptInv
  <1>4. AttemptShape'
    BY <1>1 DEF AttemptInv, AttemptShape
  <1>5. Exclusive'
    BY <1>1 DEF AttemptInv, Exclusive, Working, Is
  <1> QED  BY <1>1, <1>3, <1>4, <1>5 DEF AttemptInv

LEMMA AttemptStarts == AttemptInit => AttemptInv
  <1> SUFFICES ASSUME AttemptInit PROVE AttemptInv
    OBVIOUS
  <1>1. kind \in Kinds /\ attemptJournal = <<>> /\ failure.frontier = "attempt_prepared"
        /\ failure.from = "attempt_prepared" /\ attemptDisk["result"] = "absent"
    BY DEF AttemptInit, AttemptFiles
  <1>2. \A p \in AttemptProcesses : attemptProc[p] = AttemptIdle("none")
    BY DEF AttemptInit
  <1>3. AttemptIdle("none") \in AttemptRecs /\ AttemptIdle("none").mode = "idle"
    BY DEF AttemptIdle, AttemptRecs, Stages, FrontierNames
  <1>4. AttemptShape
    BY <1>3 DEF AttemptInit, AttemptShape, AttemptNobody, Failures, FrontierNames
  <1>5. Len(Records) = Total(kind) /\ Total(kind) \in Nat
    BY <1>1, SizesAre, AttemptKind DEF Total
  <1>6. Begins(attemptJournal) /\ Len(attemptJournal) = 0
    BY <1>1, <1>5 DEF Begins
  <1>7. Rank("attempt_prepared") = 1 /\ Cap(kind, 0) \in 2..5
    BY <1>1, <1>5, HeldGrows, RankIs
  <1>8. Exclusive
    BY <1>2, <1>3 DEF Exclusive, Working, Alone, Is
  <1> QED  BY <1>1, <1>2, <1>3, <1>4, <1>6, <1>7, <1>8 DEF AttemptInv, ResultStands, ProcessOk

LEMMA AttemptKept == AttemptInv /\ [AttemptNext]_attemptVars => AttemptInv'
  <1> SUFFICES ASSUME AttemptInv, [AttemptNext]_attemptVars PROVE AttemptInv'
    OBVIOUS
  <1>1. CASE UNCHANGED attemptVars
    BY <1>1, AttemptStutters
  <1>2. CASE AttemptNext
    <2>1. PICK p \in AttemptProcesses : Start(p) \/ Resume(p) \/ AttemptStep(p) \/ AttemptFault(p) \/ Die(p)
      BY <1>2 DEF AttemptNext
    <2>2. CASE AttemptStep(p)
      BY <2>2, AppendKeeps, FrontierKeeps, RejectedKeeps, ExecutedKeeps, OpenFileKeeps,
         SyncFileKeeps, VerifyFileKeeps, PublishCheckKeeps, PublishRenameKeeps, PublishUnlinkKeeps
         DEF AttemptStep
    <2> QED  BY <2>1, <2>2, StartKeeps, ResumeKeeps, FaultKeeps, DieKeeps
  <1> QED  BY <1>1, <1>2

LEMMA AttemptMeansSafe == AttemptInv => AttemptSafe
  <1> SUFFICES ASSUME AttemptInv PROVE AttemptSafe
    OBVIOUS
  <1> DEFINE n == Len(attemptJournal)
  <1>1. /\ n \in Nat /\ n <= Total(kind) /\ Len(Records) = Total(kind) /\ Total(kind) \in Nat
        /\ attemptJournal \in Seq(Recs) /\ \A i \in 1..n : attemptJournal[i] = Records[i]
        /\ kind \in Kinds /\ Begins(attemptJournal)
    BY AttemptFacts DEF Begins
  <1>2. Records \in Seq(Recs)
    <2> DEFINE S == {<<"prepared", 0>>, <<"fact", 1>>, <<"handoff", 1>>, <<"completed", 1>>,
                     <<"fact", 2>>, <<"handoff", 2>>, <<"completed", 2>>, <<"position", 0>>,
                     <<"cash", 0>>, <<"terminal", 0>>, <<"window", 0>>}
    <2>1. /\ << <<"prepared", 0>> >> \in Seq(S) /\ EndRecords \in Seq(S)
          /\ FillRecords(1) \in Seq(S) /\ FillRecords(2) \in Seq(S)
          /\ << <<"position", 0>> >> \in Seq(S) /\ << <<"window", 0>> >> \in Seq(S)
      BY DEF EndRecords, FillRecords
    <2> HIDE DEF S
    <2>2. Records \in Seq(S)
      BY <1>1, <2>1, AttemptKind DEF Records
    <2>3. Records = [i \in 1..Len(Records) |-> Records[i]]
      BY <2>2
    <2> QED  BY <1>1, <2>3 DEF Recs
  <1>3. EffectsOnce
    <2>1. SubSeq(attemptJournal, 1, n) = SubSeq(Records, 1, n)
      BY <1>1, <1>2
    <2> QED  BY <1>1, <2>1 DEF EffectsOnce, IsPrefix
  <1>4. n = Total(kind) => attemptJournal = Records
    BY <1>1, <1>2
  <1>5. SuccessIsProven
    BY <1>4, AttemptFacts DEF SuccessIsProven, ResultStands
  <1>6. FrontierIsHonest
    <2>1. /\ PersistedFrontier = Held(kind, n)
          /\ AttemptIsTerminal <=> kind # "rejected" /\ n = Total(kind)
      BY <1>1, PersistedIs, TerminalIs
    <2>2. Rank(failure.from) \in 1..5 /\ Rank(failure.frontier) \in 1..5 /\ Rank(Held(kind, n)) \in 2..4
      BY <1>1, HeldGrows, RankIs, AttemptFacts DEF Failures, FrontierNames
    <2> QED  BY <2>1, <2>2 DEF FrontierIsHonest, Cap, AttemptInv
  <1>7. AttemptTypeOK
    BY DEF AttemptTypeOK, AttemptInv, AttemptShape, AttemptRecs, Failures
  <1> QED  BY <1>3, <1>5, <1>6, <1>7 DEF AttemptSafe

\* However often a backtest attempt is interrupted and resumed, by however many processes:
\* its journal is the beginning of the one nothing interrupts, a result rests on the
\* terminal journal and the complete files, and failure.json claims no frontier the journal
\* does not hold.
THEOREM AttemptIsSafe == AttemptSpec => []AttemptSafe
  <1>1. AttemptSpec => []AttemptInv
    BY AttemptStarts, AttemptKept, PTL DEF AttemptSpec
  <1> QED  BY <1>1, AttemptMeansSafe, PTL

-----------------------------------------------------------------------------
(***************************************************************************)
(* The paper components side by side.                                      *)
(***************************************************************************)
\* A step of the composition is a step of one component.
LEMMA PaperComponentsRun == PaperSpec => JournalSpec /\ StoreSpec /\ AttemptSpec
  <1>1. PaperInit => JournalInit /\ StoreInit /\ AttemptInit
    BY DEF PaperInit
  <1>2. [PaperNext]_paperVars => [JournalNext]_journalVars /\ [StoreNext]_storeVars
                            /\ [AttemptNext]_attemptVars
    <2>1. CASE UNCHANGED paperVars
      BY <2>1 DEF paperVars
    <2>2. CASE PaperNext
      BY <2>2 DEF PaperNext, JournalMoves, StoreMoves, AttemptMoves, FileMoves,
                  SourceMoves, BarsMoves, SessionMoves, BackupMoves, AlertMoves, GateMoves,
                  StreamMoves
    <2> QED BY <2>1, <2>2
  <1> QED BY <1>1, <1>2, PTL DEF PaperSpec, JournalSpec, StoreSpec, AttemptSpec

\* The composition keeps the state properties of its components.
THEOREM PaperIsSafe == PaperSpec => [](JournalSafe /\ ResultSafe /\ AttemptSafe)
  BY PaperComponentsRun, JournalIsSafe, ResultIsSafe, AttemptIsSafe, PTL

\* In the composition, no process starts to write over an attempt that ended, and none
\* assembles a lifecycle again once its replay had begun and failed.
THEOREM PaperResumesOnce == PaperSpec => EndedIsNotResumed /\ FailedReplayIsFinal
  BY PaperComponentsRun, EndedStays, FailedReplayStays
=============================================================================
