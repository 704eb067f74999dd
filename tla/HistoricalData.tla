--------------------------- MODULE HistoricalData ---------------------------
(***************************************************************************)
(* Historical market data, as a run reads it and as the adapter brings it: *)
(* the first part is the strict capture and the source that replays it,    *)
(* the second the paged bar adapter that such a capture can come from.     *)
(* They share no state; each has its own specification.                    *)
(***************************************************************************)
EXTENDS Integers, Sequences, FiniteSets, SequencesExt

-----------------------------------------------------------------------------
(***************************************************************************)
(* The historical market-data source (data/historical.py, with the         *)
(* ordering and visibility rules of core/market_data.py and the selection  *)
(* of data/fingerprint.py): a strict capture is decoded and validated      *)
(* whole, a replay window selects from it, and admissions walk the         *)
(* selection in knowledge order behind cursors that the source issued.     *)
(*                                                                         *)
(* A row is one revision of one bar: the bar is the time its interval      *)
(* ends, prices are abstracted, and a capture is a set of rows, since the  *)
(* decoder refuses two rows of one record key.  A row that is not readable *)
(* stands for every refusal of the parser.  One venue, symbol and source.  *)
(*                                                                         *)
(* The second part is the reading of the capture file itself, which others *)
(* may rewrite, replace or remove meanwhile (_read_phase1_capture): the    *)
(* path is examined, opened without following links, read in pieces, and   *)
(* examined again; anything that moved in between refuses the read.  A     *)
(* file is an inode holding two pieces, each of some version; every write  *)
(* moves the modification time, which the file system keeps in             *)
(* nanoseconds.                                                            *)
(***************************************************************************)

CONSTANTS
    Inodes,        \* inode numbers
    Versions,      \* contents a writer writes
    MaxWrites,     \* bound on what others do to the file during one read
    Rows,          \* candidate rows
    MaxRows,       \* the most rows of a capture
    Windows,       \* replay windows: records of from (inclusive) and to (exclusive)
    SourceMaxTime  \* the last instant of a clock

ASSUME CaptureFileAssumption ==
    /\ Inodes \subseteq Nat \ {0}
    /\ Inodes # {}
    /\ MaxWrites \in Nat

ASSUME HistoricalSourceAssumption ==
    /\ MaxRows \in Nat
    /\ SourceMaxTime \in Nat
    /\ \A w \in Windows : w.from < w.to

VARIABLES
    stage,        \* "none", "refused" or "ready"
    capture,      \* the decoded rows
    sourceClock,  \* what the injected clock shows: it may be set back
    cursor,       \* the cursor the caller holds
    admitted,     \* what was handed out along that cursor
    drained,      \* the last admission was not cut short by its limit
    reply         \* how the last call ended

sourceVars == <<stage, capture, sourceClock, cursor, admitted, drained, reply>>

NoCursor == [window |-> [from |-> 0, to |-> 0], asOf |-> 0, count |-> 0]

-----------------------------------------------------------------------------
(* Decoding.                                                               *)

(* The file, the CSV and the row grammar. *)
Readable(rows) ==
    /\ rows # {}
    /\ Cardinality(rows) <= MaxRows
    /\ \A r \in rows : r.readable

(* _event_from_row: a bar is not known before its interval ends. *)
KnownAfterItsEnd(r) == r.bar <= r.available

(* _validate_complete_history: one row per revision, one emission per      *)
(* sequence number, and revisions of a bar in the order they became known. *)
RevisionsInOrder(earlier, later) ==
    /\ earlier.available <= later.available
    /\ earlier.sequence < later.sequence

CompleteHistory(rows) ==
    \A a, b \in rows :
        a # b =>
            /\ <<a.bar, a.revision>> # <<b.bar, b.revision>>
            /\ a.sequence # b.sequence
            /\ (a.bar = b.bar /\ a.revision < b.revision) => RevisionsInOrder(a, b)

Decodes(rows) ==
    /\ Readable(rows)
    /\ \A r \in rows : KnownAfterItsEnd(r)
    /\ CompleteHistory(rows)

(* admission_order_key: knowledge time, then event time, then emission. *)
Precedes(a, b) ==
    \/ a.available < b.available
    \/ a.available = b.available /\ a.bar < b.bar
    \/ a.available = b.available /\ a.bar = b.bar /\ a.sequence < b.sequence

(* order_market_data and select_and_fingerprint_market_data. *)
SourceSelected(rows, w) == {r \in rows : w.from <= r.available /\ r.available < w.to}

Selection(rows, w) == SetToSortSeq(SourceSelected(rows, w), Precedes)

(* is_visible_as_of *)
Visible(r, t) == r.bar <= t /\ r.available <= t

(* latest_as_of: the highest visible revision of every bar. *)
LatestAsOf(rows, t) ==
    {r \in rows : /\ Visible(r, t)
                  /\ \A o \in rows : (o.bar = r.bar /\ Visible(o, t)) => o.revision <= r.revision}

-----------------------------------------------------------------------------
(* The cursor.  Its last event is the count-th of its selection; its       *)
(* window and the selection's fingerprint bind it to one source.           *)

\* Mutant of CursorValid: the binding of the cursor is not compared.
CursorUnbound(w, c) ==
    c # NoCursor =>
        LET events == Selection(capture, w)
        IN  /\ c.count <= Len(events)
            /\ c.count > 0 => Visible(events[c.count], c.asOf)

(* _validated_admission_cursor *)
CursorValid(w, c) ==
    c # NoCursor =>
        LET events == Selection(capture, w)
        IN  /\ c.window = w
            /\ c.count <= Len(events)
            /\ IF c.count = 0
               THEN ~Visible(events[1], c.asOf)
               ELSE Visible(events[c.count], c.asOf)

Earlier(s, t) == IF s < t THEN s ELSE t

SourceNever == SourceMaxTime + 1

(* next_available_at *)
NextAvailableAt(w, c) ==
    LET events == Selection(capture, w)
    IN  IF c.count >= Len(events)
        THEN SourceNever
        ELSE IF events[c.count + 1].available >= c.asOf
             THEN events[c.count + 1].available
             ELSE c.asOf

(* The rows admit hands out: the visible run behind the cursor, up to the  *)
(* limit; limit 0 stands for None.                                         *)
Run(w, c, t) ==
    LET events == Selection(capture, w)
        hidden == {i \in c.count + 1 .. Len(events) : ~Visible(events[i], t)}
        stop   == IF hidden = {} THEN Len(events)
                  ELSE (CHOOSE i \in hidden : \A j \in hidden : i <= j) - 1
    IN  SubSeq(events, c.count + 1, stop)

Admission(w, c, t, limit) ==
    LET run == Run(w, c, t)
    IN  IF limit = 0 THEN run ELSE SubSeq(run, 1, Earlier(limit, Len(run)))

-----------------------------------------------------------------------------
(* _decode_phase1_capture and create_phase1_historical_market_data_source: *)
(* every window used must select something.                                *)
Decode(rows) ==
    /\ stage = "none"
    /\ capture' = rows
    /\ stage' = IF Decodes(rows) /\ \A w \in Windows : SourceSelected(rows, w) # {}
                THEN "ready" ELSE "refused"
    /\ UNCHANGED <<sourceClock, cursor, admitted, drained, reply>>

(* _issued_cursor *)
Issued(w, t, n, given) == [window |-> w, asOf |-> t, count |-> n + Len(given)]

(* admit *)
SourceAdmit(w, limit) ==
    /\ stage = "ready"
    /\ CASE ~CursorValid(w, cursor) ->
              /\ reply' = "invalid_cursor"
              /\ UNCHANGED <<cursor, admitted, drained>>
         [] CursorValid(w, cursor) /\ sourceClock < cursor.asOf ->
              /\ reply' = "clock_regressed"
              /\ UNCHANGED <<cursor, admitted, drained>>
         [] OTHER ->
              LET given == Admission(w, cursor, sourceClock, limit)
              IN  /\ cursor' = Issued(w, sourceClock, cursor.count, given)
                  /\ admitted' = admitted \o given
                  /\ drained' = (given = Run(w, cursor, sourceClock))
                  /\ reply' = "admitted"
    /\ UNCHANGED <<stage, capture, sourceClock>>

(* The injected clock: external. *)
SetClock(t) ==
    /\ stage = "ready"
    /\ sourceClock' = t
    /\ UNCHANGED <<stage, capture, cursor, admitted, drained, reply>>

(* The caller starts a replay afresh. *)
StartOver ==
    /\ stage = "ready"
    /\ cursor' = NoCursor
    /\ admitted' = <<>>
    /\ drained' = FALSE
    /\ reply' = "none"
    /\ UNCHANGED <<stage, capture, sourceClock>>

SourceInit ==
    /\ stage = "none"
    /\ capture = {}
    /\ sourceClock = 0
    /\ cursor = NoCursor
    /\ admitted = <<>>
    /\ drained = FALSE
    /\ reply = "none"

(* The captures the decoder may be given. *)
Captures == {{}} \cup {{f[i] : i \in 1 .. MaxRows} : f \in [1 .. MaxRows -> Rows]}

(* A capture that is refused ends the matter. *)
SourceRefused == stage = "refused" /\ UNCHANGED sourceVars

SourceNext ==
    \/ \E rows \in Captures : Decode(rows)
    \/ \E w \in Windows, limit \in 0 .. 1 : SourceAdmit(w, limit)
    \/ \E t \in 0 .. SourceMaxTime : SetClock(t)
    \/ StartOver
    \/ SourceRefused

SourceSpec == SourceInit /\ [][SourceNext]_sourceVars

-----------------------------------------------------------------------------
(* Every variable has its type. *)
SourceTypeOK ==
    /\ stage \in {"none", "refused", "ready"}
    /\ capture \subseteq Rows
    /\ cursor.asOf \in 0 .. SourceMaxTime
    /\ cursor.count = Len(admitted)
    /\ reply \in {"none", "invalid_cursor", "clock_regressed", "admitted"}

(* Whatever the clock does, whatever the limits and whichever source the   *)
(* cursor is shown to, what was handed out along one cursor is a prefix of *)
(* the one selection the cursor is bound to, every row of it known by the  *)
(* cursor's instant, and all of them when no limit cut the last call short *)
(* (admit, _validated_admission_cursor).                                   *)
OneReplayWithoutLookAhead ==
    cursor # NoCursor =>
        LET events == Selection(capture, cursor.window)
        IN  /\ IsPrefix(admitted, events)
            /\ \A i \in 1 .. Len(admitted) :
                  admitted[i].bar <= cursor.asOf /\ admitted[i].available <= cursor.asOf
            /\ drained => ToSet(admitted)
                            = {r \in ToSet(events) : r.available <= cursor.asOf}

(* The last revision of a bar a consumer was handed is the newest one      *)
(* known at the cursor's instant: replaying rows in order never lets an    *)
(* older revision overwrite a newer one (_validate_complete_history,       *)
(* admission_order_key, latest_as_of).                                     *)
NewestRevisionWins ==
    (cursor # NoCursor /\ drained) =>
        LET given == ToSet(admitted)
            lastOf(bar) == admitted[CHOOSE i \in 1 .. Len(admitted) :
                               /\ admitted[i].bar = bar
                               /\ \A j \in i + 1 .. Len(admitted) : admitted[j].bar # bar]
        IN  {lastOf(bar) : bar \in {r.bar : r \in given}} = LatestAsOf(given, cursor.asOf)

(* The instant next_available_at announces is the first at which an        *)
(* admission hands anything out, and none is announced only when there is  *)
(* nothing left (next_available_at against admit).                         *)
AnnouncedIsAdmitted ==
    (stage = "ready" /\ cursor # NoCursor) =>
        LET w == cursor.window
            announced == NextAvailableAt(w, cursor)
        IN  \A t \in cursor.asOf .. SourceMaxTime :
                (Admission(w, cursor, t, 0) # <<>>) <=> (announced \in cursor.asOf .. t)

\* The historical source: one replay without look-ahead, the newest revision
\* last, and what is announced is admitted.
SourceSafe ==
    /\ SourceTypeOK /\ OneReplayWithoutLookAhead /\ NewestRevisionWins
    /\ AnnouncedIsAdmitted
-----------------------------------------------------------------------------
(* Reading the capture file.                                               *)

VARIABLES
    path,      \* what the path names: an inode and its kind; inode 0: nothing
    inodes,    \* the content and modification time of every inode
    used,      \* inodes ever given out
    writing,   \* the version whose second piece is still to be written
    writes,    \* what others did so far
    filePc,    \* where the reader stands
    before,    \* the first lstat
    fd,        \* the inode the descriptor holds
    fdBefore,  \* the first fstat
    fdAfter,   \* the second fstat
    content,   \* the pieces read so far
    held,      \* what the path named since the first lstat
    outcome    \* how the last read ended

fileVars == <<path, inodes, used, writing, writes, filePc, before, fd, fdBefore, fdAfter,
              content, held, outcome>>

Pieces == 2
NoStat == [ino |-> 0, kind |-> "none", mtime |-> 0, size |-> 0]

(* What stat reports of a path, and fstat of a descriptor. *)
StatOf(p, is) ==
    IF p.ino = 0
    THEN NoStat
    ELSE [ino |-> p.ino, kind |-> p.kind, mtime |-> is[p.ino].mtime,
          size |-> Len(is[p.ino].data)]

Descriptor(i) == [ino |-> i, kind |-> "regular"]

(* What the path named, as a read would see it. *)
Shown(p, is) == IF p.ino = 0 THEN <<>> ELSE <<p.kind, p.ino, is[p.ino].data>>

(* Others act: external.                                                   *)

Seen(p, is) == held' = IF filePc = "idle" THEN held ELSE held \cup {Shown(p, is)}

Act(p, is) ==
    /\ writes < MaxWrites
    /\ writes' = writes + 1
    /\ path' = p
    /\ inodes' = is
    /\ Seen(p, is)
    /\ UNCHANGED <<filePc, before, fd, fdBefore, fdAfter, content, outcome>>

(* A rewrite in place truncates the file, then writes piece after piece. *)
BeginRewrite(v) ==
    /\ path.ino # 0
    /\ path.kind = "regular"
    /\ writing = 0
    /\ Act(path, [inodes EXCEPT ![path.ino] = [data |-> <<v>>, mtime |-> @.mtime + 1]])
    /\ writing' = v
    /\ UNCHANGED used

EndRewrite ==
    /\ path.ino # 0
    /\ path.kind = "regular"
    /\ writing # 0
    /\ Act(path, [inodes EXCEPT ![path.ino] =
                     [data |-> Append(@.data, writing), mtime |-> @.mtime + 1]])
    /\ writing' = 0
    /\ UNCHANGED used

(* A rename puts another inode, a file or a link, in its place. *)
Replace(i, v, kind) ==
    /\ i \notin used
    /\ writing = 0
    /\ Act([ino |-> i, kind |-> kind],
           [inodes EXCEPT ![i] = [data |-> <<v, v>>, mtime |-> 1]])
    /\ used' = used \cup {i}
    /\ UNCHANGED writing

FileRemove ==
    /\ path.ino # 0
    /\ writing = 0
    /\ Act([ino |-> 0, kind |-> "none"], inodes)
    /\ UNCHANGED <<used, writing>>

-----------------------------------------------------------------------------
Leave(how) ==
    /\ filePc' = "idle"
    /\ outcome' = how
    /\ UNCHANGED <<path, inodes, used, writing, writes, before, fd, fdBefore, fdAfter,
                   content, held>>

(* The first lstat: only a regular file is read. *)
Examine ==
    /\ filePc = "idle"
    /\ outcome = "none"
    /\ before' = StatOf(path, inodes)
    /\ held' = {Shown(path, inodes)}
    /\ IF before'.kind = "regular"
       THEN filePc' = "open" /\ UNCHANGED outcome
       ELSE filePc' = "idle" /\ outcome' = "unreadable"
    /\ UNCHANGED <<path, inodes, used, writing, writes, fd, fdBefore, fdAfter, content>>

(* os.open with O_NOFOLLOW; a refusal is classified by a later lstat. *)
FileOpen ==
    /\ filePc = "open"
    /\ IF path.kind = "regular"
       THEN filePc' = "fstat" /\ fd' = path.ino
       ELSE filePc' = "classify" /\ UNCHANGED fd
    /\ UNCHANGED <<path, inodes, used, writing, writes, before, fdBefore, fdAfter,
                   content, held, outcome>>

(* The open failed though the file is there: permissions, descriptors. *)
OpenFails ==
    /\ filePc = "open"
    /\ filePc' = "classify"
    /\ UNCHANGED <<path, inodes, used, writing, writes, before, fd, fdBefore, fdAfter,
                   content, held, outcome>>

(* _same_capture_stat *)
SameStat(left, right) ==
    /\ right.kind = "regular"
    /\ left.ino = right.ino
    /\ left.size = right.size
    /\ left.mtime = right.mtime

\* Mutant of FileClassify: an open that failed on an unchanged file is tried again.
ClassifyRetries ==
    /\ filePc = "classify"
    /\ IF SameStat(before, StatOf(path, inodes))
       THEN /\ filePc' = "open"
            /\ UNCHANGED <<path, inodes, used, writing, writes, before, fd, fdBefore,
                           fdAfter, content, held, outcome>>
       ELSE Leave("changed")

(* _classify_open_failure *)
FileClassify ==
    /\ filePc = "classify"
    /\ Leave(IF SameStat(before, StatOf(path, inodes)) THEN "unreadable" ELSE "changed")

(* The descriptor must be the file that was examined. *)
Fstat ==
    /\ filePc = "fstat"
    /\ LET s == StatOf(Descriptor(fd), inodes)
       IN  IF SameStat(before, s)
           THEN /\ filePc' = "read"
                /\ fdBefore' = s
                /\ content' = <<>>
                /\ UNCHANGED <<path, inodes, used, writing, writes, before, fd, fdAfter,
                               held, outcome>>
           ELSE Leave("changed")

(* os.read of the next piece, or the end of the file. *)
ReadPiece ==
    /\ filePc = "read"
    /\ LET data == inodes[fd].data
           next == Len(content) + 1
       IN  IF next <= Len(data)
           THEN content' = Append(content, data[next]) /\ UNCHANGED filePc
           ELSE filePc' = "after" /\ UNCHANGED content
    /\ UNCHANGED <<path, inodes, used, writing, writes, before, fd, fdBefore, fdAfter,
                   held, outcome>>

(* The second fstat, then the second lstat and the comparison: two calls. *)
FstatAfter ==
    /\ filePc = "after"
    /\ fdAfter' = StatOf(Descriptor(fd), inodes)
    /\ filePc' = "compare"
    /\ UNCHANGED <<path, inodes, used, writing, writes, before, fd, fdBefore, content,
                   held, outcome>>

Unmoved(pathAfter) ==
    /\ SameStat(fdBefore, fdAfter)
    /\ SameStat(fdAfter, pathAfter)
    /\ Len(content) = fdAfter.size

Compare ==
    /\ filePc = "compare"
    /\ Leave(IF Unmoved(StatOf(path, inodes)) THEN "read" ELSE "changed")

(* The caller takes the answer; the next read starts afresh. *)
FileTake ==
    /\ filePc = "idle"
    /\ outcome # "none"
    /\ outcome' = "none"
    /\ content' = <<>>
    /\ before' = NoStat
    /\ fd' = 0
    /\ fdBefore' = NoStat
    /\ fdAfter' = NoStat
    /\ held' = {}
    /\ UNCHANGED <<path, inodes, used, writing, writes, filePc>>

Reader == Examine \/ FileOpen \/ OpenFails \/ FileClassify \/ Fstat \/ ReadPiece \/ FstatAfter
          \/ Compare

Others ==
    \/ \E v \in Versions : BeginRewrite(v)
    \/ EndRewrite
    \/ \E i \in Inodes, v \in Versions, kind \in {"regular", "link"} : Replace(i, v, kind)
    \/ FileRemove

FileInit ==
    \E i \in Inodes, v \in Versions :
        /\ path = [ino |-> i, kind |-> "regular"]
        /\ inodes = [j \in Inodes |->
                        IF j = i THEN [data |-> <<v, v>>, mtime |-> 1]
                                 ELSE [data |-> <<>>, mtime |-> 0]]
        /\ used = {i}
        /\ writing = 0
        /\ writes = 0
        /\ filePc = "idle"
        /\ before = NoStat
        /\ fd = 0
        /\ fdBefore = NoStat
        /\ fdAfter = NoStat
        /\ content = <<>>
        /\ held = {}
        /\ outcome = "none"

FileNext == Reader \/ FileTake \/ Others

FileSpec == FileInit /\ [][FileNext]_fileVars

-----------------------------------------------------------------------------
(* Every variable has its type. *)
FileTypeOK ==
    /\ path.ino \in Inodes \cup {0}
    /\ path.kind \in {"regular", "link", "none"}
    /\ filePc \in {"idle", "open", "fstat", "classify", "read", "after", "compare"}
    /\ Len(content) <= Pieces
    /\ outcome \in {"none", "unreadable", "changed", "read"}

(* A read that succeeds returns exactly the bytes the path held from the   *)
(* first look at it to the last: never a mixture of two versions, never a  *)
(* file that had meanwhile been replaced (_capture_descriptor).            *)
ReadIsOneSnapshot ==
    (outcome = "read" /\ filePc = "idle") =>
        \E i \in Inodes : held = {<<"regular", i, content>>}

(* "changed" is said only of a file that did change while it was being     *)
(* read (_classify_open_failure, _capture_descriptor).                     *)
ChangedIsReal ==
    (outcome = "changed" /\ filePc = "idle") => Cardinality(held) > 1

(* Every read ends, however long others keep at the file. *)
ReadEnds == (filePc # "idle") ~> (filePc = "idle")

\* The guarded read: what it returns is one snapshot of the named file, and a
\* change it reports happened.
FileSafe ==
    /\ FileTypeOK /\ ReadIsOneSnapshot /\ ChangedIsReal
-----------------------------------------------------------------------------
(***************************************************************************)
(* The historical bar adapter (plugin/historical_bars.py): a closed range  *)
(* of bars is read page by page through a transport the caller supplies,   *)
(* under one deadline and a bounded rate-limit backoff, or pasted as one   *)
(* offline response; the bars are normalised to the strict capture; and a  *)
(* later read derives the capture again from the retained pages.           *)
(*                                                                         *)
(* A bar is its opening and its inclusive closing time; a page body is the *)
(* sequence of its records, and its digest is the body itself.  BadBar     *)
(* stands for whatever makes a body malformed or oversized.  Times of bars *)
(* are in units of the smallest tick; the deadline is in seconds.          *)
(***************************************************************************)

CONSTANTS
    BarsStep,       \* the length of one bar, in ticks
    Horizon,        \* MAX_EPOCH_MS
    PageLimit,      \* PAGE_LIMIT
    MaxPages,       \* MAX_PAGES
    MaxTotal,       \* MAX_TOTAL_RESPONSE_BYTES, in records
    Max429,         \* MAX_429_ATTEMPTS
    MaxRetryAfter,  \* MAX_RETRY_AFTER_SECONDS
    Deadline,       \* deadline_seconds
    Queries,        \* the queries callers make: records of start, end, latency
    Nows,           \* the instants callers observe
    Markets,        \* sets of bars the provider may hold
    Junk,           \* bars a body may hold besides the market's
    Delays,         \* seconds an answer, or an oversleep, may take
    SyntheticQuery, SyntheticBody

ASSUME HistoricalBarsAssumption ==
    /\ {BarsStep, PageLimit, MaxPages, Max429, Deadline} \subseteq Nat \ {0}
    /\ {Horizon, MaxTotal, MaxRetryAfter} \subseteq Nat
    /\ Delays \subseteq Nat

VARIABLES
    barsPc,      \* where the adapter stands
    query,       \* the validated query of the call in progress
    observed,    \* observed_now
    barsMarket,  \* what the provider holds
    elapsed,     \* seconds since the read started
    attempts,    \* requests made for the page in progress
    calls,       \* requests made by this read
    body,        \* the body of the answer being read
    pages,       \* accepted pages: the cursor asked for and the body
    bars,        \* the accumulator
    why,         \* the failure code, or "none"
    faithful,    \* every 200 answer so far was the provider's own page
    sealed,      \* the evidence of the last capture
    envelope,    \* the retained raw source of the last capture
    reread       \* the outcome of the last re-derivation

barsVars == <<barsPc, query, observed, barsMarket, elapsed, attempts, calls, body, pages,
              bars, why, faithful, sealed, envelope, reread>>

BarsMaxRecords == MaxPages * PageLimit

BadBar == [open |-> -1, close |-> -1]
NoQuery == [start |-> 0, end |-> 0, latency |-> 0]
NoCapture == [kind |-> "none", query |-> NoQuery, observed |-> 0,
              pages |-> <<>>, bars |-> <<>>]

(* _validated_query: a non-empty range of whole bars in the host's range. *)
ValidQuery(q) ==
    /\ q.start \in 0 .. Horizon
    /\ q.end \in 0 .. Horizon
    /\ q.start < q.end
    /\ q.start % BarsStep = 0
    /\ q.end % BarsStep = 0

(* _Accumulator.cursor_ms *)
Cursor(q, got) == IF got = <<>> THEN q.start ELSE Last(got).close + 1

-----------------------------------------------------------------------------
(* Validation of one page.                                                 *)

(* _validated_record, _epoch_ms and _page_records. *)
WellFormed(b) == b.open \in 0 .. Horizon /\ b.close \in 0 .. Horizon

(* The checks of _Accumulator.accept on one bar and the one before it. *)
OneInterval(b) == b.close + 1 = b.open + BarsStep

Closed(b, now) == b.close + 1 <= now

InRange(q, b) == q.start <= b.open /\ b.close + 1 <= q.end

BarsLater(prev, b) == prev.open < b.open

(* accept: the page is judged whole, each bar after the previous bar of the *)
(* page or, for the first, after the last bar already held.                 *)
Accepts(q, now, got, recs) ==
    \A i \in 1 .. Len(recs) :
        /\ WellFormed(recs[i])
        /\ OneInterval(recs[i])
        /\ Closed(recs[i], now)
        /\ InRange(q, recs[i])
        /\ i > 1 => BarsLater(recs[i - 1], recs[i])
        /\ (i = 1 /\ got # <<>>) => BarsLater(Last(got), recs[1])

(* The bars of a list of page bodies, in order. *)
Joined(bodies) == FlattenSeq(bodies)

(* _validated_page_params: every page was asked for at the cursor the pages *)
(* before it produce.                                                       *)
CursorChain(q, ps) ==
    \A i \in 1 .. Len(ps) :
        ps[i].cursor = Cursor(q, Joined([j \in 1 .. i - 1 |-> ps[j].body]))

(* _capture_bytes: the declared latency keeps every availability in range. *)
AvailableInRange(q, got) ==
    \A i \in 1 .. Len(got) : got[i].close + 1 + q.latency <= Horizon

(* _normalize: the pages accepted afresh, within the record bound, holding *)
(* at least one bar, and representable.  The strict decoder's own refusals *)
(* concern price tokens, which are abstracted.                             *)
Normalizes(q, now, ps) ==
    LET bodies == [i \in 1 .. Len(ps) |-> ps[i].body]
    IN  /\ \A i \in 1 .. Len(ps) :
              Accepts(q, now, Joined(SubSeq(bodies, 1, i - 1)), bodies[i])
        /\ Len(Joined(bodies)) <= BarsMaxRecords
        /\ Joined(bodies) # <<>>
        /\ AvailableInRange(q, Joined(bodies))

Bodies(ps) == Joined([i \in 1 .. Len(ps) |-> ps[i].body])

-----------------------------------------------------------------------------
(* The provider, seen through the transport: external.                     *)

(* The page the documented endpoint returns for a cursor. *)
ProviderPage(m, q, from) ==
    LET asked == SetToSortSeq({b \in m : from <= b.open /\ b.open <= q.end - 1},
                              LAMBDA a, b : a.open < b.open)
    IN  SubSeq(asked, 1, IF Len(asked) < PageLimit THEN Len(asked) ELSE PageLimit)

(* Whatever a transport may return as a body. *)
AnyBody == SeqOf(Junk \cup {BadBar}, PageLimit + 1)

-----------------------------------------------------------------------------
BarsFailed(code) ==
    /\ barsPc' = "failed"
    /\ why' = code
    /\ body' = <<>>

Started(q, now, m) ==
    /\ query' = q
    /\ observed' = now
    /\ barsMarket' = m
    /\ elapsed' = 0
    /\ attempts' = 0
    /\ calls' = 0
    /\ body' = <<>>
    /\ pages' = <<>>
    /\ bars' = <<>>

(* No call is in progress. *)
Free == barsPc = "idle"

(* _capture: the envelope retained and the evidence sealed. *)
Captured(kind, q, now, ps) ==
    LET c == [kind |-> kind, query |-> q, observed |-> now,
              pages |-> ps, bars |-> Bodies(ps)]
    IN  /\ barsPc' = "captured"
        /\ why' = "none"
        /\ sealed' = c
        /\ envelope' = c
        /\ reread' = "none"

(* fetch_historical_bars up to the page loop. *)
FetchRefused(q, now) ==
    /\ Free
    /\ ~ValidQuery(q) \/ q.end > now
    /\ barsPc' = "failed"
    /\ why' = "invalid_query"
    /\ UNCHANGED <<query, observed, barsMarket, elapsed, attempts, calls, body, pages,
                   bars, faithful, sealed, envelope, reread>>

BarsFetch(q, now, m) ==
    /\ Free
    /\ ValidQuery(q)
    /\ q.end <= now
    /\ Started(q, now, m)
    /\ barsPc' = "loop"
    /\ why' = "none"
    /\ faithful' = TRUE
    /\ UNCHANGED <<sealed, envelope, reread>>

(* The head of the page loop: the page budget, then the deadline on a      *)
(* clock that ran on while the page before was read.                       *)
NextPage(took) ==
    /\ barsPc = "loop"
    /\ elapsed' = elapsed + took
    /\ CASE Len(pages) >= MaxPages ->
              BarsFailed("page_budget_exceeded") /\ UNCHANGED attempts
         [] Len(pages) < MaxPages /\ elapsed' > Deadline ->
              BarsFailed("deadline_exceeded") /\ UNCHANGED attempts
         [] OTHER ->
              barsPc' = "ask" /\ attempts' = 0 /\ UNCHANGED <<why, body>>
    /\ UNCHANGED <<query, observed, barsMarket, calls, pages, bars, faithful, sealed,
                   envelope, reread>>

(* Requests are counted up to one more than the bound. *)
Counted(n) == IF n > MaxPages * Max429 THEN n ELSE n + 1

(* The head of the request loop of _request_page. *)
Ask ==
    /\ barsPc = "ask"
    /\ attempts' = attempts + 1
    /\ IF elapsed >= Deadline
       THEN BarsFailed("deadline_exceeded") /\ UNCHANGED calls
       ELSE barsPc' = "waiting" /\ calls' = Counted(calls) /\ UNCHANGED <<why, body>>
    /\ UNCHANGED <<query, observed, barsMarket, elapsed, pages, bars, faithful, sealed,
                   envelope, reread>>

(* The transport raises, or returns something that is no response. *)
TransportFails ==
    /\ barsPc = "waiting"
    /\ BarsFailed("transport_failure")
    /\ UNCHANGED <<query, observed, barsMarket, elapsed, attempts, calls, pages, bars,
                   faithful, sealed, envelope, reread>>

(* An answer that arrives once the deadline has passed is refused, whatever *)
(* it says.                                                                 *)
LateAnswer(took) ==
    /\ barsPc = "waiting"
    /\ elapsed + took >= Deadline
    /\ elapsed' = elapsed + took
    /\ BarsFailed("deadline_exceeded")
    /\ UNCHANGED <<query, observed, barsMarket, attempts, calls, pages, bars, faithful,
                   sealed, envelope, reread>>

(* HTTP 200: the body goes on to the page checks. *)
PageAnswer(took, recs) ==
    /\ barsPc = "waiting"
    /\ elapsed + took < Deadline
    /\ elapsed' = elapsed + took
    /\ barsPc' = "page"
    /\ body' = recs
    /\ faithful' = (faithful /\ recs = ProviderPage(barsMarket, query, Cursor(query, bars)))
    /\ UNCHANGED <<query, observed, barsMarket, attempts, calls, pages, bars, why, sealed,
                   envelope, reread>>

(* A redirect, an authorization or region answer, any undocumented status. *)
RefusalAnswer(took, code) ==
    /\ barsPc = "waiting"
    /\ elapsed + took < Deadline
    /\ elapsed' = elapsed + took
    /\ BarsFailed(code)
    /\ UNCHANGED <<query, observed, barsMarket, attempts, calls, pages, bars, faithful,
                   sealed, envelope, reread>>

(* HTTP 429.  -1 is a missing or unreadable Retry-After.  A backoff that   *)
(* fits is slept, and the sleep may end late.                              *)
RateLimitRefusal(took, delay) ==
    CASE attempts >= Max429                                 -> "rate_limited"
      [] attempts < Max429 /\ delay \notin 0 .. MaxRetryAfter -> "retry_after_invalid"
      [] attempts < Max429 /\ delay \in 0 .. MaxRetryAfter
           /\ elapsed + took + delay >= Deadline            -> "deadline_exceeded"
      [] OTHER                                              -> "none"

RateLimited(took, delay, late) ==
    /\ barsPc = "waiting"
    /\ elapsed + took < Deadline
    /\ LET code == RateLimitRefusal(took, delay)
       IN  IF code # "none"
           THEN BarsFailed(code) /\ elapsed' = elapsed + took
           ELSE /\ barsPc' = "ask"
                /\ elapsed' = elapsed + took + delay + late
                /\ UNCHANGED <<why, body>>
    /\ UNCHANGED <<query, observed, barsMarket, attempts, calls, pages, bars, faithful,
                   sealed, envelope, reread>>

(* The body of the page loop after the answer: the total bound, the page's *)
(* records, the accumulator, and the short page that ends the loop.        *)
ReadPage ==
    /\ barsPc = "page"
    /\ IF Len(Bodies(pages)) + Len(body) <= MaxTotal
          /\ Accepts(query, observed, bars, body)
       THEN /\ pages' = Append(pages, [cursor |-> Cursor(query, bars), body |-> body])
            /\ bars' = bars \o body
            /\ body' = <<>>
            /\ barsPc' = IF Len(body) < PageLimit THEN "normalize" ELSE "loop"
            /\ UNCHANGED why
       ELSE BarsFailed("page_refused") /\ UNCHANGED <<pages, bars>>
    /\ UNCHANGED <<query, observed, barsMarket, elapsed, attempts, calls, faithful, sealed,
                   envelope, reread>>

(* _normalize over the accepted pages, and _capture. *)
Normalize ==
    /\ barsPc = "normalize"
    /\ IF Normalizes(query, observed, pages)
       THEN /\ Captured("caller-supplied", query, observed, pages)
            /\ UNCHANGED body
       ELSE BarsFailed("not_normalized") /\ UNCHANGED <<sealed, envelope, reread>>
    /\ UNCHANGED <<query, observed, barsMarket, elapsed, attempts, calls, pages, bars,
                   faithful>>

(* capture_offline_response: one pasted page that must be the whole answer; *)
(* the synthetic marking only for the built-in example.                     *)
OfflineAccepted(recs, q, now, synthetic) ==
    /\ ValidQuery(q)
    /\ synthetic => recs = SyntheticBody /\ q = SyntheticQuery
    /\ q.end <= now
    /\ Accepts(q, now, <<>>, recs)
    /\ ~(Len(recs) = PageLimit /\ Cursor(q, recs) < q.end)
    /\ Normalizes(q, now, <<[cursor |-> q.start, body |-> recs]>>)

OfflineKind(synthetic) ==
    IF synthetic THEN "builtin-synthetic-example" ELSE "user-pasted-offline-response"

Offline(recs, q, now, m, synthetic) ==
    /\ Free
    /\ Started(q, now, m)
    /\ LET ps == <<[cursor |-> q.start, body |-> recs]>>
       IN  IF OfflineAccepted(recs, q, now, synthetic)
           THEN Captured(OfflineKind(synthetic), q, now, ps)
           ELSE /\ barsPc' = "failed"
                /\ why' = "offline_refused"
                /\ UNCHANGED <<sealed, envelope, reread>>
    /\ faithful' = (recs = ProviderPage(m, q, q.start))

-----------------------------------------------------------------------------
(* The retained raw source, and reading it back.                           *)

(* The retained envelope is altered at rest: external. *)
Alterations ==
    LET ps == envelope.pages
    IN  {[envelope EXCEPT !.pages = [ps EXCEPT ![i].body = b]] :
            i \in 1 .. Len(ps), b \in {SyntheticBody, <<>>}}
        \cup {[envelope EXCEPT !.pages = [ps EXCEPT ![i].cursor = c]] :
            i \in 1 .. Len(ps), c \in {envelope.query.start, envelope.query.end}}
        \cup {[envelope EXCEPT !.pages = Front(ps)],
              [envelope EXCEPT !.pages = Append(ps, Last(ps))],
              [envelope EXCEPT !.pages = Reverse(ps)],
              [envelope EXCEPT !.query = SyntheticQuery],
              [envelope EXCEPT !.observed = @ + 1],
              [envelope EXCEPT !.kind = "builtin-synthetic-example"],
              [envelope EXCEPT !.bars = Front(@)]}

Alter ==
    /\ barsPc = "captured"
    /\ envelope = sealed
    /\ envelope' \in Alterations
    /\ reread' = "none"
    /\ UNCHANGED <<barsPc, query, observed, barsMarket, elapsed, attempts, calls, body, pages,
                   bars, why, faithful, sealed>>

(* _page_body: the retained page against its sealed summary and digest. *)
PagesMatch(ps, summaries) ==
    /\ Len(ps) = Len(summaries)
    /\ \A i \in 1 .. Len(ps) : ps[i].body = summaries[i].body

(* rederive_strict_capture: the declaration, the pages, the chain of       *)
(* cursors, and the capture they normalise to.                             *)
DeclarationMatches(doc, evidence) ==
    /\ doc.kind = evidence.kind
    /\ doc.query = evidence.query
    /\ doc.observed = evidence.observed

PageBudgets(ps) ==
    /\ ps # <<>>
    /\ Len(ps) <= MaxPages
    /\ Len(Bodies(ps)) <= MaxTotal

Rederives(doc, evidence) ==
    /\ DeclarationMatches(doc, evidence)
    /\ PagesMatch(doc.pages, evidence.pages)
    /\ PageBudgets(doc.pages)
    /\ CursorChain(evidence.query, doc.pages)
    /\ Normalizes(evidence.query, evidence.observed, doc.pages)
    /\ Bodies(doc.pages) = evidence.bars
    /\ doc.bars = evidence.bars

Rederive ==
    /\ barsPc = "captured"
    /\ reread' = IF Rederives(envelope, sealed) THEN "reproduced" ELSE "refused"
    /\ UNCHANGED <<barsPc, query, observed, barsMarket, elapsed, attempts, calls, body, pages,
                   bars, why, faithful, sealed, envelope>>

-----------------------------------------------------------------------------
BarsInit ==
    /\ barsPc = "idle"
    /\ query = NoQuery
    /\ observed = 0
    /\ barsMarket = {}
    /\ elapsed = 0
    /\ attempts = 0
    /\ calls = 0
    /\ body = <<>>
    /\ pages = <<>>
    /\ bars = <<>>
    /\ why = "none"
    /\ faithful = TRUE
    /\ sealed = NoCapture
    /\ envelope = NoCapture
    /\ reread = "none"

BarsAnswer ==
    \/ TransportFails
    \/ \E took \in Delays :
          \/ LateAnswer(took)
          \/ PageAnswer(took, ProviderPage(barsMarket, query, Cursor(query, bars)))
          \/ took = 0 /\ \E recs \in AnyBody : PageAnswer(took, recs)
          \/ RefusalAnswer(took, "provider_refused")
          \/ \E delay \in {-1, 0, 1, MaxRetryAfter + 1}, late \in Delays :
                RateLimited(took, delay, late)

Read == (\E took \in Delays : NextPage(took)) \/ Ask \/ ReadPage \/ Normalize

Call ==
    \E q \in Queries, now \in Nows :
        \/ FetchRefused(q, now)
        \/ \E m \in Markets :
              \/ BarsFetch(q, now, m)
              \/ \E synthetic \in BOOLEAN :
                    \/ Offline(ProviderPage(m, q, q.start), q, now, m, synthetic)
                    \/ Offline(SyntheticBody, q, now, m, synthetic)
              \/ \E recs \in AnyBody : Offline(recs, q, now, m, FALSE)

(* The call is over; the adapter keeps nothing between calls. *)
BarsReturn ==
    /\ barsPc \in {"failed", "captured"}
    /\ barsPc' = "idle"
    /\ Started(NoQuery, 0, {})
    /\ why' = "none"
    /\ faithful' = TRUE
    /\ sealed' = NoCapture
    /\ envelope' = NoCapture
    /\ reread' = "none"

BarsNext == Call \/ Read \/ BarsAnswer \/ Alter \/ Rederive \/ BarsReturn

BarsSpec == BarsInit /\ [][BarsNext]_barsVars


-----------------------------------------------------------------------------
(* Every variable has its type. *)
BarsTypeOK ==
    /\ barsPc \in {"idle", "loop", "ask", "waiting", "page", "normalize", "failed", "captured"}
    /\ attempts \in 0 .. Max429
    /\ Len(pages) <= MaxPages
    /\ (why = "none") # (barsPc = "failed")
    /\ reread \in {"none", "reproduced", "refused"}
    /\ elapsed \in Nat

(* The bars of a capture, across every page boundary, have strictly        *)
(* increasing openings, last one interval, lie in the queried range and    *)
(* were closed when it was observed; nothing of a refused page is among    *)
(* them (_Accumulator.accept, _normalize).                                 *)
CaptureIsOrdered ==
    LET s == sealed
    IN  s.kind # "none" =>
            /\ s.bars # <<>>
            /\ Len(s.bars) <= BarsMaxRecords
            /\ \A i \in 1 .. Len(s.bars) :
                  /\ s.query.start <= s.bars[i].open
                  /\ s.bars[i].close < s.query.end
                  /\ s.bars[i].close < s.observed
                  /\ s.bars[i].close - s.bars[i].open = BarsStep - 1
                  /\ \A j \in 1 .. i - 1 : s.bars[j].open < s.bars[i].open

(* When every answer was the provider's own page, a capture holds exactly  *)
(* the bars the provider has in the range: no page boundary loses one, and *)
(* one pasted page is never mistaken for the whole answer                  *)
(* (fetch_historical_bars, capture_offline_response).                      *)
CaptureIsComplete ==
    (barsPc = "captured" /\ faithful) =>
            ToSet(sealed.bars) = {b \in barsMarket : InRange(query, b)}

(* No request is made and no answer is taken once the deadline has passed, *)
(* backoffs and oversleeping included; and one read makes at most the      *)
(* bounded number of requests (_request_page).                             *)
ReadIsBounded ==
    /\ barsPc \in {"waiting", "page"} => elapsed < Deadline
    /\ calls <= MaxPages * Max429

(* Only the capture the evidence sealed is reproduced: an envelope altered *)
(* in its declaration, its pages, their order, their cursors or its        *)
(* capture is refused (rederive_strict_capture).                           *)
OnlyTheSealedIsReproduced ==
    reread = "reproduced" => envelope = sealed

(* Every read ends, however often it is rate limited (_request_page). *)
BarsReadEnds == (barsPc = "loop") ~> (barsPc \in {"failed", "captured"})

\* The bar adapter: a capture is ordered and complete, a read stays within its
\* bounds, and only the sealed capture is reproduced.
BarsSafe ==
    /\ BarsTypeOK /\ CaptureIsOrdered /\ CaptureIsComplete /\ ReadIsBounded
    /\ OnlyTheSealedIsReproduced
=============================================================================
