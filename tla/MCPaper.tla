------------------------------- MODULE MCPaper ------------------------------
(***************************************************************************)
(* The durable side of a run and the paper runtime, part by part: the      *)
(* audit journal, the result store, the offline backtest attempt, the      *)
(* capture file, the historical source and its bars, the paper session,    *)
(* its backups, its alerts, its acceptance gate and its market stream.     *)
(* Each keeps its own files in the code and is modelled with what it sees  *)
(* of the others, so each behaviour moves one of them, `part', and leaves  *)
(* the others as they start.                                               *)
(***************************************************************************)
EXTENDS AuditJournal, ResultStore, BacktestAttempt, HistoricalData, PaperSession,
        PaperBackup, PaperAlerts, PaperGate, MarketStream

CONSTANT Parts

AllParts == {"journal", "store", "backtest", "file", "source", "bars", "session", "backup",
             "alerts", "gate", "stream"}
ASSUME PaperParts == Parts \subseteq AllParts

VARIABLE part  \* the component that moves

paperVars == <<journalVars, storeVars, attemptVars, fileVars, sourceVars,
               barsVars, sessionVars, backupVars, alertVars, gateVars,
               streamVars, part>>

\* Source: two bars, the first with two revisions, three sequence numbers and knowledge
\* times, and a row the parser refuses; the full window and one that leaves out the
\* earliest knowledge.
SourceRow(b, rev, seq, known) ==
    [bar |-> b, revision |-> rev, sequence |-> seq, available |-> known, readable |-> TRUE]
SourceRows ==
    {SourceRow(1, rev, seq, known) : rev \in 0 .. 1, seq \in 0 .. 2, known \in 1 .. 3}
    \cup {SourceRow(2, 0, seq, known) : seq \in 0 .. 2, known \in 1 .. 3}
    \cup {[SourceRow(2, 0, 0, 2) EXCEPT !.readable = FALSE]}
SourceWindows == {[from |-> 0, to |-> 4], [from |-> 2, to |-> 4]}

\* Bars of two ticks; ranges that fill one page, one page and a half, and the page budget
\* exactly; a market with a gap; bodies with repeated, earlier and off-grid bars.
TickBar(t) == [open |-> t, close |-> t + 1]
BarsQueries ==
    {[start |-> 0, end |-> 4, latency |-> 0], [start |-> 0, end |-> 6, latency |-> 0],
     [start |-> 0, end |-> 8, latency |-> 3], [start |-> 0, end |-> 8, latency |-> 0],
     [start |-> 4, end |-> 4, latency |-> 0], [start |-> 0, end |-> 3, latency |-> 0]}
BarsNows == {6, 9}
BarsMarkets == {{TickBar(t) : t \in {0, 2, 4, 6, 8}}, {TickBar(0), TickBar(4), TickBar(6)}}
BarsJunk == {TickBar(0), TickBar(1)}
BarsSyntheticQuery == [start |-> 0, end |-> 4, latency |-> 0]
BarsSyntheticBody == <<TickBar(0), TickBar(2)>>

\* Alerts: a session that is well, one that is only halted, and one that is neither ready
\* nor reconciled and is halted.
WellSession == [phase |-> "running", reason |-> "none", recovery |-> "not_required",
                reconciled |-> TRUE, age |-> "young", broker |-> TRUE,
                storage |-> "available", switch |-> "active", guard |-> "allow"]
IllSession == [WellSession EXCEPT !.reconciled = FALSE, !.age = "old", !.switch = "halted",
                                  !.guard = "blocked"]
HaltedSession == [WellSession EXCEPT !.switch = "halted", !.guard = "blocked"]
ThreeSessions == {WellSession, IllSession, HaltedSession}
TwoSessions == {WellSession, IllSession}

PaperInit ==
    /\ part \in Parts
    /\ JournalInit /\ StoreInit
    /\ AttemptInit /\ (part # "backtest" => kind = "flat")
    /\ FileInit /\ (part # "file" => path.ino = 1 /\ inodes[1].data = <<1, 1>>)
    /\ SourceInit /\ BarsInit /\ SessionInit /\ BackupInit /\ AlertInit /\ GateInit
    /\ StreamInit

JournalMoves ==
    /\ part = "journal" /\ JournalNext
    /\ UNCHANGED <<storeVars, attemptVars, fileVars, sourceVars, barsVars,
                   sessionVars, backupVars, alertVars, gateVars, streamVars,
                   part>>
StoreMoves ==
    /\ part = "store" /\ StoreNext
    /\ UNCHANGED <<journalVars, attemptVars, fileVars, sourceVars, barsVars,
                   sessionVars, backupVars, alertVars, gateVars, streamVars,
                   part>>
AttemptMoves ==
    /\ part = "backtest" /\ AttemptNext
    /\ UNCHANGED <<journalVars, storeVars, fileVars, sourceVars, barsVars,
                   sessionVars, backupVars, alertVars, gateVars, streamVars,
                   part>>
FileMoves ==
    /\ part = "file" /\ FileNext
    /\ UNCHANGED <<journalVars, storeVars, attemptVars, sourceVars, barsVars,
                   sessionVars, backupVars, alertVars, gateVars, streamVars,
                   part>>
SourceMoves ==
    /\ part = "source" /\ SourceNext
    /\ UNCHANGED <<journalVars, storeVars, attemptVars, fileVars, barsVars,
                   sessionVars, backupVars, alertVars, gateVars, streamVars,
                   part>>
BarsMoves ==
    /\ part = "bars" /\ BarsNext
    /\ UNCHANGED <<journalVars, storeVars, attemptVars, fileVars, sourceVars,
                   sessionVars, backupVars, alertVars, gateVars, streamVars,
                   part>>
SessionMoves ==
    /\ part = "session" /\ SessionNext
    /\ UNCHANGED <<journalVars, storeVars, attemptVars, fileVars, sourceVars,
                   barsVars, backupVars, alertVars, gateVars, streamVars, part>>
BackupMoves ==
    /\ part = "backup" /\ BackupNext
    /\ UNCHANGED <<journalVars, storeVars, attemptVars, fileVars, sourceVars,
                   barsVars, sessionVars, alertVars, gateVars, streamVars,
                   part>>
AlertMoves ==
    /\ part = "alerts" /\ AlertNext
    /\ UNCHANGED <<journalVars, storeVars, attemptVars, fileVars, sourceVars,
                   barsVars, sessionVars, backupVars, gateVars, streamVars,
                   part>>
GateMoves ==
    /\ part = "gate" /\ GateNext
    /\ UNCHANGED <<journalVars, storeVars, attemptVars, fileVars, sourceVars,
                   barsVars, sessionVars, backupVars, alertVars, streamVars,
                   part>>
StreamMoves ==
    /\ part = "stream" /\ StreamNext
    /\ UNCHANGED <<journalVars, storeVars, attemptVars, fileVars, sourceVars,
                   barsVars, sessionVars, backupVars, alertVars, gateVars,
                   part>>

PaperNext == JournalMoves \/ StoreMoves \/ AttemptMoves \/ FileMoves \/ SourceMoves
             \/ BarsMoves \/ SessionMoves \/ BackupMoves \/ AlertMoves \/ GateMoves
             \/ StreamMoves

PaperSpec == PaperInit /\ [][PaperNext]_paperVars

\* A process that runs goes on and an attempt is resumed; a read goes on and a request is
\* answered or times out; the session and the stream loop run while their process does.
PaperFairness ==
    /\ \A p \in AttemptProcesses :
           WF_attemptVars(part = "backtest" /\ AttemptStep(p))
           /\ WF_attemptVars(part = "backtest" /\ (Start(p) \/ Resume(p)))
    /\ WF_fileVars(part = "file" /\ Reader)
    /\ WF_barsVars(part = "bars" /\ Read) /\ WF_barsVars(part = "bars" /\ BarsAnswer)
    /\ WF_sessionVars(part = "session" /\ SessionStep)
    /\ WF_streamVars(part = "stream" /\ Loop)

PaperFairSpec == PaperSpec /\ PaperFairness

\* However processes die, an attempt that is resumed is in the end published, failed, or
\* refused for good on evidence that is not whole.
ResumeSettles == []((part = "backtest") => <>[](born /\ Settled))

\* However the callbacks fail and whatever clocks and signals do, the loop ends with its
\* source released: the drain has a deadline.
StreamEnds == (part = "stream") ~> (~Running /\ source.closed)

\* Market data on its way in, from the bar adapter, the capture file, the
\* historical source and the live stream, is safe.
MarketDataSafe ==
    /\ BarsSafe /\ FileSafe /\ SourceSafe /\ StreamSafe

\* What no step does: resume an ended attempt, assemble again after a failed
\* replay, prune what another owner keeps, or drop a younger resolved alert
\* before an older one.
PaperSteps ==
    /\ EndedIsNotResumed /\ FailedReplayIsFinal /\ OthersAreSpared /\ DroppedIsOldest

\* Resumed attempts, reads, stopped sessions and streams end.
PaperSettles ==
    /\ ResumeSettles /\ ReadEnds /\ BarsReadEnds /\ StopSettles /\ StreamEnds

\* What is kept and said of a paper run, by its backups, its alerts and the
\* soak gate, is true.
MonitoringSafe ==
    /\ BackupSafe /\ AlertSafe /\ GateSafe

\* With two restorers, two alerted runs, a file that is rewritten and a stream
\* that is stopped: what is kept, said and read of a paper run is true.
PaperSafe ==
    /\ MonitoringSafe /\ MarketDataSafe
=============================================================================
