--------------------------- MODULE DesktopSession ---------------------------
(***************************************************************************)
(* The lifecycle of one desktop backend process (src/ea/desktop.py): it    *)
(* starts a research core and a web server in a workspace, listens to the  *)
(* window on stdin, answers a requested shutdown with a drain, and owns    *)
(* the core until it is reaped.  A workspace that never became usable is   *)
(* left once for the default one.                                          *)
(*                                                                         *)
(* Coroutines of one event loop interleave at their awaits; the calls sent *)
(* to threads (quiesce, paper.shutdown) at any moment.  Every timeout may  *)
(* pass at any moment.                                                     *)
(***************************************************************************)
EXTENDS Naturals, Sequences, SequencesExt

VARIABLES
    at,                \* where the main coroutine is
    root,              \* the workspace in use: "selected" or "anchor"
    failing,           \* an exception is on its way out
    startup_finished,  \* no fallback from here on
    server,            \* "none", "starting", "up", "returned" or "failed"
    started,           \* server.started: stays set once the server is up
    should_exit,       \* server.should_exit
    reader,            \* parent_message is registered on stdin
    inbox,             \* shutdown requests written to stdin and not read
    eof,               \* the window's end of stdin is closed
    heard,             \* what was read of stdin (history)
    exits,             \* the request_exit tasks that have not finished
    stopping,
    parent_gone,
    research_drained,
    core,              \* the research core: alive or its exit, as it is asked
    paper,             \* local simulation: a run is live; admission is closed
    out,               \* lines on stdout the window has not read
    verdict,           \* the last closing receipt written to stdout
    exit_code          \* of this process: "none" while it runs

\* The process and its resources; stdin and stdout it shares with the window.
loop == <<at, root, failing, startup_finished>>
web == <<server, started, should_exit>>
closing == <<exits, stopping, parent_gone, research_drained>>
pipes == <<inbox, eof, out>>
vars == <<loop, web, closing, reader, heard, core, paper, verdict, exit_code,
          pipes>>

\* One request_exit: what it waits for.
ExitTask == [lost : BOOLEAN, state : {"queued", "running"},
             research : {"unasked", "wait", "yes", "no"},
             paper : {"wait", "yes", "no"}]

TypeOK ==
    /\ at \in {"opening", "booting", "starting", "ready", "papering",
               "webbing", "reaping", "over", "ended"}
    /\ root \in {"selected", "anchor"}
    /\ failing \in BOOLEAN /\ startup_finished \in BOOLEAN
    /\ server \in {"none", "starting", "up", "returned", "failed"}
    /\ started \in BOOLEAN /\ should_exit \in BOOLEAN /\ reader \in BOOLEAN
    /\ inbox \in Nat /\ eof \in BOOLEAN /\ heard \subseteq {"shutdown", "eof"}
    /\ exits \in Seq(ExitTask)
    /\ stopping \in BOOLEAN /\ parent_gone \in BOOLEAN
    /\ research_drained \in BOOLEAN
    /\ core \in [state : {"none", "up", "exit0", "exit70", "crashed", "killed"},
                 quiescing : BOOLEAN, busy : BOOLEAN]
    /\ paper \in [live : BOOLEAN, closing : BOOLEAN]
    /\ out \in Seq({"ready", "close_blocked"})
    /\ verdict \in {"none", "unknown", "closed", "interrupted"}
    /\ exit_code \in {"none", "0", "1"}

NewCore == [state |-> "none", quiescing |-> FALSE, busy |-> FALSE]
NewPaper == [live |-> FALSE, closing |-> FALSE]

\* session takes the selection lock, then opens the selected workspace.
Init ==
    /\ at = "opening" /\ root \in {"selected", "anchor"}
    /\ failing = FALSE /\ startup_finished = FALSE
    /\ server = "none" /\ started = FALSE /\ should_exit = FALSE
    /\ reader = FALSE /\ inbox = 0 /\ eof = FALSE /\ heard = {}
    /\ exits = <<>> /\ stopping = FALSE /\ parent_gone = FALSE
    /\ research_drained = FALSE
    /\ core = NewCore /\ paper = NewPaper
    /\ out = <<>> /\ verdict = "none" /\ exit_code = "none"

\* The event loop runs callbacks and tasks.  It does not while the core is
\* waited for: Popen.wait blocks the loop's own thread.
Looping == at \notin {"reaping", "over", "ended"}

\* emit: a line nobody can read any more is dropped.
Emit(line) == out' = IF eof THEN out ELSE Append(out, line)
-----------------------------------------------------------------------------
(***************************************************************************)
(* What happens around the session.                                        *)
(***************************************************************************)
\* The window's page submits an experiment; the core refuses when quiescing.
SubmitResearch ==
    /\ Looping /\ server = "up" /\ core.state = "up" /\ ~core.quiescing
    /\ core' = [core EXCEPT !.busy = TRUE]
    /\ UNCHANGED <<loop, web, closing, reader, heard, paper, verdict,
                   exit_code, pipes>>

\* The core's last owned attempt reaches a durable terminal state.
ResearchSettles ==
    /\ core.state = "up" /\ core.busy
    /\ core' = [core EXCEPT !.busy = FALSE]
    /\ UNCHANGED <<loop, web, closing, reader, heard, paper, verdict,
                   exit_code, pipes>>

CoreDies ==
    /\ core.state = "up"
    /\ core' = [core EXCEPT !.state = "crashed"]
    /\ UNCHANGED <<loop, web, closing, reader, heard, paper, verdict,
                   exit_code, pipes>>

\* DesktopPaper.start, refused once shutdown closed admission.
StartPaper ==
    /\ Looping /\ server = "up" /\ ~paper.closing /\ ~paper.live
    /\ paper' = [paper EXCEPT !.live = TRUE]
    /\ UNCHANGED <<loop, web, closing, reader, heard, core, verdict,
                   exit_code, pipes>>

\* DesktopPaper.shutdown, whole under its mutex: admission stays closed only
\* when every run reached a confirmed terminal.
PaperShutdown(confirmed) ==
    /\ ~confirmed => paper.live
    /\ paper' = [live |-> ~confirmed, closing |-> confirmed]

ServerStarts ==
    /\ Looping /\ server = "starting"
    /\ server' = "up" /\ started' = TRUE
    /\ UNCHANGED <<loop, should_exit, closing, reader, heard, core, paper,
                   verdict, exit_code, pipes>>

\* serve_web ends, asked to or by a failure.  A start the application refuses
\* makes the server ask itself to.
ServerStops ==
    /\ Looping /\ server \in {"starting", "up"}
    /\ \/ server' = "returned" /\ should_exit /\ UNCHANGED should_exit
       \/ server' = "returned" /\ server = "starting" /\ should_exit' = TRUE
       \/ server' = "failed" /\ UNCHANGED should_exit
    /\ startup_finished' = (startup_finished \/ started \/ should_exit')
    /\ UNCHANGED <<at, root, failing, started, closing, reader, heard, core,
                   paper, verdict, exit_code, pipes>>
-----------------------------------------------------------------------------
(***************************************************************************)
(* workspace_session: the main coroutine.                                  *)
(***************************************************************************)
\* The workspace is prepared and locked; the core is spawned.
OpenWorkspace ==
    /\ at = "opening"
    /\ at' = "booting" /\ core' = [NewCore EXCEPT !.state = "up"]
    /\ UNCHANGED <<root, failing, startup_finished, web, closing, reader, heard,
                   paper, verdict, exit_code, pipes>>

\* It is unusable, or another desktop holds its lock.
OpenFails ==
    /\ at = "opening"
    /\ at' = "over" /\ failing' = TRUE
    /\ UNCHANGED <<root, startup_finished, web, closing, reader, heard, core,
                   paper, verdict, exit_code, pipes>>

\* The core's socket answers: the page's server starts, stdin is listened to.
CoreAnswers ==
    /\ at = "booting" /\ core.state = "up"
    /\ at' = "starting" /\ server' = "starting" /\ reader' = TRUE
    /\ UNCHANGED <<root, failing, startup_finished, started, should_exit,
                   closing, heard, core, paper, verdict, exit_code, pipes>>

\* The core exited or is not ready in time, or the page's server cannot be
\* set up.
BootFails ==
    /\ at = "booting"
    /\ at' = "reaping" /\ failing' = TRUE
    /\ UNCHANGED <<root, startup_finished, web, closing, reader, heard, core,
                   paper, verdict, exit_code, pipes>>

\* The finally block: stdin is no longer listened to, paper is stopped.
Unwind(failed) ==
    /\ at' = "papering" /\ reader' = FALSE
    /\ failing' = failed
    /\ UNCHANGED <<root, started, server, closing, heard, core, paper,
                   verdict, exit_code, inbox, eof>>

\* while not server.started, one iteration that leaves the loop.
LeaveStarting ==
    /\ at = "starting" /\ ~started
    /\ \/ /\ server = "failed"
          /\ Unwind(TRUE) /\ UNCHANGED <<startup_finished, should_exit>>
       \/ /\ server = "returned"
          /\ Unwind(FALSE) /\ startup_finished' = TRUE /\ UNCHANGED should_exit
       \/ /\ server = "starting" /\ parent_gone
          /\ Unwind(FALSE) /\ startup_finished' = TRUE /\ should_exit' = TRUE
    /\ UNCHANGED out

BecomeReady ==
    /\ at = "starting" /\ started
    /\ at' = "ready" /\ startup_finished' = TRUE
    /\ Emit("ready")
    /\ UNCHANGED <<root, failing, web, closing, reader, heard, core, paper,
                   verdict, exit_code, inbox, eof>>

\* The server is done or the exit is agreed.
Closing == server # "up" \/ parent_gone

LeaveReady ==
    /\ at = "ready"
    /\ \/ Closing /\ Unwind(FALSE)
       \/ ~Closing /\ core.state # "up" /\ Unwind(TRUE)
    /\ UNCHANGED <<startup_finished, should_exit, out>>

StopPaper ==
    /\ at = "papering"
    /\ \/ /\ PaperShutdown(TRUE)
          /\ at' = "webbing" /\ should_exit' = TRUE
          /\ UNCHANGED <<failing, startup_finished>>
       \/ /\ PaperShutdown(FALSE)
          /\ at' = "reaping" /\ failing' = TRUE /\ startup_finished' = TRUE
          /\ UNCHANGED should_exit
    /\ UNCHANGED <<root, server, started, closing, reader, heard, core,
                   verdict, exit_code, pipes>>

\* wait_for(task): its result, or a cancelled server after the timeout.
AwaitServer ==
    /\ at = "webbing"
    /\ at' = "reaping"
    /\ \/ server = "returned" /\ UNCHANGED <<failing, startup_finished, server>>
       \/ /\ server = "failed" /\ failing' = TRUE
          /\ UNCHANGED <<startup_finished, server>>
       \/ /\ server \in {"starting", "up"}
          /\ failing' = TRUE /\ startup_finished' = TRUE /\ server' = "failed"
    /\ UNCHANGED <<root, started, should_exit, closing, reader, heard, core,
                   paper, verdict, exit_code, pipes>>

\* The core's answer to a closed stdin (Core::serve, main.rs): it exits
\* cleanly only when it was asked to quiesce and has nothing pending.
ExitOnClosedStdin ==
    IF core.quiescing /\ ~core.busy THEN "exit0" ELSE "exit70"

\* Mutant of Receipt: the core's exit is not looked at.
ReceiptUnread(exit) == IF research_drained THEN "closed" ELSE "interrupted"

Receipt(exit) ==
    IF research_drained /\ exit = "exit0" THEN "closed" ELSE "interrupted"

\* The outer finally block: close the core's stdin, wait, kill after 8 s.
ReapCore ==
    /\ at = "reaping"
    /\ at' = "over"
    /\ \E exit \in IF core.state = "up" THEN {ExitOnClosedStdin, "killed"}
                                        ELSE {core.state} :
          /\ core' = [core EXCEPT !.state = exit]
          /\ verdict' = Receipt(exit)
          /\ LET unconfirmed == research_drained /\ exit # "exit0"
             IN  /\ failing' = (failing \/ unconfirmed)
                 /\ startup_finished' = (startup_finished \/ unconfirmed)
    /\ UNCHANGED <<root, web, closing, reader, heard, paper, exit_code, pipes>>

\* The killed core is not reaped in 5 s: no receipt, and no other session.
ReapFails ==
    /\ at = "reaping" /\ core.state = "up"
    /\ at' = "over" /\ failing' = TRUE /\ startup_finished' = TRUE
    /\ UNCHANGED <<root, web, closing, reader, heard, core, paper, verdict,
                   exit_code, pipes>>
-----------------------------------------------------------------------------
(***************************************************************************)
(* session and main: one fallback, or the end of the process.              *)
(***************************************************************************)
MayFallBack == failing /\ root = "selected" /\ ~startup_finished

FallBack ==
    /\ at = "over" /\ MayFallBack
    /\ root' = "anchor" /\ at' = "opening" /\ failing' = FALSE
    /\ startup_finished' = FALSE
    /\ server' = "none" /\ started' = FALSE /\ should_exit' = FALSE
    /\ stopping' = FALSE /\ parent_gone' = FALSE /\ research_drained' = FALSE
    /\ core' = NewCore /\ paper' = NewPaper
    /\ UNCHANGED <<reader, exits, heard, verdict, exit_code, pipes>>

\* main returns: the tasks are cancelled, the process and its pipes are gone.
EndProcess ==
    /\ at = "over" /\ ~MayFallBack
    /\ at' = "ended" /\ exit_code' = IF failing THEN "1" ELSE "0"
    /\ failing' = FALSE /\ startup_finished' = FALSE
    /\ server' = "none" /\ started' = FALSE /\ should_exit' = FALSE
    /\ exits' = <<>> /\ stopping' = FALSE /\ parent_gone' = FALSE
    /\ research_drained' = FALSE /\ inbox' = 0
    /\ UNCHANGED <<root, reader, heard, core, paper, verdict, eof, out>>
-----------------------------------------------------------------------------
(***************************************************************************)
(* Stdin and the request_exit tasks.                                       *)
(***************************************************************************)
\* The task for a request, or for a lost parent: no permission to drain.
Queued(lost) == [lost |-> lost, state |-> "queued",
                 research |-> IF lost THEN "unasked" ELSE "wait",
                 paper |-> "wait"]

\* parent_message: one read takes every request in the pipe; an empty read is
\* the end of the pipe, and the last one.
ParentMessage ==
    /\ Looping /\ reader
    /\ startup_finished' = TRUE
    /\ \/ /\ inbox > 0 /\ inbox' = 0
          /\ heard' = heard \cup {"shutdown"}
          /\ exits' = Append(exits, Queued(FALSE)) /\ UNCHANGED reader
       \/ /\ inbox = 0 /\ eof
          /\ heard' = heard \cup {"eof"}
          /\ exits' = Append(exits, Queued(TRUE))
          /\ reader' = FALSE /\ UNCHANGED inbox
    /\ UNCHANGED <<at, root, failing, web, stopping, parent_gone,
                   research_drained, core, paper, verdict, exit_code, eof, out>>

\* request_exit up to its first await; a task is dropped while one is stopping.
StartExit(i) ==
    /\ Looping /\ exits[i].state = "queued"
    /\ \A j \in 1..(i - 1) : exits[j].state # "queued"
    /\ IF stopping
       THEN exits' = RemoveAt(exits, i) /\ UNCHANGED stopping
       ELSE exits' = [exits EXCEPT ![i].state = "running"] /\ stopping' = TRUE
    /\ UNCHANGED <<loop, web, parent_gone, research_drained, reader, heard,
                   core, paper, verdict, exit_code, pipes>>

\* drain_research polls quiesce: the core closes admission and says whether
\* its work has settled; the reply may be lost.
AskQuiesce(i) ==
    /\ exits[i].state = "running" /\ exits[i].research = "wait"
    /\ core.state = "up"
    /\ core' = [core EXCEPT !.quiescing = TRUE]
    /\ \/ ~core.busy /\ exits' = [exits EXCEPT ![i].research = "yes"]
       \/ UNCHANGED exits
    /\ UNCHANGED <<loop, web, stopping, parent_gone, research_drained, reader,
                   heard, paper, verdict, exit_code, pipes>>

\* The deadline of drain_research passes.
DrainTimesOut(i) ==
    /\ exits[i].state = "running" /\ exits[i].research = "wait"
    /\ exits' = [exits EXCEPT ![i].research = "no"]
    /\ UNCHANGED <<loop, web, stopping, parent_gone, research_drained, reader,
                   heard, core, paper, verdict, exit_code, pipes>>

ExitStopsPaper(i) ==
    /\ exits[i].state = "running" /\ exits[i].paper = "wait"
    /\ \E confirmed \in BOOLEAN :
          /\ PaperShutdown(confirmed)
          /\ exits' = [exits EXCEPT ![i].paper = IF confirmed THEN "yes"
                                                              ELSE "no"]
    /\ UNCHANGED <<loop, web, stopping, parent_gone, research_drained, reader,
                   heard, core, verdict, exit_code, pipes>>

Agreed(task, drained) == (task.lost \/ drained) /\ task.paper = "yes"

\* request_exit after its awaits: the exit is agreed, or the block reported.
FinishExit(i) ==
    LET task == exits[i] IN
    /\ Looping /\ task.state = "running"
    /\ task.research # "wait" /\ task.paper # "wait"
    /\ research_drained' = IF task.lost THEN research_drained
                                        ELSE task.research = "yes"
    /\ IF Agreed(task, research_drained')
       THEN /\ parent_gone' = TRUE /\ should_exit' = TRUE
            /\ UNCHANGED <<out, verdict>>
       ELSE /\ Emit("close_blocked")
            /\ verdict' = IF task.lost THEN "unknown" ELSE verdict
            /\ UNCHANGED <<parent_gone, should_exit>>
    /\ stopping' = FALSE /\ exits' = RemoveAt(exits, i)
    /\ UNCHANGED <<loop, server, started, reader, heard, core, paper,
                   exit_code, inbox, eof>>
-----------------------------------------------------------------------------
Main ==
    \/ OpenWorkspace \/ OpenFails \/ CoreAnswers \/ BootFails
    \/ LeaveStarting \/ BecomeReady \/ LeaveReady
    \/ StopPaper \/ AwaitServer \/ ReapCore \/ ReapFails
    \/ FallBack \/ EndProcess

ExitStep(i) ==
    \/ StartExit(i) \/ AskQuiesce(i) \/ DrainTimesOut(i) \/ ExitStopsPaper(i)
    \/ FinishExit(i)

Backend ==
    \/ Main \/ ParentMessage \/ ServerStarts \/ ServerStops
    \/ \E i \in DOMAIN exits : ExitStep(i)

Surroundings == SubmitResearch \/ ResearchSettles \/ CoreDies \/ StartPaper
=============================================================================
