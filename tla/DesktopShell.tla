---------------------------- MODULE DesktopShell ----------------------------
(***************************************************************************)
(* The window that owns the desktop backend (apps/desktop/src-tauri/src/   *)
(* main.rs), composed with it over the backend's stdin and stdout.  The    *)
(* main thread authorizes exits; each authorized exit has a thread that    *)
(* asks the backend to shut down and watches it; another thread reads the  *)
(* backend's stdout.  They share four atomic flags, and each store is a    *)
(* step of its own where two follow each other.                            *)
(***************************************************************************)
EXTENDS DesktopSession

CONSTANT MaxQuits  \* exits that are authorized

ASSUME MaxQuitsAssumption == MaxQuits \in Nat

VARIABLES
    alive,           \* the window's process runs
    child,           \* the backend was spawned
    page,            \* "loading", "product" or "error"
    exiting, finished, quit_confirmed, quit_prompt_pending,
    watchers,        \* the threads of the authorized exits
    listener         \* the thread that reads stdout

flags == <<exiting, finished, quit_confirmed, quit_prompt_pending>>
shell == <<alive, child, page, flags, watchers, listener>>
desktop == <<vars, shell>>

ShellTypeOK ==
    /\ TypeOK
    /\ alive \in BOOLEAN /\ child \in BOOLEAN
    /\ page \in {"loading", "product", "error"}
    /\ exiting \in BOOLEAN /\ finished \in BOOLEAN
    /\ quit_confirmed \in BOOLEAN /\ quit_prompt_pending \in BOOLEAN
    /\ watchers \in Seq({"asking", "polling", "rearming", "done"})
    /\ listener \in {"reading", "rearming", "done"}

\* A data root that is refused, or a failed spawn, leaves the window without a
\* backend.
ShellInit ==
    /\ Init
    /\ alive = TRUE /\ child \in BOOLEAN
    /\ page = IF child THEN "loading" ELSE "error"
    /\ exiting = FALSE /\ finished = FALSE
    /\ quit_confirmed = FALSE /\ quit_prompt_pending = FALSE
    /\ watchers = <<>>
    /\ listener = IF child THEN "reading" ELSE "done"
-----------------------------------------------------------------------------
(***************************************************************************)
(* Session::authorize_exit on the main thread.                             *)
(***************************************************************************)
\* Mutant of Authorize: exiting is stored without looking at its old value.
AuthorizeAgain == exiting' = TRUE /\ watchers' = Append(watchers, "asking")

\* !exiting.swap(true): the first to set the flag starts the shutdown.
Authorize ==
    /\ exiting' = TRUE
    /\ watchers' = IF exiting THEN watchers ELSE Append(watchers, "asking")

Unasked == page = "product" /\ ~quit_confirmed

\* An exit request that needs no confirmation, or has it.
RequestExit ==
    /\ alive /\ ~finished /\ ~exiting /\ ~Unasked
    /\ Len(watchers) < MaxQuits
    /\ Authorize
    /\ UNCHANGED <<vars, alive, child, page, finished, quit_confirmed,
                   quit_prompt_pending, listener>>

\* The product page asks first; the modal loop goes on taking events.
OpenPrompt ==
    /\ alive /\ ~finished /\ ~exiting /\ Unasked /\ ~quit_prompt_pending
    /\ Len(watchers) < MaxQuits
    /\ quit_prompt_pending' = TRUE
    /\ UNCHANGED <<vars, alive, child, page, exiting, finished, quit_confirmed,
                   watchers, listener>>

CancelPrompt ==
    /\ alive /\ quit_prompt_pending
    /\ quit_prompt_pending' = FALSE
    /\ UNCHANGED <<vars, alive, child, page, exiting, finished, quit_confirmed,
                   watchers, listener>>

ApprovePrompt ==
    /\ alive /\ quit_prompt_pending
    /\ Len(watchers) < MaxQuits
    /\ quit_prompt_pending' = FALSE /\ quit_confirmed' = TRUE
    /\ Authorize
    /\ UNCHANGED <<vars, alive, child, page, finished, listener>>
-----------------------------------------------------------------------------
(***************************************************************************)
(* The thread of an authorized exit.                                       *)
(***************************************************************************)
\* It writes "shutdown" to the backend, or finds that there is none.
AskShutdown(w) ==
    /\ alive /\ watchers[w] = "asking"
    /\ IF child
       THEN /\ watchers' = [watchers EXCEPT ![w] = "polling"]
            /\ inbox' = IF exit_code = "none" THEN inbox + 1 ELSE inbox
            /\ UNCHANGED finished
       ELSE /\ watchers' = [watchers EXCEPT ![w] = "done"]
            /\ finished' = TRUE /\ UNCHANGED inbox
    /\ UNCHANGED <<loop, web, closing, reader, heard, core, paper, verdict,
                   exit_code, eof, out, alive, child, page, exiting,
                   quit_confirmed, quit_prompt_pending, listener>>

\* try_wait found the backend's exit.
Reaped(w) ==
    /\ exit_code # "none"
    /\ IF exit_code = "0"
       THEN /\ finished' = TRUE /\ watchers' = [watchers EXCEPT ![w] = "done"]
            /\ UNCHANGED exiting
       ELSE /\ exiting' = FALSE
            /\ watchers' = [watchers EXCEPT ![w] = "rearming"]
            /\ UNCHANGED finished

\* Mutant of TimesOut: the deadline leaves the exit in progress.
TimesOutQuietly(w) ==
    /\ exit_code = "none" /\ exiting
    /\ watchers' = [watchers EXCEPT ![w] = "done"]
    /\ UNCHANGED <<exiting, finished>>

\* 30 s passed.
TimesOut(w) ==
    /\ exit_code = "none" /\ exiting
    /\ exiting' = FALSE /\ watchers' = [watchers EXCEPT ![w] = "rearming"]
    /\ UNCHANGED finished

\* The backend refused: the listener ended this exit.
Refused(w) ==
    /\ exit_code = "none" /\ ~exiting
    /\ watchers' = [watchers EXCEPT ![w] = "done"]
    /\ UNCHANGED <<exiting, finished>>

PollBackend(w) ==
    /\ alive /\ watchers[w] = "polling"
    /\ Reaped(w) \/ TimesOut(w) \/ Refused(w)
    /\ UNCHANGED <<vars, alive, child, page, quit_confirmed,
                   quit_prompt_pending, listener>>

\* The second store of an exit that did not succeed.
Rearm(w) ==
    /\ alive /\ watchers[w] = "rearming"
    /\ quit_confirmed' = FALSE /\ watchers' = [watchers EXCEPT ![w] = "done"]
    /\ UNCHANGED <<vars, alive, child, page, exiting, finished,
                   quit_prompt_pending, listener>>
-----------------------------------------------------------------------------
(***************************************************************************)
(* The listener, and the end of the window.                                *)
(***************************************************************************)
HearLine ==
    /\ alive /\ listener = "reading" /\ out # <<>>
    /\ out' = Tail(out)
    /\ IF Head(out) = "ready"
       THEN page' = "product" /\ UNCHANGED <<exiting, listener>>
       ELSE exiting' = FALSE /\ listener' = "rearming" /\ UNCHANGED page
    /\ UNCHANGED <<loop, web, closing, reader, heard, core, paper, verdict,
                   exit_code, inbox, eof, alive, child, finished,
                   quit_confirmed, quit_prompt_pending, watchers>>

ListenerRearms ==
    /\ alive /\ listener = "rearming"
    /\ listener' = "reading" /\ quit_confirmed' = FALSE
    /\ UNCHANGED <<vars, alive, child, page, exiting, finished,
                   quit_prompt_pending, watchers>>

\* Stdout ended.
HearEnd ==
    /\ alive /\ listener = "reading" /\ out = <<>> /\ exit_code # "none"
    /\ listener' = "done"
    /\ page' = IF exiting THEN page ELSE "error"
    /\ UNCHANGED <<vars, alive, child, flags, watchers>>

\* The window's process ends, by ExitRequested once finished or by a crash:
\* its threads and its ends of the pipes are gone.
CloseWindow(crash) ==
    /\ alive /\ (finished \/ crash)
    /\ alive' = FALSE /\ eof' = TRUE /\ out' = <<>>
    /\ exiting' = FALSE /\ finished' = FALSE
    /\ quit_confirmed' = FALSE /\ quit_prompt_pending' = FALSE
    /\ watchers' = <<>> /\ listener' = "done"
    /\ UNCHANGED <<loop, web, closing, reader, heard, core, paper, verdict,
                   exit_code, inbox, child, page>>
-----------------------------------------------------------------------------
User == RequestExit \/ OpenPrompt \/ CancelPrompt \/ ApprovePrompt

Watch(w) == AskShutdown(w) \/ PollBackend(w) \/ Rearm(w)

Listen == HearLine \/ ListenerRearms \/ HearEnd

BackendStep == child /\ (Backend \/ Surroundings) /\ UNCHANGED shell

\* The window is closed and the backend ended, or was never there.
AllDone == ~alive /\ (child => exit_code # "none") /\ UNCHANGED desktop

Next ==
    \/ BackendStep \/ User \/ Listen
    \/ \E w \in DOMAIN watchers : Watch(w)
    \/ \E crash \in BOOLEAN : CloseWindow(crash)
    \/ AllDone

Spec == ShellInit /\ [][Next]_desktop
-----------------------------------------------------------------------------
(***************************************************************************)
(* Properties.                                                             *)
(***************************************************************************)
\* The receipt "closed" (desktop.py) is written only over a core that exited
\* cleanly, with admission closed and all of its research settled, however
\* the drain, a dying core and the reaping interleaved.
ClosedIsProven ==
    verdict = "closed" =>
        core.state = "exit0" /\ core.quiescing /\ ~core.busy

\* The window lets a ready session go (main.rs, finished) only when the
\* backend exited with 0 and by then neither research nor a local simulation
\* was left running, nor could any start.
FinishedIsSettled ==
    (finished /\ child /\ page = "product") =>
        exit_code = "0" /\ core.quiescing /\ ~core.busy /\ ~paper.live

\* An exit in progress always has a thread that will end it: no order of the
\* stores by the watchers, the listener and the main thread leaves exiting
\* set for ever, which would make the window impossible to close.
NoOrphanExit ==
    (exiting /\ ~finished) =>
        \E w \in DOMAIN watchers : watchers[w] \in {"asking", "polling"}

\* However many requests and losses stdin delivers, one request_exit at a
\* time is past its check of stopping.
OneDrain ==
    \A i, j \in DOMAIN exits :
        exits[i].state = "running" /\ exits[j].state = "running" => i = j

\* The loss of the window is no permission to cancel research: the core is
\* told to quiesce only after a requested shutdown was read.
OnlyARequestQuiesces == core.quiescing => "shutdown" \in heard

\* The session moves to the default workspace only when the selected one's
\* core is gone, the page was never shown and nothing was read of stdin: a
\* quit request is never lost in the change.
FallbackIsFresh ==
    [][root' # root => /\ core.state # "up" /\ exits = <<>> /\ heard = {}
                       /\ "ready" \notin ToSet(out) /\ page = "loading"]_desktop

\* No second shutdown thread is started while an exit is in progress, also
\* when the prompt is approved after another request went through.
SingleDispatch == [][Len(watchers') > Len(watchers) => ~exiting]_desktop

\* An exit in progress ends: the window closes, or takes another request.
QuitIsAnswered == exiting ~> (~exiting \/ finished \/ ~alive)

\* Once request_exit agreed to the exit, the backend process ends.
AgreedExitEnds == parent_gone ~> exit_code # "none"

\* The loss of the window alone ends the backend, when local simulations
\* stop: EOF, with no shutdown requested before it.
OwnerLossEnds ==
    (<>[]~paper.live /\ []("shutdown" \notin heard)) =>
        ((eof /\ child) ~> exit_code # "none")

\* desktop.py: "EOF (including a desktop crash) closes this session."  Stated
\* for sessions whose local simulations stop.
EofEndsSession == (<>[]~paper.live) => ((eof /\ child) ~> exit_code # "none")

\* What the user may rely on when a session closes: the receipt is proven, the
\* window goes only from a settled session, one drain runs at a time, and only
\* a request quiesces the core.
DesktopSafe ==
    /\ ShellTypeOK /\ ClosedIsProven /\ FinishedIsSettled /\ OneDrain
    /\ OnlyARequestQuiesces
=============================================================================
