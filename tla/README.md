# Formal models of the research core and its workstation

This directory is a TLA+ development of the repository: of the Rust process that
decides, durably, what a confirmed experiment may do (`crates/quine-core`), of
the desktop application that owns it, and of the Python side around it: the web
service and its model conversations, the trading runtime with its authorities,
and what a run leaves on disk.  The question is everywhere the same: *what can be
lost, done twice, done out of order or reported wrongly, whatever crashes,
restarts, fails half way or arrives late?*

## 1. Inventory

| Component | State | Operations | Hard part |
|---|---|---|---|
| Store (`store.rs`, `recovery.rs`) | attempt rows, cancellation barriers, workspace lock, host evidence | confirm, cancel, dispatch, mark, commit, settle, prepare and release a recovery, reconcile | stale fences, replays, restarts between two calls, a workspace moved to another machine |
| Event loop (`core.rs`, `result.rs`) | runs (phase, stop, aborted, stopped), admitted keys, published bytes | client requests, tick (freeze, worker, validate, commit), quiesce | lost receipts, failed writes, the core or its machine dying inside a handler |
| Supervision (`supervise.rs`) | the guard of one process group | spawn, poll | leftover descendants, failing waits, grace periods racing exits |
| Desktop session and shell (`desktop.py`, `apps/desktop/src-tauri`) | the owned core, exit tasks, drain receipts; four atomic flags, shutdown threads | open, drain, unwind, reap, fall back; authorize, watch, listen | end of input during a drain, deadlines racing refusals, two stores of two threads |
| Audit journal (`experiments/audit.py`) | framed records, an index, a closing allowance | append, retry, settle, close, reopen | torn frames, an fsync or read-back that raises |
| Lifecycle coordinator (`runtime/coordinator.py`) | staged records of a dispatch, the ledger gate | stage, append, retry, finish, recover | a death or a refused append between any two stages |
| Submission authorization (`runtime/authorization.py`) | attempts, burned authority, recorded outcomes | prepare, settle, verify, activate, recover | drift between reading, record and effect |
| Execution messages and facts (`core/execution_messages.py`, `execution/fact_authority.py`) | messages, fact histories, projections, fills | factories and decoders; ingress, resolution, publication | reports that cross, contradict, overfill or name their order late |
| Matcher (`execution/matcher.py`) | submissions, dispositions, histories | submit, match, expire, replay | look-ahead, re-entry from a callback, reuse of a sequence |
| Risk and order authority (`risk/authority.py`, `execution/authority.py`) | decisions, orders, the halt | evaluate, halt, create | repeated and altered requests |
| Signals and planning (`strategy/authority.py`, `portfolio/planning.py`) | replays of signals and plans | issue, plan, rebind, resume | two intents on one snapshot |
| Portfolio ledger and reconciliation | log, balances, handoffs, refreshes; outcomes, proposals, permits | fills, handoffs, refresh; compare, propose, permit, adjust | one fact over two paths, a frontier that moves |
| Queue and historical dispatcher (`runtime/queue.py`, `runtime/historical.py`) | plans, leases; clock, promises, retained answers, trace | plan, lend, acknowledge; poll, select, pop, advance | two producers that answer at different moments |
| Conversations, drafts, research tasks (`web/user_strategies.py`, `web/research.py`) | one document per strategy, one record per task | admit, call, decide, cancel, resume; edit, propose, undo; reserve, run, conclude | calls that reached a provider and were not recorded, cancellations without a lock |
| Jobs and launches (`web/service.py`, `web/quine.py`) | durable and indexed records, one executor thread; projections of core-owned runs | create, stop, supervise, publish, restart; confirm, query, reconcile | writes that replace and still raise, replies that are lost |
| Uploads and packages (`web/uploads.py`, `web/local_packages.py`) | versions as three files; one slot as five | preview, publish, sweep, load; register, revoke, load | an owner that dies between two files |
| Result store and backtest (`experiments/store.py`, `product/backtest.py`) | attempt directory, lock, one-use capabilities; result files | prepare, classify, recover, admit; run, resume, publish | two processes at one attempt |
| Paper trading (`product/paper*.py`, `product/market_stream.py`) | session and broker, backups, alert stream, gate evidence, market ingress | dispatch, recover, restore; capture, prune; evaluate; observe and judge; poll and drain | processes without a common lock, deaths between two records |
| Historical data (`data/historical.py`, `plugin/historical_bars.py`) | the capture file and its cursor; pages, envelope | read, select, admit; fetch, paste, re-derive | a file rewritten during a read, deadlines and rate limits |

How they interact.  A desktop window owns a backend process over stdin and
stdout; the backend owns the core through a pipe whose end is the order to leave.
Clients reach the core's loop over a socket; each handler calls the store one
transaction at a time and spawns children through guards.  The web service keeps
projections of what the core owns and jobs of its own.  Inside a run, the
dispatcher lends one root at a time to the coordinator, which stages signals,
plans, risk decisions, authorizations, submissions and facts through their
authorities and records every stage in the audit journal; the ledger is moved by
handoffs of audited facts and by adjustments of the reconciliation.

What makes each part correct is what its `...Safe` definition states (section 3).

## 2. Modules

Each component module declares its own CONSTANTS with their assumption, its
variables, its Init, one action per operation, its specification and its
properties; the last definition, `XSafe`, is the conjunction of its type
invariant and its safety invariants.

| Module | Models |
|---|---|
| `SlotLedger` | abstract: one slot, a verdict per experiment, cancellations no result overtakes |
| `QuineAttempt`, `QuineStore` | one attempt row with the guard and effect of every method; the store under an arbitrary caller. Implements `SlotLedger` |
| `QuineCore` | the event loop, its children, faults, crashes and restarts. Implements `SlotLedger` |
| `OwnedGroup`, `ChildGuard` | abstract: what the loop relies on of one supervised group; `ChildGuard::poll`, which implements it |
| `DesktopSession`, `DesktopShell` | the backend process; the window composed with it over the pipes |
| `AuditJournal` | the journal of a run |
| `LifecycleCoordinator`, `SubmissionAuthorization` | the staged calls of a dispatch and their recovery; the authority of a submission |
| `ExecutionMessages`, `ExecutionFacts`, `HistoricalMatcher` | factories and decoders; fact histories, projections and fills; the simulated venue |
| `RiskGate`, `SignalPlanning` | intents to orders; dispatches to intents |
| `PortfolioLedger`, `Reconciliation` | the double-entry log; the authority above it |
| `HistoricalRuntime` | the order of roots and the queue that lends them out, and the two-producer dispatcher with its trace validator |
| `ConversationTurn`, `StrategyDraft`, `ResearchTask` | model conversations, drafts and research tasks |
| `JobService`, `CoreLaunch` | local jobs and their workers; launches through the core |
| `WorkspaceInputs` | what a workspace keeps for its runs, file by file: uploaded dataset versions and the slot of the trusted package |
| `ResultStore`, `BacktestAttempt` | the attempt directory and its recovery; an offline backtest and its resume |
| `HistoricalData` | the guarded capture file and the selection over it; the paged bar adapter |
| `PaperSession`, `PaperBackup`, `PaperAlerts`, `PaperGate`, `MarketStream` | the paper runtime and what watches it |
| `MCQuineStore`, `MCControl`, `MCWeb`, `MCTrading`, `MCPaper` | finite instances |
| `AttemptProofs`, `QuineStoreProofs`, `CoreProofs`, `ControlProofs`, `TradingProofs`, `PaperProofs`, `WebProofs`, `InputsProofs` | proofs |

**Correspondence.**  An attempt row is a record with the columns of the `attempt`
table that decide anything, joined with the binding of its experiment; a store
method is a pair `MayX` / `XRow`, one action of `QuineStore` and a call inside the
handlers of `QuineCore`.  A refused call is a stuttering step.  In `QuineCore` a
handler is one action with all the store calls it makes; each may succeed, fail,
or commit and lose its receipt.  `groups[k]` is the machine on which a process
group lives: it survives the core, not a reboot.  In `DesktopSession`, `at` is the
await at which the main coroutine stands, and a request_exit task is a record in
`exits`.  In the Python modules an action is what runs under one lock or in one
transaction, or between two awaits; a `pc` field says where a call that spans
several of them stands.  A digest is the value it digests, a document the record
it encodes; a write that may raise is told apart into one that left the file and
one that replaced it.

**Part.**  `MCControl`, `MCWeb`, `MCTrading` and `MCPaper` put components that
share no variable side by side.  The code couples them by durable records and
calls whose other side each module models as far as it sees it (`QuineCore`
assumes of a group what `OwnedGroup` says, which `ChildGuard` is shown to keep;
`PortfolioLedger` is one state with `Reconciliation`).  Their free product would
only multiply states, so `part` is chosen at the start from `Parts` and one
component moves; the theorems of section 5 about `ControlSpec`, `TradingSpec`,
`PaperSpec` and `WebSpec` show what each component keeps in the composition.

Operators whose comment calls them a *mutant* are deliberately broken variants of
the definition that follows them.  They are not part of the specification; each
one, put in place of its original, makes one checked property fail.

## 3. Runs

| Run | States | What it shows |
|---|---|---|
| `store` | 184 thousand | `StoreSafe` (one active row, cancellations win, holdout sources stay registered, release after restart, honest recovery advice), settled rows are final, every change moves the revision, refinement of `SlotLedger` |
| `core` | 675 thousand | `CoreSafe` (compute only under the slot and one at a time, one launch per confirmation, published successes, clean exits, truthful stop flags), refinement of `SlotLedger`; also that `CoreInv` holds |
| `desktop` | 854 thousand | `DesktopSafe` (proven closes, nothing left behind a closed window, one drain at a time, no drain on owner loss), no orphaned exit, one dispatch at a time, kills only after the grace period, fresh fallbacks, refinement of `OwnedGroup` |
| `control_live` | 91 thousand | cancelled and aborted runs settle, stops are proven, quits are answered, agreed exits end, owner loss ends the backend |
| `web` | 1.04 million | conversations, drafts, research tasks, jobs, launches, uploads and packages are safe; no dispatch after a cancellation, no second sending of an unknown proposal, final outcomes, nothing published while closing, a clean start |
| `web_live` | 52 thousand | the same with grants, quota and a crashing registration at their limits; turns, reservations, jobs and their slot, launches and publications settle |
| `trading` | 279 thousand | coordinator (and, with crashes alone, its own recovery accepts the journal), authorization, facts, matcher, ledger and both dispatchers are safe; burned authority has no effect, contradictions halt, terminal orders stay, a halted matcher is frozen, histories are kept, offers stand |
| `trading_live` | 104 thousand | risk gate, planning, messages, fact histories and reconciliation are safe; halts are final, coordinated runs and historical replays end |
| `paper` | 504 thousand | journal, result store, backtest, session, backups, alerts, gate and market data are safe; ended attempts are not resumed, other owners' backups are spared, a failed replay is final |
| `paper_live` | 168 thousand | two restorers, two alerted runs, a file rewritten during its read and a stream that is stopped; resumed attempts, reads, stopped sessions and streams end |
| `desktop_eof`, `backtest_race` | - | counterexamples: section 4 |

**Bounds.**  Every bound is a CONSTANT of a `.cfg`, and the constants whose names
begin with `Max` are the only ones.  Two experiments are enough for one to hold
the slot while the other asks for it; a row moves at most eight times, so fences
1..8 present every fresh and every stale revision; two boots of each of two
machines give a restart between any two events; two quits make a thread of the
first meet the second.  Two jobs fill a batch and the executor slot; two intents
let one launch be read while another is sent.  Two or three faults per component
put a fault on either side of a recovery.  The journal has room for four frames
of which two are reserved for its close, so that the reserve is met by an
ordinary, a reconciliation and a closing record.  Three roots and four orders
let an order be decided before, on and after a bar; the queue's batches tie in
time across every domain.  Page limit, page budget and deadline of the bar
adapter are met exactly by some query and exceeded by another.  The liveness runs
are smaller, because a cycle needs no second fault.  Preparation ids, machines
and, in `core`, experiments are interchangeable, hence the symmetry sets there; the
liveness runs use none.  Deadlock is checked in `store`, `core`, `desktop`,
`control_live` and `desktop_eof`; in the others a component that has used up its
requests, or has ended, stops.

**Fairness.**  `ControlFairness`: the loop ticks runs *without faults* (`serve`
ticks for ever; the claim is that a store which writes again settles what is
pending), SIGKILL takes effect, the guard is polled and time passes; the awaits
of the session's own coroutines have timeouts, the threads of the window run; the
quiesce call, the web server and the user are not fair.  `WebFairness`: a turn
that is driven goes on, the executor thread runs while the service does, a
client's bounded wait ends, the core comes back; strategies and tasks are read
again and again, strongly, because another operation may hold the lock in
between.  `TradingFairness`: the driver calls resume, authorize, submit and
complete again and again, sources are polled, offers selected, leases popped and
acknowledged.  `PaperFairness`: a process that runs goes on, a dead attempt is
resumed, a request is answered or times out.  Nothing is assumed of clients,
crashes, restarts or the outside world.

## 4. Where the code and its documents disagree

Two runs expect a violation.

`desktop_eof` refutes "EOF (including a desktop crash) closes this session"
(`desktop.py:4`).  The user quits; while the drain is in progress the window
crashes; `parent_message` reads the end of input, unregisters itself and starts
`request_exit(True)`, which returns because `stopping` is set.  If the drain then
ends without confirmation, `close_blocked` is written to nobody and nothing ends
the session any more.  `OwnerLossEnds` shows that without an earlier request the
docstring is right.

`backtest_race` shows that a completed attempt does not stay completed:
`run_backtest_scenario` gives up the writer lock before it publishes
(`backtest.py:1355`), so a resume may publish the same attempt at the same time,
and the staged file one of them leaves makes every later resume ambiguous.

Met while modelling, in behaviours the models contain, and not kept as runs of
their own:

- `core.rs:1171`: a run whose failing registration is dropped stays in
  `Phase::Idle` with its attempt unsettled, against the comment at `core.rs:101`.
- `main.rs:372`: a request between the two stores that end an unsuccessful exit is
  authorized on the old confirmation.
- `audit.py:1122`: the closing allowance is not spent when a reconciliation record
  is answered from the index, so the terminal record can be refused.
- `_coordinator_recovery.py:1031` and `coordinator.py:1276`: two journals the
  coordinator itself writes, after a refused append, that its recovery refuses.
  This is why `RecoveryAccepts` is stated for crashes as the only faults.
- `user_strategies.py:5718`: between two transactions only the checkpoint knows an
  awaited decision.  `:4303`, `:4492`, `:4600`: a refused launch whose run exists,
  a cached result served during an outage, a terminal projection rewritten.
- `research.py:1833` and `:3208`: a cancellation between the two writes of a
  re-binding cancels a finished task; an unknown conclusion may be asked again.
- `service.py:2347` and `:2784`: a first record whose write raised is not in the
  index, so its request can be admitted twice; a job may keep its running record
  without a thread.
- `paper.py:1097`, `:1130`, `paper_recovery.py:884`, `:891`: restorations that pair
  orders and fills by index, reuse a dispatch number, drop a halt that was not yet
  acknowledged, or refuse a journal between a dispatch and its refresh.
- `paper_backup.py:853`, `:884`, `:1126`: a capture across a lease that came and
  went, a refused capture that stays published, a clean-up of another's target.
- `cli/app.py:794`, `paper_alerts.py:961`, `paper_session.py:292`: two evaluations that
  overwrite each other, a signal looked up without its run, an ended run read as
  interrupted.
- `historical_bars.py:1090`: a range of exactly the page budget is refused as larger.
- `backtest.py:1560`: a rejection met by a resume is recorded as an internal error.
- `local_packages.py:616`: a repeated registration that fails half way leaves a
  trusted slot with another base's scenario.

`PROJECT.json` lists the hazards of the code, each at its line, with the
properties that cover it.

## 5. Proofs

Everything below holds for *every* value of the constants that satisfies the
named assumptions of the modules; the runs are small instances of it.

| Module | Theorems | Inductive invariant |
|---|---|---|
| `QuineStoreProofs` | `StoreIsSafe`, `ClosedStaysClosed`, `RevisionsFence`, `StoreImplementsLedger` and the parts of `StoreSafe` one by one | `StoreInv` |
| `CoreProofs` | `CoreIsSafe`, `CoreImplementsLedger` | `CoreInv` |
| `ControlProofs` | `StoppedMeansAbsent`, `GraceIsKept`, `GuardImplementsContract`; `ExitIsNeverOrphaned`, `DispatchIsSingle`; `SessionIsSafe`, `SessionFallsBackFresh`; `ControlKeepsSteps`, `ControlIsSafe` | `GuardInv`, `WindowInv`, `DesktopInv` |
| `TradingProofs` | `AuthorizationIsSafe`, `BurnedStaysWithoutEffect`; `RiskIsSafe`, `RiskHaltIsFinal`; `FactsAreSafe`, `FactStepsHold`; `LedgerIsSafe`, `HistoryStands`; `TradingIsSafe`, `LedgerIsSafeThere` | `AuthInv`, `RiskInv`, `FactInv`, `LedgerInv` |
| `PaperProofs` | `JournalIsSafe`; `ResultIsSafe`, `EndedStays`, `FailedReplayStays`; `AttemptIsSafe`; `PaperIsSafe`, `PaperResumesOnce` | `JournalInv`, `StoreInv`, `AttemptInv` |
| `WebProofs` | `LaunchIsSafe`; `JobIsSafe`, `OutcomesStand`; `ResearchIsSafe`, `UnknownStaysUnsent`; `CancelBars`; `StartsClean`; `WebStepsHold` | `LaunchInv`, `JobInv`, `ResearchInv`, `TurnInv` |
| `InputsProofs` | `UploadsAreSafe`; `PackagesAreSafe`; `InputsAreSafe` | `UploadInv` with `UploadQuota`; `PackageInv` |

*The store.*  The properties are not inductive alone.  `StoreInv` adds that the
recovery evidence of a row lies in boots that happened, in order
(`EvidenceOrdered`), that an open store's context is its host (`ContextIsHost`)
and that a stop has its barrier on record (`CancelRecorded`).  A row is good by
`RowInv` (`QuineAttempt`); `AttemptProofs` shows of every method that it leaves a
good row and changes only what its kind of write may; `WritePreserves` lifts that
to the table.

*The event loop.*  `CoreInv` is one conjunct per key, `KeyInv`: what the durable row,
the run in memory and the process group of one experiment know of each other.
The row may lag behind (a write that failed), the memory may be behind it (a
receipt that was lost), and compute may outlive both; `KeyInv` says which of
these combinations exist.  The proof has three layers.  A handler touches one key
(`Handles`), so it is enough that it keeps the invariant of its own; what it
leaves of the row is an overwrite of the kinds `AttemptProofs` knows
(`Overwrites`, composed over the several writes of one handler); and the slot
stays single because a row becomes active only where the table had no active row
(`Admits`) or through a write that keeps it active.  The refinement of
`SlotLedger` follows per handler: `Admits`, `Cancels` and `WritesOver` are a
confirmation, an accepted cancellation, and a verdict or a step the ledger does
not see; `ReleaseIsAlone` and the fact that a key that ends was the holder close
the case of a recovery.

*The guard, the window, the session.*  `GuardInv` ties the guard's flags to what
exists of the group.  `WindowInv` says the threads form a sequence of known
states; the thread that leaves `polling` clears `exiting` or finds it clear, and
the one that sets it is new.  `DesktopInv` relates every await of the session to
what must have happened before it.

*Authorization, risk, journal.*  `AuthInv` accounts for each record of the journal by
exactly one thing the authority holds: the attempt of its order, an unresolved
payload, or the call in progress.  `RiskInv` says that issued sequences are dense
and every order is of a decision the policy still gives.  `JournalInv` says that
the writer's index is a prefix of the file and that every indexed frame no scan
found is synced.

*Execution facts.*  `FactInv` adds to the properties what a projection may show of
an order of which a quantity was observed (`OrderOk`: none before the first trade, the
observed quantity itself while it is partly filled), that a venue identity is bound to
an issued order only, and that every fill is of a known fact.  `MovedFits` is the
arithmetic of one report; from it follow that the constructor takes every snapshot a
report leads to (`ReportFits`) and that a report without an anomaly leaves observed
and projected equal (`AfterAgrees`).  What was filled of an order is a sum over the
numbers of its fills.  The first section on sums shows that the fold exists
(`FoldExists`), depends on nothing but the members (`FoldsAgree`), may take any
member first (`FoldTakes`) and so grows by the quantity of a new fill (`SumGrows`,
`FillAdds`), each by the size of the set.  A trade that raises no anomaly names its
order (`CleanTradeIs`): fill and observation are of the same one.

*The ledger.*  `LedgerInv` says of every entry of the log which postings it has and of
whom (`EntryFits`), of every balance that it is the sum of what the entries move on its
account (`BalancesOk`), of both indexes that they hold the number of the one entry of
each of their keys (`FillIndexOk`, `FactIndexOk`), and of outcomes and refreshes what
the log must still show of them.  `FillSums` adds up the six postings of a fill, of
which the zero ones are left out, commodity by commodity and account by account, with
the half-even rounding of `SettledIs`; `BalanceAdds` lets every balance grow by what a
new entry moves.  `BookKeeps` is the one commit of a fill for the direct path, the
command path and the handoffs; that a replay is never told an inconsistent index
(`ReplayIs`) and that leave to submit is current (`RefreshStep`) follow from the
indexes.  A reconciliation writes entries of its own kind and may leave the grid, so
in the composition the theorem is about the ledger that no reconciliation adjusts.

*The web service.*  `PartsRun` shows that each component of the service behaves in
the composition as its own specification says.  `LaunchInv` says that, as long as
the document is kept, whatever is recorded, on the wire or registered is what the
user was shown, and that a confirmation leaves once and after its record.
`JobInv` ties a job's durable record, its indexed one and the executor thread: an
outcome means that no process group is left, and what may still be published is
the job the thread holds.  `TurnInv` says that a task that was cancelled holds no
call that could still be dispatched, whatever the driver has read before.
`ResearchInv` is one record, `TaskRecord`, and what the operation in progress relies
on, `StepRelies`: the calls of a task are those spent and the one in flight
(`CallsAreCharged`), a run is charged before it is submitted (`RunsAreCharged`), and
a late write keeps what a cancellation decided (`IsWrite`).  The proof has a lemma
per action; those that write go through `GoKeepsResearch` and
`FinishKeepsResearch`, which also account for a save that raises and still lands.
A sweep that may examine as many names as there are sees every one of them
(`SweepSeesAll`, by the size of what lies below a name), hence `StartsClean`.

*Uploads and the package slot.*  `UploadInv` says that at most one publication is
under way, in a name of its own and no further than its files (`OwnerIsAlone`), and
that a manifest stands beside the files it was written for, which somebody else may
have damaged since (`VersionStands`).  A step that touches one name only and leaves no
manifest there gains nothing (`TouchGainsNothing`); the one that writes a manifest
relies on the lock, under which it looked for a version of the same identity.
`UploadQuota` charges the publication in progress with what it may still write.  The
bytes of the store are a fold over a finite set: `SetInduction` turns the set of sizes
up to which the sum unfolds into all of `Nat`, hence `TotalUnfolds`, from which the
effect of one file on the sum follows.
`PackageInv` says of every call what it has read so far and what the slot must still
show of it (`CallOk`): the package of a grant that was read is one that was granted
since the call began, a registration has written exactly the files below its
position, and a call that nobody disturbed reads what it wrote.  `SlotChanges` says
what one replaced file does to that knowledge of all other calls, so that each file a
call writes needs an account of the writer only.

*The result store.*  Its `StoreInv` says that at most one process prepares
(`OnePrepares`), that what a preparation has laid down follows its plan step by step
and is on stable storage when `RUN_PREPARED` is appended (`LaidTo`, `PreparesOk`), and
that a process that recovers holds the lock, and with it the journal it classified,
until it ends (`HoldsOk`).  `ChainOk` orders the three one-use capabilities: each is
issued by the use of the one before it, and its product was made exactly when it is
consumed, so a use that fails may be tried again and still yields one product.

*The backtest attempt.*  `AttemptInv` says that the journal begins the one an
uninterrupted execution writes (`Begins`), that no two processes are at work under the
lock (`Exclusive`), what a published result rests on (`ResultStands`), and that
`failure.json` lies between the frontier a resume began with and the one that is durable
now.  Of each process, `ProcessOk` says at which item of the program it stands:
`Before` counts the records of the items before it, and the journal holds at least
those, so that a replay verifies what is there and appends only the record that comes
next.  A lemma per action follows; the frontier a journal of a given length shows is
computed once per kind of scenario.

*Assumptions.*  Those of the modules, each with its name: constants are of their
kind, NULL is no value, finite sets where the code has finite tables.  The fills a ledger
is given have what their constructor demands, a positive quantity and a fee on the
settlement grid (`LedgerConstants`); the value of a free lock is no process
(`BacktestAssumption`).  Two say what
a request can be: an upload other than a provider capture or an offline response has
no envelope, so it claims the bytes it has (`UploadAssumption`), and the questions
asked of the package slot are the four the service asks
(`LocalPackagesAssumption`).  TLC evaluates every one of them in a run.

*Only model-checked.*  All liveness (fairness and ENABLED are outside the prover).
What a recursive computation yields for every input is induction over data: the
library's induction theorems take an operator, which the installed provers cannot
instantiate.  Where one sum decides a property, the bytes of the upload store and what was filled
of an order and the balances of the ledger, the induction is made over the size of a
set instead (above); the balances under reconciliation, the matching and the planning
arithmetic, the trace validator and the alert fold stay
with TLC.
Of the safety invariants, those not named in the table above stay with TLC too:
the prover could reach most of them, but each needs an inductive invariant of its
own that is not written yet (section 7).

## 6. Not modelled

Identifier syntax, digests and canonical encodings (equal bytes are equal values);
the one-time schema migration; the buffers of a socket connection
(`ipc.rs:36-115`), where replies to a client that does not read accumulate without
a bound; recycling of process group ids after a reap; signals to the desktop
backend and directory validation; HTTP routing, prompts, reports, configuration,
the user interface and the catalogs: sequential computation over values, reached
by the repository's own tests.  `PROJECT.json` gives the reason for each component,
and what a component marked "partly" leaves out.

## 7. Plan

Modelling is done in the order of section 2.  Left to prove, in this order:
drafts and the remaining invariants of conversations; the recovery of the coordinator; the paper
runtime.
