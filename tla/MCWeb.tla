------------------------------- MODULE MCWeb --------------------------------
(***************************************************************************)
(* The parts of the local web service side by side: a conversation turn, a *)
(* research task, the job service, a launch in the research core, a        *)
(* strategy draft, the upload store and the local packages.  Each has its  *)
(* own documents and its own lock in the code and is modelled with what it *)
(* sees of the others, so each behaviour moves one of them, `part', and    *)
(* leaves the others as they start.                                        *)
(***************************************************************************)
EXTENDS ConversationTurn, ResearchTask, JobService, CoreLaunch, StrategyDraft,
        WorkspaceInputs

CONSTANT Parts

AllParts == {"turn", "research", "jobs", "launch", "draft", "uploads", "packages"}
ASSUME WebParts == Parts \subseteq AllParts

VARIABLE part  \* the component that moves

webVars == <<turnVars, researchVars, jobVars, launchVars, draftVars, uploadVars,
             packageVars, part>>

\* An edit in a second spelling, a proposal over both fields and one the
\* shorter dataset refuses.
DatasetLimit == [d \in Datasets |-> IF d = "short" THEN 0 ELSE 2]
TypedEdits == {[p \in {"slow"} |-> 3], [p \in {"slow"} |-> 0]}
ProposedEdits == {[p \in {"fast"} |-> 2], [p \in Paths |-> IF p = "fast" THEN 3 ELSE 2]}

\* A strict upload and two pasted responses that differ in a declaration; a
\* mapped upload, a provider capture and one its envelope does not reproduce.
Upload(kind, bytes, claims, decl, size) ==
    [kind |-> kind, bytes |-> bytes, claims |-> claims, decl |-> decl, ok |-> TRUE,
     rawSize |-> 1, capSize |-> size]
PastedUploads ==
    {Upload("strict", "a", "a", "none", 1), Upload("offline", "b", "b", "x", 2),
     Upload("offline", "b", "b", "y", 2)}
ProviderUploads ==
    {Upload("mapped", "a", "a", "m", 2), Upload("provider", "c", "c", "p", 2),
     Upload("provider", "c", "d", "p", 2), Upload("simulated", "a", "a", "late", 2)}

WebInit ==
    /\ part \in Parts
    /\ TurnInit
    /\ ResearchInit /\ (part # "research" => task.kind = "owned")
    /\ JobInit /\ LaunchInit
    /\ DraftInit /\ (part # "draft" => ~store.json.draft.bound)
    /\ UploadInit /\ PackageInit

TurnMoves ==
    /\ part = "turn" /\ TurnNext
    /\ UNCHANGED <<researchVars, jobVars, launchVars, draftVars, uploadVars, packageVars, part>>
ResearchMoves ==
    /\ part = "research" /\ ResearchNext
    /\ UNCHANGED <<turnVars, jobVars, launchVars, draftVars, uploadVars, packageVars, part>>
JobMoves ==
    /\ part = "jobs" /\ JobNext
    /\ UNCHANGED <<turnVars, researchVars, launchVars, draftVars, uploadVars, packageVars, part>>
LaunchMoves ==
    /\ part = "launch" /\ LaunchNext
    /\ UNCHANGED <<turnVars, researchVars, jobVars, draftVars, uploadVars, packageVars, part>>
DraftMoves ==
    /\ part = "draft" /\ DraftNext
    /\ UNCHANGED <<turnVars, researchVars, jobVars, launchVars, uploadVars, packageVars, part>>
UploadMoves ==
    /\ part = "uploads" /\ UploadNext
    /\ UNCHANGED <<turnVars, researchVars, jobVars, launchVars, draftVars, packageVars, part>>
PackageMoves ==
    /\ part = "packages" /\ PackageNext
    /\ UNCHANGED <<turnVars, researchVars, jobVars, launchVars, draftVars, uploadVars, part>>

WebNext == TurnMoves \/ ResearchMoves \/ JobMoves \/ LaunchMoves \/ DraftMoves
           \/ UploadMoves \/ PackageMoves

WebSpec == WebInit /\ [][WebNext]_webVars

\* A turn that is driven goes on, and a strategy is reconciled whenever it is
\* opened.  A research request is carried out, its job ends, and the task is
\* read (and so reconciled) again and again.  The executor thread runs while
\* the service does; a backtest and a signalled group end.  The client's
\* bounded wait ends its operations, the core comes back, its runs end.  A
\* publication goes on, and a dead owner is restarted.
WebFairness ==
    /\ WF_turnVars(part = "turn" /\ Drive) /\ SF_turnVars(part = "turn" /\ Reconcile)
    /\ WF_researchVars(part = "research" /\ ResearchStep)
    /\ WF_researchVars(part = "research" /\ BeginNext)
    /\ WF_researchVars(part = "research" /\ ResearchJobEnds)
    /\ SF_researchVars(part = "research" /\ BeginReconcile)
    /\ WF_jobVars(part = "jobs" /\ Thread)
    /\ \A j \in Jobs : WF_jobVars(part = "jobs" /\ WorkerEnds(j))
                       /\ WF_jobVars(part = "jobs" /\ GroupDies(j))
    /\ WF_launchVars(part = "launch" /\ Launching) /\ WF_launchVars(part = "launch" /\ Recovery)
    /\ SF_launchVars(part = "launch" /\ LaunchReconcile)
    /\ \A i \in Intents : WF_launchVars(part = "launch" /\ RunEnds(i))
    /\ \A t \in Threads :
           WF_uploadVars(part = "uploads"
                         /\ (\/ WriteRaw(t) \/ WriteCapture(t) \/ WriteManifest(t) \/ Return(t)
                             \/ DropManifest(t) \/ DropCapture(t) \/ DropRaw(t)))
    /\ WF_uploadVars(part = "uploads" /\ Restart)

WebFairSpec == WebSpec /\ WebFairness

\* What a workspace keeps for its runs, uploads and the local package slot, is
\* safe.
InputsSafe ==
    /\ UploadSafe /\ PackageSafe

\* What no step does: dispatch a call of a cancelled task, send an unknown
\* proposal again, rewrite an outcome, publish while the service closes, or
\* start a store over the leavings of a dead owner.
WebSteps ==
    /\ NoDispatchAfterCancel /\ UnknownProposalIsNotResent /\ OutcomeIsFinal
    /\ NothingPublishedWhileClosing /\ StartIsClean

\* What the service owes in the end: turns, reservations, jobs and their slot,
\* launches and publications are settled.
WebSettles ==
    /\ RunningIsSettled /\ ReservationsSettle /\ JobIsSettled /\ SlotIsReleased
    /\ RunIsProjected /\ PublicationEnds

\* A user's strategy, its conversation and its draft, is safe.
StrategySafe ==
    /\ ConversationSafe /\ DraftSafe

\* With grants, quota and a crashing registration at their limits: the
\* strategy, the uploads and the package slot are safe.
WebSafe ==
    /\ StrategySafe /\ InputsSafe
=============================================================================
