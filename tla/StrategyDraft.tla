---------------------------- MODULE StrategyDraft ----------------------------
(***************************************************************************)
(* The draft of one user strategy (web/user_strategies.py): binding a      *)
(* scenario, manual edits, dataset selections, model proposals applied,    *)
(* rejected or undone.                                                     *)
(*                                                                         *)
(* Every request names an operation and the revision its author read, and  *)
(* may be delivered any number of times, late, after the draft has moved   *)
(* on or after its entry aged out of the bounded ledger.  The document     *)
(* lives in a JSON file until its conversation is migrated to the          *)
(* database.                                                               *)
(***************************************************************************)
EXTENDS Naturals, Sequences

CONSTANTS Ops,           \* operation identities
          DraftNoOp,     \* no operation
          Datasets,
          Limit,         \* per dataset, the largest slow window its data supports
          Typed,         \* the manual edits offered
          Proposed,      \* the changes the model proposes
          MaxRevision,   \* bound on the revisions of the draft
          MaxChanges,    \* entries the change ledger keeps
          MaxProposals,  \* proposals retained before one more is appended
          MaxAsked       \* bound on the proposals ever made

ASSUME DraftAssumption ==
    /\ MaxRevision \in Nat \ {0} /\ MaxAsked \in Nat
    /\ MaxChanges \in Nat \ {0} /\ MaxProposals \in Nat \ {0}
    /\ Limit \in [Datasets -> Nat]
    /\ \A e \in Typed \cup Proposed : DOMAIN e \subseteq {"fast", "slow"} /\ DOMAIN e # {}

VARIABLES store,      \* the JSON document and, once migrated, the database's
          asked,      \* proposals made so far
          draftCall,  \* "none", "running" under the lock, "unresolved" after a crash
          log         \* the requests that wrote a revision, with the draft before and after

draftVars == <<store, asked, draftCall, log>>

Paths == {"fast", "slow"}
\* Two spellings of each number: a decimal string is stored as it was written.
Values == 0 .. 3
Normal(v) == v - (v % 2)

IntentDraft == [rev |-> 1, bound |-> FALSE]
NoRecord == [op |-> DraftNoOp]
DraftAbsent == [absent |-> TRUE]

\* _validated: the whole draft is checked against its data, whatever was edited.
Valid(data, vals) ==
    /\ Normal(vals["fast"]) <= Normal(vals["slow"])
    /\ Normal(vals["slow"]) <= Limit[data]
DraftNormalized(vals) == [p \in Paths |-> Normal(vals[p])]
Override(vals, edit) == [p \in Paths |-> IF p \in DOMAIN edit THEN edit[p] ELSE vals[p]]

\* _scenario_draft: the registered scenario's own values.
ScenarioDraft(rev, data) ==
    [rev |-> rev, bound |-> TRUE, data |-> data, vals |-> [p \in Paths |-> IF p = "fast" THEN 1 ELSE 2]]

Document == [draft |-> IntentDraft, changes |-> << >>, proposals |-> << >>,
             binding |-> NoRecord, dataset |-> NoRecord]

Recent(s, n) == IF Len(s) <= n THEN s ELSE SubSeq(s, Len(s) - n + 1, Len(s))

-----------------------------------------------------------------------------
(* The store *)

\* get: a migrated document is the database's, whatever the file still says.
Get == IF store.db = DraftAbsent THEN store.json ELSE store.db

\* save: _update_conversation when migrated, else _save_json.
Save(d) == store' = IF store.db = DraftAbsent THEN [store EXCEPT !.json = d]
                    ELSE [store EXCEPT !.db = d]

\* migrate_conversation: one transaction, idempotent.
Migrated == IF store.db = DraftAbsent THEN [store EXCEPT !.db = store.json] ELSE store

-----------------------------------------------------------------------------
(* Requests *)

Revisions == 1 .. MaxRevision
DraftRequests ==
    [kind : {"bind", "select-dataset"}, op : Ops, rev : Revisions, data : Datasets]
    \cup [kind : {"manual"}, op : Ops, rev : Revisions, edit : Typed]
    \cup [kind : {"apply"}, op : Ops, proposal : 1 .. MaxAsked, paths : (SUBSET Paths) \ {{}}]
    \cup [kind : {"undo"}, op : Ops, rev : Revisions, target : Ops]

Owns(d, op) == \E i \in DOMAIN d.changes : d.changes[i].op = op
Entry(d, op) == d.changes[CHOOSE i \in DOMAIN d.changes : d.changes[i].op = op]
HasProposal(d, p) == \E i \in DOMAIN d.proposals : d.proposals[i].id = p
Proposal(d, p) == d.proposals[CHOOSE i \in DOMAIN d.proposals : d.proposals[i].id = p]
Restrict2(edit, S) == [p \in S |-> edit[p]]

\* The draft a request would make of document d.
Revised(d, q) ==
    LET draft == d.draft
        Values2(edit) == [draft EXCEPT !.rev = @ + 1, !.vals = DraftNormalized(Override(@, edit))]
    IN CASE q.kind = "bind" -> ScenarioDraft(draft.rev + 1, q.data)
         [] q.kind = "select-dataset" ->
                [draft EXCEPT !.rev = @ + 1, !.data = q.data, !.vals = DraftNormalized(@)]
         [] q.kind = "manual" -> Values2(q.edit)
         [] q.kind = "apply" -> Values2(Restrict2(Proposal(d, q.proposal).after, q.paths))
         [] q.kind = "undo" -> Values2(Entry(d, q.target).before)

\* bind_scenario: the binding is recorded on the document, so its own request replays
\* however far the ledger has moved on.
BindAnswer(d, q) ==
    IF d.binding.op = q.op THEN (IF d.binding = q THEN "replay" ELSE "conflict")
    ELSE IF Owns(d, q.op) THEN "conflict"
    ELSE IF q.rev # d.draft.rev THEN "stale"
    ELSE IF d.draft.bound \/ draftCall = "unresolved" THEN "refused"
    ELSE "write"

\* save_draft: the ledger answers a repeated edit, the revision an aged-out one.
ManualAnswer(d, q) ==
    IF ~d.draft.bound THEN "refused"
    ELSE IF Owns(d, q.op) THEN (IF Entry(d, q.op).req = q THEN "replay" ELSE "conflict")
    ELSE IF q.rev # d.draft.rev THEN "stale"
    ELSE IF draftCall = "unresolved" THEN "refused"
    ELSE "write"

\* select_dataset: only the latest selection is kept on the document.
SelectAnswer(d, q) ==
    IF d.dataset.op = q.op THEN (IF d.dataset = q THEN "replay" ELSE "conflict")
    ELSE IF Owns(d, q.op) THEN "conflict"
    ELSE IF ~d.draft.bound THEN "refused"
    ELSE IF q.rev # d.draft.rev THEN "stale"
    ELSE IF draftCall = "unresolved" THEN "refused"
    ELSE "write"

\* _selection: a repeated apply is resolved against the proposal it was made from.
SameApply(d, q) ==
    /\ Entry(d, q.op).kind = "apply" /\ Entry(d, q.op).req.proposal = q.proposal
    /\ Entry(d, q.op).req.paths = q.paths

\* apply_proposal
ApplyAnswer(d, q) ==
    IF ~d.draft.bound THEN "refused"
    ELSE IF Owns(d, q.op) THEN (IF SameApply(d, q) THEN "replay" ELSE "conflict")
    ELSE IF ~HasProposal(d, q.proposal) THEN "refused"
    ELSE LET p == Proposal(d, q.proposal)
         IN IF p.status = "rejected" THEN "refused"
            ELSE IF p.status # "open" \/ p.base # d.draft.rev THEN "stale"
            ELSE IF ~(q.paths \subseteq DOMAIN p.after) THEN "refused"
            ELSE IF \E x \in q.paths : d.draft.vals[x] # p.before[x] THEN "stale"
            ELSE "write"

\* undo: only the head, and only an applied change.
UndoAnswer(d, q) ==
    IF ~d.draft.bound THEN "refused"
    ELSE IF Owns(d, q.op) THEN (IF Entry(d, q.op).req = q THEN "replay" ELSE "conflict")
    ELSE IF ~Owns(d, q.target) THEN "refused"
    ELSE IF Entry(d, q.target).kind # "apply" THEN "refused"
    ELSE IF q.rev # d.draft.rev \/ Entry(d, q.target).to # d.draft.rev THEN "stale"
    ELSE "write"

Answer(d, q) ==
    CASE q.kind = "bind" -> BindAnswer(d, q)
      [] q.kind = "manual" -> ManualAnswer(d, q)
      [] q.kind = "select-dataset" -> SelectAnswer(d, q)
      [] q.kind = "apply" -> ApplyAnswer(d, q)
      [] q.kind = "undo" -> UndoAnswer(d, q)

\* What the backend says of the draft the request would write.
Validates(d, q) == LET r == Revised(d, q) IN Valid(r.data, r.vals)

\* _revise_draft, and the tails of bind_scenario and select_dataset: one durable write of
\* the revision, the ledger entry, the proposal's status and the recorded request.
ChangeOf(d, q) ==
    [op |-> q.op, kind |-> q.kind, req |-> q, to |-> d.draft.rev + 1,
     before |-> IF q.kind = "apply" THEN Restrict2(Proposal(d, q.proposal).before, q.paths)
                ELSE [p \in {} |-> 0]]
ReviseDraft(d, q) ==
    [d EXCEPT !.draft = Revised(d, q),
              !.changes = Recent(Append(@, ChangeOf(d, q)), MaxChanges),
              !.proposals = [i \in DOMAIN @ |->
                   IF q.kind = "apply" /\ @[i].id = q.proposal
                   THEN [@[i] EXCEPT !.status = "applied"] ELSE @[i]],
              !.binding = IF q.kind = "bind" THEN q ELSE @,
              !.dataset = IF q.kind = "select-dataset" THEN q ELSE @]

\* A request that writes; every other answer leaves the document alone.
DraftRequest(q) ==
    /\ draftCall # "running" /\ Get.draft.rev < MaxRevision
    /\ Answer(Get, q) = "write" /\ Validates(Get, q)
    /\ Save(ReviseDraft(Get, q))
    /\ log' = Append(log, [req |-> q, before |-> Get.draft, after |-> Revised(Get, q)])
    /\ UNCHANGED <<asked, draftCall>>

-----------------------------------------------------------------------------
(* Proposals *)

\* reject_proposal
DraftRejectProposal(p) ==
    /\ draftCall # "running" /\ Get.draft.bound /\ HasProposal(Get, p)
    /\ Proposal(Get, p).status \notin {"applied", "rejected"}
    /\ Save([Get EXCEPT !.proposals = [i \in DOMAIN @ |->
                IF @[i].id = p THEN [@[i] EXCEPT !.status = "rejected"] ELSE @[i]]])
    /\ UNCHANGED <<asked, draftCall, log>>

\* conversation_turn: migrates the document, then calls the model under the lock;
\* revise_proposal calls it over an existing proposal.
DraftAsk ==
         /\ draftCall = "none" /\ Get.draft.bound /\ asked < MaxAsked
         /\ store' = Migrated
         /\ draftCall' = "running" /\ UNCHANGED <<asked, log>>

\* The answer of the model, as one proposal for the draft it was asked about; a revision
\* supersedes the open proposal it revises.
Retained(d, target) ==
    [i \in DOMAIN Recent(d.proposals, MaxProposals) |->
        LET p == Recent(d.proposals, MaxProposals)[i]
        IN IF p.id = target /\ p.status = "open" THEN [p EXCEPT !.status = "superseded"] ELSE p]
Observe(edit, target) ==
    /\ draftCall = "running"
    /\ target = 0 \/ (HasProposal(Get, target) /\ Proposal(Get, target).status # "applied")
    /\ Save([Get EXCEPT !.proposals = Append(Retained(Get, target),
                [id |-> asked + 1, base |-> Get.draft.rev, status |-> "open", after |-> edit,
                 before |-> Restrict2(Get.draft.vals, DOMAIN edit)])])
    /\ asked' = asked + 1 /\ draftCall' = "none"
    /\ UNCHANGED log

\* The process stops during the call; reconciliation classifies it later.
AbandonCall == draftCall = "running" /\ draftCall' = "unresolved" /\ UNCHANGED <<store, asked, log>>
ReconcileCall == draftCall = "unresolved" /\ draftCall' = "none" /\ UNCHANGED <<store, asked, log>>

-----------------------------------------------------------------------------

DraftInit ==
    /\ \E draft \in {IntentDraft} \cup {ScenarioDraft(1, data) : data \in Datasets} :
          /\ draft.bound => Valid(draft.data, draft.vals)
          /\ store = [json |-> [Document EXCEPT !.draft = draft], db |-> DraftAbsent]
    /\ asked = 0 /\ draftCall = "none" /\ log = << >>

DraftNext ==
    \/ \E q \in DraftRequests : DraftRequest(q)
    \/ \E p \in 1 .. MaxAsked : DraftRejectProposal(p)
    \/ DraftAsk
    \/ \E edit \in Proposed, target \in 0 .. MaxAsked : Observe(edit, target)
    \/ AbandonCall \/ ReconcileCall

DraftSpec == DraftInit /\ [][DraftNext]_draftVars

-----------------------------------------------------------------------------
(* Properties *)

Drafts == {IntentDraft} \cup [rev : Revisions, bound : {TRUE}, data : Datasets, vals : [Paths -> Values]]

\* The document is well formed wherever it lives, and its ledger and its proposals stay
\* within the bounds the service keeps.
DraftTypeOK ==
    /\ \A d \in {store.json, store.db} \ {DraftAbsent} :
          /\ d.draft \in Drafts
          /\ Len(d.changes) <= MaxChanges /\ Len(d.proposals) <= MaxProposals + 1
          /\ {d.changes[i].req : i \in DOMAIN d.changes} \subseteq DraftRequests
    /\ asked \in 0 .. MaxAsked /\ draftCall \in {"none", "running", "unresolved"}

\* No request writes a second revision: a request that was written once is never written
\* again, late, after later changes, or after its entry aged out of the ledger
\* (save_draft: "an aged-out request still cannot write twice").
RequestWritesOnce ==
    \A i, j \in DOMAIN log : i # j => log[i].req # log[j].req

\* While the ledger still holds an edit, an application, an undo or the binding, repeating
\* it is answered with the recorded result and is not an error.
RepeatIsReplayed ==
    \A i \in DOMAIN Get.changes :
        LET q == Get.changes[i].req
        IN q.kind # "select-dataset" => Answer(Get, q) = "replay"

\* The draft a reader gets is the last revision written and its revision counts the writes:
\* no edit is lost across the migration of the document or written over.
NoLostRevision ==
    /\ log # << >> => Get.draft = log[Len(log)].after
    /\ Get.draft.rev = Len(log) + 1
    /\ \A i \in 2 .. Len(log) : log[i].before = log[i - 1].after

\* An undo returns the draft to the values, and the dataset, it had before the change it
\* names was applied, and that change is the one right before it.
UndoRestores ==
    \A i \in DOMAIN log :
        log[i].req.kind = "undo" =>
            /\ i > 1 /\ log[i - 1].req.kind = "apply" /\ log[i - 1].req.op = log[i].req.target
            /\ log[i].after.vals = DraftNormalized(log[i - 1].before.vals)
            /\ log[i].after.data = log[i - 1].before.data

\* The draft's values are always supported by its data, whichever field or dataset was
\* changed: an edit that suits the edited field only is not written.
DraftIsRunnable ==
    LET d == Get.draft IN d.bound => Valid(d.data, d.vals)

\* A proposal is applied at most once, only on the revision it was made for, and never after
\* it was rejected or superseded.
ProposalAppliedOnce ==
    /\ \A i, j \in DOMAIN log :
          /\ log[i].req.kind = "apply" /\ log[j].req.kind = "apply" /\ i # j
          => log[i].req.proposal # log[j].req.proposal
    /\ \A i \in DOMAIN Get.proposals, j \in DOMAIN log :
          LET p == Get.proposals[i]
          IN log[j].req.kind = "apply" /\ log[j].req.proposal = p.id =>
                p.status = "applied" /\ p.base = log[j].before.rev

\* A strategy draft: a request writes once and its repetition is replayed, no
\* revision is lost, the draft stays runnable, an undo restores, and a proposal
\* is applied once.
DraftSafe ==
    /\ DraftTypeOK /\ RequestWritesOnce /\ RepeatIsReplayed /\ NoLostRevision /\ DraftIsRunnable
    /\ UndoRestores /\ ProposalAppliedOnce
=============================================================================
