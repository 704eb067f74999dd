----------------------------- MODULE Reconciliation -----------------------------
(***************************************************************************)
(* Reconciliation of the portfolio ledger with what an outside source      *)
(* reports: the authority compares an observation with the ledger's        *)
(* snapshot, proposes one correction, a policy allows or denies it, and    *)
(* the ledger applies it on the frontier it was derived from.  The fills   *)
(* and handoffs of PortfolioLedger go on between any two of these steps.   *)
(*                                                                         *)
(* The audit acknowledgements the factories ask for are taken as given.    *)
(***************************************************************************)
EXTENDS PortfolioLedger

CONSTANTS
  Observations,  \* the observations the sources may report
  MaxCommands,   \* bound of the model on proposed commands
  MaxPermits     \* bound of the model on issued authorizations

ASSUME ReconciliationConstants ==
  /\ {MaxCommands, MaxPermits} \subseteq Nat
  /\ \A o \in Observations :
       /\ o.kind \in {"position", "cash", "order", "trade"}
       /\ (o.kind = "position") = (o.balances # <<>> /\ DOMAIN o.balances \subseteq Instruments)
       /\ (o.kind = "cash") = (DOMAIN o.balances = {Currency})

VARIABLES
  reconOutcomes,  \* observation -> outcome, kept by the authority
  commands,       \* adjustment id -> command, kept by the authority
  permits,        \* authorization id -> [command, decision]
  applied         \* authorization id -> outcome, kept by the ledger

reconVars == <<reconOutcomes, commands, permits, applied>>

allVars == <<bookVars, reconVars>>

ReconInit == LedgerInit /\ reconOutcomes = <<>> /\ commands = <<>> /\ permits = <<>> /\ applied = <<>>

--------------------------------------------------------------------------------
\* Comparison of an observation with the ledger

Local(commodity) ==
  IF commodity = Currency THEN cash ELSE positions[commodity]

\* What the snapshot holds of the observation's kind.
LocalScope(o) ==
  {c \in IF o.kind = "cash" THEN {Currency} ELSE Instruments : Local(c) # 0}

Discrepancies(o) ==
  {[target |-> c, local |-> Local(c), observed |-> o.balances[c],
    delta |-> o.balances[c] - Local(c)] :
     c \in {d \in DOMAIN o.balances : o.balances[d] # Local(d)}}

ReconOutcome(o, comparison, discrepancies, code, action, halt) ==
  [observation |-> o, snapshot |-> Snapshot, comparison |-> comparison,
   discrepancies |-> discrepancies, code |-> code, action |-> action,
   halt |-> halt]

CompareObservation(o) ==
  LET found == Discrepancies(o)
      invalid == ReconOutcome(o, "incomparable", {}, "invalid", "retain_and_halt", TRUE)
  IN CASE o.kind = "order" ->
            ReconOutcome(o, "equal", {}, "unresolved_correlation",
                         "retain_and_halt", TRUE)
       [] o.kind = "trade" \/ ~o.ours -> invalid
       [] o.watermark < Version ->
            ReconOutcome(o, "remote_lower", {}, "local_ahead_stale",
                         "retain_and_halt", TRUE)
       [] o.watermark > Version ->
            ReconOutcome(o, "remote_higher", {}, "remote_ahead",
                         "request_missing_trade_facts", TRUE)
       [] ~(LocalScope(o) \subseteq DOMAIN o.balances) -> invalid
       [] found = {} -> ReconOutcome(o, "equal", {}, "match", "none", FALSE)
       [] Cardinality(found) = 1 ->
            ReconOutcome(o, "equal", found, "mismatch", "propose_adjustment", TRUE)
       [] OTHER ->
            ReconOutcome(o, "equal", found, "quarantined", "manual_decomposition",
                         TRUE)

\* The closed matrix every outcome must be in (outcome and action fix it).
OutcomeMatrix(r) ==
  LET count == Cardinality(r.discrepancies)
  IN \/ <<r.comparison, r.code, r.action, r.halt, count>> \in
          {<<"equal", "match", "none", FALSE, 0>>,
           <<"equal", "match", "propose_ancestry_resolution", TRUE, 0>>,
           <<"remote_lower", "local_ahead_stale", "retain_and_halt", TRUE, 0>>,
           <<"remote_higher", "remote_ahead", "request_missing_trade_facts",
             TRUE, 0>>,
           <<"equal", "mismatch", "propose_adjustment", TRUE, 1>>,
           <<"incomparable", "invalid", "retain_and_halt", TRUE, 0>>,
           <<"equal", "unresolved_correlation", "retain_and_halt", TRUE, 0>>}
     \/ /\ r.comparison = "equal" /\ r.code = "quarantined"
        /\ r.action = "manual_decomposition" /\ r.halt /\ count >= 2

--------------------------------------------------------------------------------
\* The reconciliation authority

SameIdentity(o, p) == o.source = p.source /\ o.sequence = p.sequence

\* An observation is compared once; delivered again it gets its outcome, and
\* other bytes under its source and sequence are refused.
AdmitObservation(o) ==
  /\ ~\E p \in DOMAIN reconOutcomes : SameIdentity(o, p) /\ p # o
  /\ reconOutcomes' = IF o \in DOMAIN reconOutcomes THEN reconOutcomes
                      ELSE reconOutcomes @@ (o :> CompareObservation(o))
  /\ UNCHANGED <<bookVars, commands, permits, applied>>

\* The command carries the frontier of the outcome, not the current one.
ProposedCommand(r) ==
  LET d == CHOOSE x \in r.discrepancies : TRUE
  IN [variant |-> "correction", observation |-> r.observation,
      snapshot |-> r.snapshot, target |-> d.target, local |-> d.local,
      observed |-> d.observed, delta |-> d.delta, reference |-> {}]

\* A proposal is not idempotent: each call takes a new adjustment number for
\* the same outcome.
ProposeAdjustmentCommand(o) ==
  /\ Len(commands) < MaxCommands
  /\ o \in DOMAIN reconOutcomes
  /\ reconOutcomes[o].comparison = "equal"
  /\ reconOutcomes[o].code = "mismatch"
  /\ reconOutcomes[o].action = "propose_adjustment"
  /\ Cardinality(reconOutcomes[o].discrepancies) = 1
  /\ reconOutcomes[o].halt
  /\ commands' = Append(commands, ProposedCommand(reconOutcomes[o]))
  /\ UNCHANGED <<bookVars, reconOutcomes, permits, applied>>

\* The ancestry command of the private factory: an order report resolves an
\* open reference of the snapshot it names.  The authority never derives it
\* (its outcomes never ask for it), so it gets its permit here as well.
PresentResolution(o, id) ==
  /\ Len(commands) < MaxCommands /\ Len(permits) < MaxPermits
  /\ o.kind = "order" /\ o.ours /\ o.watermark = Version
  /\ id \in DOMAIN openRefs
  /\ ~openRefs[id].fill.ancestry
  /\ LET command == [variant |-> "ancestry", observation |-> o,
                     snapshot |-> Snapshot, target |-> id, local |-> 0,
                     observed |-> 0, delta |-> 0, reference |-> openRefs[id].via]
     IN /\ commands' = Append(commands, command)
        /\ permits' = Append(permits, [adjustment |-> Len(commands) + 1,
                                       command |-> command, allowed |-> TRUE])
  /\ UNCHANGED <<bookVars, reconOutcomes, applied>>

\* A policy decides on a proposed command; the same command may be decided
\* on again under a new authorization number.
IssueAuthorization(a, allowed) ==
  /\ Len(permits) < MaxPermits
  /\ commands[a].variant = "correction"
  /\ permits' = Append(permits, [adjustment |-> a, command |-> commands[a],
                                 allowed |-> allowed])
  /\ UNCHANGED <<bookVars, reconOutcomes, commands, applied>>

--------------------------------------------------------------------------------
\* The ledger's adjustment path

AppliedCommands == {applied[n].command : n \in DOMAIN applied}

\* Mutant of AdjustmentRefusal: only the ledger sequence is fresh enough when
\* it is not ahead of the ledger.
AdjustmentRefusalLoose(n, p) ==
  IF ~p.allowed THEN "invalid_command"
  ELSE IF \E m \in DOMAIN applied : applied[m].adjustment = p.adjustment
    THEN "adjustment_id_collision"
  ELSE IF \E c \in AppliedCommands : c.observation = p.command.observation
    THEN "observation_already_consumed"
  ELSE IF p.command.snapshot.version > Version THEN "stale_frontier"
  ELSE "none"

\* The refusals in the order the ledger meets them.
AdjustmentRefusal(n, p) ==
  LET c == p.command
  IN IF ~p.allowed THEN "invalid_command"
     ELSE IF \E m \in DOMAIN applied : applied[m].adjustment = p.adjustment
       THEN "adjustment_id_collision"
     ELSE IF \E d \in AppliedCommands : d.observation = c.observation
       THEN "observation_already_consumed"
     ELSE IF c.snapshot # Snapshot \/ Version = MaxVersion
       THEN "stale_frontier"
     ELSE IF c.variant = "correction" /\ ~Bounded(Local(c.target) + c.delta)
       THEN "arithmetic_overflow"
     ELSE IF c.variant = "ancestry" /\
             (IF c.target \in DOMAIN openRefs
                THEN openRefs[c.target].via # c.reference ELSE TRUE)
       THEN "stale_frontier"
     ELSE "none"

CorrectionPostings(c) ==
  IF c.target = Currency
    THEN {Post("cash", Currency, c.delta),
          Post("external_settlement", Currency, -c.delta)}
    ELSE {Post("position", c.target, c.delta),
          Post("external_inventory", c.target, -c.delta)}

\* A correction moves one balance; it opens and closes nothing.
DeriveCorrection(c) ==
  /\ transactions' =
       Append(transactions, Entry("adjustment", c, CorrectionPostings(c), {}, FALSE))
  /\ cash' = IF c.target = Currency THEN cash + c.delta ELSE cash
  /\ positions' = [i \in Instruments |->
                     IF i = c.target THEN positions[i] + c.delta ELSE positions[i]]
  /\ UNCHANGED <<rounding, unresolved, openRefs, fillIndex, factIndex,
                 handoffIndex>>

\* A resolution closes one reference and moves no balance.
DeriveAncestryResolution(c) ==
  /\ transactions' = Append(transactions, Entry("adjustment", c, {}, {}, FALSE))
  /\ openRefs' = Restrict(openRefs, DOMAIN openRefs \ {c.target})
  /\ unresolved' = unresolved \ {c.target}
  /\ UNCHANGED <<cash, positions, rounding, fillIndex, factIndex, handoffIndex>>

AdjustmentAnswer(n, result, version) ==
  [op |-> "adjust", permit |-> n, result |-> result, version |-> version]

\* An audited authorization is applied once and replayed with its original
\* outcome; a refusal is not retained, so it may be presented again.
ApplyReconciliationAdjustment(n) ==
  LET p == permits[n] IN
  /\ \/ /\ n \in DOMAIN applied
        /\ p.allowed
        /\ ledgerAnswer' = AdjustmentAnswer(n, "applied", applied[n].version)
        /\ UNCHANGED <<ledgerVars, applied>>
     \/ /\ n \notin DOMAIN applied
        /\ AdjustmentRefusal(n, p) # "none"
        /\ ledgerAnswer' = AdjustmentAnswer(n, AdjustmentRefusal(n, p), Version)
        /\ UNCHANGED <<ledgerVars, applied>>
     \/ /\ n \notin DOMAIN applied
        /\ AdjustmentRefusal(n, p) = "none"
        /\ IF p.command.variant = "correction"
             THEN DeriveCorrection(p.command)
             ELSE DeriveAncestryResolution(p.command)
        /\ applied' = applied @@ (n :> [adjustment |-> p.adjustment,
                                        command |-> p.command,
                                        version |-> Version + 1])
        /\ ledgerAnswer' = AdjustmentAnswer(n, "applied", Version + 1)
  /\ UNCHANGED <<retained, refreshes, reconOutcomes, commands, permits>>

ReconNext ==
  \/ LedgerNext /\ UNCHANGED reconVars
  \/ \E o \in Observations :
       \/ AdmitObservation(o)
       \/ ProposeAdjustmentCommand(o)
       \/ \E id \in DOMAIN openRefs : PresentResolution(o, id)
  \/ \E a \in DOMAIN commands, allowed \in BOOLEAN : IssueAuthorization(a, allowed)
  \/ \E n \in DOMAIN permits : ApplyReconciliationAdjustment(n)

ReconSpec == ReconInit /\ [][ReconNext]_allVars

--------------------------------------------------------------------------------
\* The factories of the evidence

IsAdjustment(n) == transactions[n].kind = "adjustment"

\* A command is bound to the observation, the outcome and the snapshot.
CommandValid(c) ==
  /\ c.observation.ours /\ c.observation.watermark = c.snapshot.version
  /\ IF c.variant = "correction"
       THEN /\ c.observation.balances[c.target] = c.observed
            /\ c.local = IF c.target = Currency THEN c.snapshot.cash
                         ELSE c.snapshot.positions[c.target]
            /\ c.delta = c.observed - c.local /\ c.delta # 0
       ELSE /\ c.observation.kind = "order"
            /\ c.target \in DOMAIN c.snapshot.open

CorrectionFieldsValid(c, postings) ==
  /\ Cardinality(postings) = 2
  /\ PostingsBalance(postings)
  /\ \A p \in postings :
       /\ p.commodity = c.target
       /\ p.amount = IF p.account \in {"cash", "position"}
                       THEN c.delta ELSE -c.delta

AdjustmentEntryValid(n) ==
  LET t == transactions[n]
  IN IF t.subject.variant = "correction"
       THEN CorrectionFieldsValid(t.subject, t.postings)
       ELSE t.postings = {} /\ t.subject.delta = 0

AdjustmentOutcomeValid(n) ==
  /\ applied[n].adjustment = permits[n].adjustment
  /\ applied[n].command = permits[n].command
  /\ transactions[applied[n].version].subject = applied[n].command

--------------------------------------------------------------------------------
\* Properties

IsCorrection(n) == IsAdjustment(n) /\ transactions[n].subject.variant = "correction"

\* Every outcome the authority retains is a row of the closed matrix, and
\* one that asks for no halt is of a complete report that agreed with the
\* ledger at the watermark it names.
OutcomesAreHonest ==
  \A o \in DOMAIN reconOutcomes :
    LET r == reconOutcomes[o] IN
    /\ OutcomeMatrix(r)
    /\ ~r.halt =>
         /\ o.watermark = r.snapshot.version
         /\ IF o.kind = "cash" THEN r.snapshot.cash = o.balances[Currency]
            ELSE \A i \in Instruments :
                   r.snapshot.positions[i] =
                     IF i \in DOMAIN o.balances THEN o.balances[i] ELSE 0

\* What the authority proposes and the ledger applies passes the factories of
\* commands, entries and outcomes, on whatever frontier it arrives, and the
\* outcome kept under an authorization names its own entry.
AdjustmentEvidenceIsValid ==
  /\ SnapshotValid
  /\ \A a \in DOMAIN commands : CommandValid(commands[a])
  /\ \A n \in 1..Version : IsAdjustment(n) => AdjustmentEntryValid(n)
  /\ \A n \in DOMAIN applied : AdjustmentOutcomeValid(n)

\* A correction makes the ledger what the source reported at exactly the
\* frontier that the source reported on: the corrected balance is the
\* observed one right after the entry, and the entry follows the watermark,
\* however many fills, proposals and decisions came between.  So an
\* observation pays for one entry at most, although it may be proposed and
\* authorized any number of times.
CorrectionMeetsObservation ==
  \A n \in 1..Version :
    IsCorrection(n) =>
      LET c == transactions[n].subject
      IN /\ BalanceAfter(n, IF c.target = Currency THEN "cash" ELSE "position",
                         c.target) = c.observation.balances[c.target]
         /\ c.observation.watermark = n - 1
         /\ \A m \in 1..(n - 1) : IsAdjustment(m) =>
              transactions[m].subject.observation # c.observation

\* Each adjustment of the ledger is one that a policy allowed.
AdjustmentsAreAllowed ==
  \A n \in 1..Version :
    IsAdjustment(n) =>
      \E k \in DOMAIN permits :
        permits[k].allowed /\ permits[k].command = transactions[n].subject

\* The open references are exactly the fills that a handoff booked for
\* reconciliation and no later entry resolved.
OpenUntilResolved ==
  DOMAIN openRefs =
    {transactions[n].subject.id : n \in
       {k \in 1..Version :
          /\ IsFill(k) /\ transactions[k].via # {} /\ transactions[k].requires
          /\ ~\E j \in (k + 1)..Version :
               /\ IsAdjustment(j)
               /\ transactions[j].subject.variant = "ancestry"
               /\ transactions[j].subject.target = transactions[k].subject.id}}

ReconTypeOK ==
  /\ LedgerTypeOK
  /\ DOMAIN reconOutcomes \subseteq Observations
  /\ DOMAIN applied \subseteq DOMAIN permits
  /\ \A n \in DOMAIN permits : permits[n].command = commands[permits[n].adjustment]

\* Reconciliation: outcomes are honest, a correction meets its observation,
\* every adjustment was allowed and passes its factories, and a mismatch is
\* open until it is resolved.
ReconciliationSafe ==
    /\ ReconTypeOK /\ OutcomesAreHonest /\ CorrectionMeetsObservation
    /\ AdjustmentsAreAllowed /\ AdjustmentEvidenceIsValid /\ OpenUntilResolved
================================================================================
