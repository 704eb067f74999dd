---------------------------- MODULE PortfolioLedger ----------------------------
(***************************************************************************)
(* The double-entry ledger of one run, the authority that hands audited    *)
(* execution facts to it and the authority that publishes the portfolio    *)
(* and risk refresh from its snapshot.                                     *)
(*                                                                         *)
(* Amounts are integers in the finest unit of the one settlement currency; *)
(* Quantum is the settlement grid of that currency in those units.  A      *)
(* digest is modelled by the value it is the digest of.                    *)
(***************************************************************************)
EXTENDS Integers, Sequences, FiniteSets, FiniteSetsExt, Functions, TLC

CONSTANTS
  Instruments,    \* the instruments of the specification set
  Fills,          \* the fills the execution side may present
  Handoffs,       \* the audited execution fact handoffs
  NoFill,         \* the handoff carries no fill
  Fundings,       \* amounts a caller may fund the run with
  Frontiers,      \* digests of the ordered ledger acknowledgement frontier
  LedgerQuantum,  \* the settlement grid
  MaxBalance,     \* bound of a canonical decimal
  MaxVersion,     \* the last ledger sequence (2^64 - 1 in the code)
  MaxRefreshes    \* bound of the model on published refreshes

ASSUME LedgerConstants ==
  /\ LedgerQuantum \in Nat \ {0}
  /\ {MaxBalance, MaxVersion, MaxRefreshes} \subseteq Nat
  /\ Fundings \subseteq Nat \ {0}
  /\ \A f \in Fills : /\ f.instrument \in Instruments /\ f.side \in {1, -1}
                        /\ f.quantity \in Nat \ {0} /\ f.notional \in Int
                        /\ f.fee \in Int /\ f.fee % LedgerQuantum = 0
                        /\ f.ancestry \in BOOLEAN
  /\ \A h \in Handoffs : /\ h.fill \in Fills \cup {NoFill}
                           /\ h.requires \in BOOLEAN /\ h.halt \in BOOLEAN
                           /\ (h.requires => h.halt)

VARIABLES
  transactions,  \* the chained entries, oldest first
  cash,          \* settlement cash (the code drops a zero balance)
  positions,     \* instrument -> quantity (zero: absent in the code)
  rounding,      \* accumulated settlement residual
  unresolved,    \* ids of booked fills whose ancestry is incomplete
  openRefs,      \* fill id -> open reconciliation reference and binding
  fillIndex,     \* fill id -> entry number
  factIndex,     \* fact key -> entry number
  handoffIndex,  \* handoff -> entry number, kept by the ledger
  retained,      \* handoff -> outcome, kept by the handoff authority
  refreshes,     \* the published refreshes, oldest first
  ledgerAnswer   \* what the last call returned

ledgerVars ==
  <<transactions, cash, positions, rounding, unresolved, openRefs,
    fillIndex, factIndex, handoffIndex>>

bookVars == <<ledgerVars, retained, refreshes, ledgerAnswer>>

Currency == "currency"

\* Instrument and currency commodities are values of two types.
ASSUME CurrencyIsNoInstrument == Currency \notin Instruments

Commodities == Instruments \cup {Currency}

Version == Len(transactions)

\* The canonical snapshot: the balances, what is open and the chain's last
\* entry, which names all the earlier ones.
Snapshot ==
  [version |-> Version, cash |-> cash, positions |-> positions,
   rounding |-> rounding, unresolved |-> unresolved, open |-> openRefs]

Funded == Version > 0 /\ transactions[1].kind = "funding"

Post(account, commodity, amount) ==
  [account |-> account, commodity |-> commodity, amount |-> amount]

SumOf(postings) == MapThenSumSet(LAMBDA p : p.amount, postings)

PostingsBalance(postings) ==
  \A c \in Commodities : SumOf({p \in postings : p.commodity = c}) = 0

Bounded(amount) == amount \in (-MaxBalance)..MaxBalance

--------------------------------------------------------------------------------
\* The settlement of a fill

\* Round half even to the settlement grid.
SettledAmount(notional) ==
  LET units == notional \div LedgerQuantum
      twice == 2 * (notional % LedgerQuantum)
      up    == twice > LedgerQuantum \/ (twice = LedgerQuantum /\ units % 2 = 1)
  IN LedgerQuantum * (IF up THEN units + 1 ELSE units)

Residual(notional) == notional - SettledAmount(notional)

CashDelta(f) == -(f.side * SettledAmount(f.notional)) - f.fee

\* The postings of a fill; the code leaves out the legs that are zero.
FillPostings(f) ==
  {p \in {Post("position", f.instrument, f.side * f.quantity),
          Post("external_inventory", f.instrument, -(f.side * f.quantity)),
          Post("cash", Currency, CashDelta(f)),
          Post("external_settlement", Currency, f.side * f.notional),
          Post("rounding", Currency, -(f.side * Residual(f.notional))),
          Post("commission", Currency, f.fee)} : p.amount # 0}

\* The refusals of a new fill in the order the ledger meets them; a refused
\* fill changes nothing.  Only a funded run refuses to go below zero cash.
FillFailure(f) ==
  IF Version = MaxVersion THEN "sequence_exhausted"
  ELSE IF ~Bounded(SettledAmount(f.notional)) THEN "settlement_overflow"
  ELSE IF ~Bounded(cash + CashDelta(f)) THEN "cash_overflow"
  ELSE IF Funded /\ cash + CashDelta(f) < 0 THEN "insufficient_cash"
  ELSE IF ~Bounded(positions[f.instrument] + f.side * f.quantity)
         THEN "position_overflow"
  ELSE IF ~Bounded(rounding - f.side * Residual(f.notional))
         THEN "rounding_overflow"
  ELSE IF ~PostingsBalance(FillPostings(f)) THEN "unbalanced"
  ELSE "none"

Entry(kind, subject, postings, via, requires) ==
  [kind |-> kind, subject |-> subject, postings |-> postings,
   via |-> via, requires |-> requires]

\* Missing ancestry is never cleared by the processing outcome.
RequiresOf(h) == h.requires \/ ~h.fill.ancestry

\* Only a fill that a handoff brought opens a reference.
OpensReference(f, requires, via) == requires /\ via # {}

NextEntry == Version + 1

\* An index of the code after the keys are bound to the value.
Indexed(index, keys, value) ==
  [k \in DOMAIN index \cup keys |-> IF k \in keys THEN value ELSE index[k]]

MoveBalances(f) ==
  /\ cash' = cash + CashDelta(f)
  /\ positions' = [positions EXCEPT ![f.instrument] = @ + f.side * f.quantity]
  /\ rounding' = rounding - f.side * Residual(f.notional)

\* The one commit of a fill.  via is the set with the handoff that brought
\* it, empty on the direct path.
BookFill(f, requires, via) ==
  /\ transactions' =
       Append(transactions, Entry("fill", f, FillPostings(f), via, requires))
  /\ MoveBalances(f)
  /\ unresolved' = IF f.ancestry THEN unresolved ELSE unresolved \cup {f.id}
  /\ openRefs' =
       IF OpensReference(f, requires, via)
         THEN Indexed(openRefs, {f.id}, [fill |-> f, via |-> via])
         ELSE openRefs
  /\ fillIndex' = Indexed(fillIndex, {f.id}, NextEntry)
  /\ factIndex' = Indexed(factIndex, {f.fact}, NextEntry)
  /\ handoffIndex' = Indexed(handoffIndex, via, NextEntry)

--------------------------------------------------------------------------------
\* The ledger's own operations

LedgerInit ==
  /\ transactions = <<>>
  /\ cash = 0
  /\ positions = [i \in Instruments |-> 0]
  /\ rounding = 0
  /\ unresolved = {}
  /\ openRefs = <<>>
  /\ fillIndex = <<>>
  /\ factIndex = <<>>
  /\ handoffIndex = <<>>
  /\ retained = <<>>
  /\ refreshes = <<>>
  /\ ledgerAnswer = [op |-> "none"]

\* Funding is the first entry or no entry; the same request again returns
\* the first outcome and another one conflicts.
ApplyInitialFunding(amount) ==
  /\ amount % LedgerQuantum = 0
  /\ \/ /\ Version = 0
        /\ transactions' =
             <<Entry("funding", amount,
                     {Post("cash", Currency, amount),
                      Post("external_settlement", Currency, -amount)},
                     {}, FALSE)>>
        /\ cash' = amount
        /\ ledgerAnswer' = [op |-> "funding", code |-> "applied", version |-> 1]
        /\ UNCHANGED <<positions, rounding, unresolved, openRefs, fillIndex,
                       factIndex, handoffIndex>>
     \/ /\ Version > 0
        /\ ledgerAnswer' =
             IF Funded /\ transactions[1].subject = amount
               THEN [op |-> "funding", code |-> "applied", version |-> 1]
               ELSE [op |-> "funding", code |-> "conflict", version |-> Version]
        /\ UNCHANGED ledgerVars
  /\ UNCHANGED <<retained, refreshes>>

\* What the two indexes say of a fill that is presented on the direct path.
ClassifyReplay(f) ==
  LET byFill == f.id \in DOMAIN fillIndex
      byFact == f.fact \in DOMAIN factIndex
      Booked(n) == transactions[n].subject
  IN IF ~byFill /\ ~byFact THEN "new"
     ELSE IF byFill /\ ~byFact
       THEN IF Booked(fillIndex[f.id]) # f THEN "fill_id_collision"
                                          ELSE "index_inconsistent"
     ELSE IF ~byFill
       THEN IF Booked(factIndex[f.fact]) # f THEN "fact_key_collision"
                                             ELSE "index_inconsistent"
     ELSE IF fillIndex[f.id] # factIndex[f.fact] THEN "cross_index_collision"
     ELSE IF Booked(fillIndex[f.id]) = f THEN "duplicate"
     ELSE "fill_and_fact_collision"

FillAnswer(f, code) ==
  [op |-> "fill", fill |-> f, code |-> code, version |-> Version]

ApplyFill(f) ==
  /\ \E kind \in {ClassifyReplay(f)} :
       IF kind # "new"
         THEN ledgerAnswer' = FillAnswer(f, kind) /\ UNCHANGED ledgerVars
         ELSE \E failure \in {FillFailure(f)} :
                IF failure # "none"
                  THEN ledgerAnswer' = FillAnswer(f, failure) /\ UNCHANGED ledgerVars
                  ELSE /\ BookFill(f, ~f.ancestry, {})
                       /\ ledgerAnswer' = FillAnswer(f, "applied")
  /\ UNCHANGED <<retained, refreshes>>

--------------------------------------------------------------------------------
\* Handoffs of audited execution facts

\* Mutant of CommandFailure: the command path trusts the fill id alone.
CommandFailureById(f) ==
  IF f.id \in DOMAIN fillIndex THEN "unbound_existing_fill" ELSE FillFailure(f)

\* The command path accepts no fill the indexes know already: it was booked
\* outside this handoff.
CommandFailure(f) ==
  IF f.id \in DOMAIN fillIndex \/ f.fact \in DOMAIN factIndex
    THEN "unbound_existing_fill" ELSE FillFailure(f)

HandoffFailure(failure) ==
  CASE failure = "unbound_existing_fill" -> failure
    [] failure = "unbalanced" -> "unbalanced"
    [] failure \in {"sequence_exhausted", "insufficient_cash"}
         -> "structural_error"
    [] OTHER -> "arithmetic_failure"

HandoffOutcome(h, action, failure, after, requires, halt) ==
  [handoff |-> h, action |-> action, failure |-> failure,
   before |-> Version, after |-> after, requires |-> requires, halt |-> halt]

Retain(h, outcome) ==
  /\ retained' = Indexed(retained, {h}, outcome)
  /\ ledgerAnswer' = [op |-> "handoff", outcome |-> outcome]

\* A handoff is applied once; every later call returns the retained outcome,
\* also when it failed.
ApplyHandoff(h) ==
  /\ UNCHANGED refreshes
  /\ \/ /\ h \in DOMAIN retained
        /\ ledgerAnswer' = [op |-> "handoff", outcome |-> retained[h]]
        /\ UNCHANGED <<ledgerVars, retained>>
     \/ /\ h \notin DOMAIN retained
        /\ h.fill = NoFill
        /\ Retain(h, HandoffOutcome(h, "not_applicable", "none", Version,
                                    h.requires, h.halt))
        /\ UNCHANGED ledgerVars
     \/ /\ h \notin DOMAIN retained
        /\ h.fill # NoFill
        /\ h.action \notin {"accepted", "unresolved"}
        /\ Retain(h, HandoffOutcome(h, "failed", "evidence_mismatch", Version,
                                    FALSE, TRUE))
        /\ UNCHANGED ledgerVars
     \/ /\ h \notin DOMAIN retained
        /\ h.fill # NoFill
        /\ h.action \in {"accepted", "unresolved"}
        /\ LET requires == RequiresOf(h)
               failure  == CommandFailure(h.fill)
           IN IF failure = "none"
                THEN /\ BookFill(h.fill, requires, {h})
                     /\ Retain(h, HandoffOutcome(h, "effect_committed", "none",
                                                 Version + 1, requires, requires))
                ELSE /\ Retain(h, HandoffOutcome(h, "failed",
                                                 HandoffFailure(failure),
                                                 Version, requires, TRUE))
                     /\ UNCHANGED ledgerVars

--------------------------------------------------------------------------------
\* The portfolio and risk refresh

\* clear stands for the conjunction of coordinator_running,
\* publication_window_clear and candidate_matches_internal.
Permitted(halted, clear) == ~halted /\ DOMAIN openRefs = {} /\ clear

\* What a caller gets: the retained refresh of the same key when snapshot and
\* risk state are the ones it was made from, else the refresh to append; an
\* error has dispatch 0.
RefreshAnswer(d, frontier, halted, clear) ==
  LET made == [dispatch |-> d, frontier |-> frontier, snapshot |-> Snapshot,
               halted |-> halted, permitted |-> Permitted(halted, clear)]
      error == [made EXCEPT !.dispatch = 0, !.permitted = FALSE]
  IN IF d \in DOMAIN refreshes /\ refreshes[d].frontier = frontier
       THEN IF refreshes[d].snapshot = Snapshot /\ refreshes[d].halted = halted
              THEN refreshes[d] ELSE error
     ELSE IF d # Len(refreshes) + 1 THEN error
     ELSE made

CreateRefresh(d, frontier, halted, clear) ==
  /\ \E r \in {RefreshAnswer(d, frontier, halted, clear)} :
       /\ refreshes' = IF r.dispatch = Len(refreshes) + 1
                         THEN Append(refreshes, r) ELSE refreshes
       /\ ledgerAnswer' = [op |-> "refresh", refresh |-> r]
  /\ UNCHANGED <<ledgerVars, retained>>

LedgerNext ==
  \/ \E amount \in Fundings : ApplyInitialFunding(amount)
  \/ \E f \in Fills : ApplyFill(f)
  \/ \E h \in Handoffs : ApplyHandoff(h)
  \/ \E d \in 1..MaxRefreshes, frontier \in Frontiers, halted, clear \in BOOLEAN :
       CreateRefresh(d, frontier, halted, clear)

LedgerSpec == LedgerInit /\ [][LedgerNext]_bookVars

--------------------------------------------------------------------------------
\* The factories of the evidence.  An operation raises after it has derived
\* its effect when what it derived does not pass them.

IsFill(n) == transactions[n].kind = "fill"

FillPostingsValid(f, postings) ==
  /\ Cardinality(postings) \in 2..6
  /\ \A p, q \in postings : p.account = q.account => p = q
  /\ {"position", "external_inventory"} \subseteq {p.account : p \in postings}
  /\ {p.commodity : p \in postings} \subseteq {f.instrument, Currency}
  /\ PostingsBalance(postings)

TransactionValid(n) ==
  IsFill(n) =>
    /\ FillPostingsValid(transactions[n].subject, transactions[n].postings)
    /\ ~transactions[n].subject.ancestry => transactions[n].requires

\* Every open reference has the binding of its own entry and the digest that
\* the unresolved fill has.
SnapshotValid ==
  /\ Version = 0 => /\ cash = 0 /\ rounding = 0 /\ unresolved = {}
                    /\ openRefs = <<>> /\ \A i \in Instruments : positions[i] = 0
  /\ \A id \in DOMAIN openRefs :
       /\ id \in DOMAIN fillIndex /\ fillIndex[id] \in 1..Version
       /\ transactions[fillIndex[id]].subject = openRefs[id].fill
  /\ \A i, j \in DOMAIN openRefs : fillIndex[i] = fillIndex[j] => i = j

HandoffOutcomeValid(o) ==
  /\ o.requires => o.halt
  /\ CASE o.action = "not_applicable" ->
            o.handoff.fill = NoFill /\ o.before = o.after /\ o.failure = "none"
       [] o.action = "effect_committed" ->
            /\ o.handoff.fill # NoFill /\ o.after = o.before + 1
            /\ o.failure = "none"
            /\ transactions[o.after].subject = o.handoff.fill
       [] OTHER -> o.before = o.after /\ o.failure # "none" /\ o.halt

RefreshValid(d) ==
  /\ refreshes[d].dispatch = d
  /\ ~(refreshes[d].halted /\ refreshes[d].permitted)

--------------------------------------------------------------------------------
\* Properties

\* The balance of an account after the first n entries, from the postings.
BalanceAfter(n, account, commodity) ==
  MapThenSumSet(
    LAMBDA k : SumOf({p \in transactions[k].postings :
                        p.account = account /\ p.commodity = commodity}),
    1..n)

\* The balances are what the log says: every entry balances in every
\* commodity, and cash, positions and the rounding account are the sums of
\* their postings over all entries, whichever operation wrote them.
BooksAreTheLog ==
  /\ \A n \in 1..Version : PostingsBalance(transactions[n].postings)
  /\ cash = BalanceAfter(Version, "cash", Currency)
  /\ rounding = BalanceAfter(Version, "rounding", Currency)
  /\ \A i \in Instruments :
       positions[i] = BalanceAfter(Version, "position", i)

\* No operation raises after it has derived its effect: every entry,
\* snapshot, handoff outcome and refresh it publishes passes the factory that
\* the code puts before the commit.
EvidenceIsValid ==
  /\ SnapshotValid
  /\ \A n \in 1..Version : TransactionValid(n)
  /\ \A h \in DOMAIN retained : HandoffOutcomeValid(retained[h])
  /\ \A d \in DOMAIN refreshes : RefreshValid(d)

\* The residual the settlement leaves is at most half of the grid for every
\* fill, so cash stays on the grid and no fill can push more than that into
\* the rounding account.
ResidualIsHalfAGrid ==
  /\ cash % LedgerQuantum = 0
  /\ \A n \in 1..Version : \A p \in transactions[n].postings :
       p.account = "rounding" =>
         2 * p.amount \in (-LedgerQuantum)..LedgerQuantum

\* A fill and a fact are booked at most once, over the direct path, the
\* command path and every handoff together.
BookedOnce ==
  \A m, n \in 1..Version :
    IsFill(m) /\ IsFill(n) /\ m # n =>
      /\ transactions[m].subject.id # transactions[n].subject.id
      /\ transactions[m].subject.fact # transactions[n].subject.fact

\* In a funded run no fill leaves the cash account below zero.
FillsAreCovered ==
  Funded => \A n \in 1..Version :
              IsFill(n) => BalanceAfter(n, "cash", Currency) >= 0

\* The two indexes never disagree, so a fill presented again is told
\* duplicate exactly when that very fill is in the log, and the rows of the
\* code for an inconsistent index are never reached.
ReplayIsRecognised ==
  ledgerAnswer.op = "fill" =>
    /\ ledgerAnswer.code # "index_inconsistent"
    /\ ledgerAnswer.code = "duplicate" =>
         \E n \in 1..Version :
           IsFill(n) /\ transactions[n].subject = ledgerAnswer.fill
    /\ ledgerAnswer.code \notin {"duplicate", "applied"} =>
         \A n \in 1..Version :
           IsFill(n) => transactions[n].subject # ledgerAnswer.fill

\* The outcome of a handoff tells the truth about the log for ever: a
\* committed one names the entry that it wrote, and no entry is of a handoff
\* that failed or did not apply.
OutcomesAreTheLog ==
  \A h \in Handoffs :
    LET written == {n \in 1..Version : h \in transactions[n].via}
    IN IF h \in DOMAIN retained /\ retained[h].action = "effect_committed"
         THEN written = {retained[h].after} /\ retained[h].before + 1 = retained[h].after
         ELSE written = {}

\* A refresh that is handed out with leave to submit is of the ledger as it
\* is now, and nothing booked waits for reconciliation: neither a replay nor
\* a reordered call brings back the leave of an earlier snapshot.
PermissionIsCurrent ==
  ledgerAnswer.op = "refresh" /\ ledgerAnswer.refresh.permitted =>
    /\ ledgerAnswer.refresh.snapshot = Snapshot
    /\ \A n \in 1..Version :
         transactions[n].via # {} => ~transactions[n].requires

\* The log is only appended to, retained outcomes and published refreshes
\* are never rewritten.
HistoryIsKept ==
  [][/\ \A n \in 1..Version : transactions'[n] = transactions[n]
     /\ \A h \in DOMAIN retained : retained'[h] = retained[h]
     /\ \A d \in DOMAIN refreshes : refreshes'[d] = refreshes[d]
     /\ Len(transactions') - Version \in {0, 1}]_bookVars

LedgerTypeOK ==
  /\ {cash, rounding} \subseteq Int
  /\ positions \in [Instruments -> Int]
  /\ DOMAIN openRefs \subseteq DOMAIN fillIndex
  /\ unresolved \subseteq DOMAIN fillIndex
  /\ Range(fillIndex) \cup Range(factIndex) \cup Range(handoffIndex)
       \subseteq 1..Version
  /\ DOMAIN retained \subseteq Handoffs
  /\ ledgerAnswer.op \in {"none", "funding", "fill", "handoff", "refresh", "adjust"}

\* The ledger: balances are the sum of the log and what is kept is valid,
\* residuals stay within half a grid, a fill is booked once and covered, a
\* replay is recognised, outcomes are those of the log and a permission is
\* current.
LedgerSafe ==
    /\ LedgerTypeOK /\ BooksAreTheLog /\ EvidenceIsValid /\ ResidualIsHalfAGrid
    /\ BookedOnce /\ FillsAreCovered /\ ReplayIsRecognised /\ OutcomesAreTheLog
    /\ PermissionIsCurrent
================================================================================
