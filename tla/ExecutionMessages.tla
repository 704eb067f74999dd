-------------------------- MODULE ExecutionMessages --------------------------
(***************************************************************************)
(* The execution messages of a run (core/execution_messages.py): an order  *)
(* intent, the risk decision on it with its approval, the order, the facts *)
(* a venue reports, their ingress and the fill of a trade fact.            *)
(*                                                                         *)
(* A factory that may raise is an operator whose value is the set of what  *)
(* it returns: one message, or nothing.  Messages travel as canonical JSON *)
(* documents and are decoded in the context of the messages they rest on.  *)
(* A digest is the digested document under the tag of its domain.  A       *)
(* specification set is identified by its quantity quantum.                *)
(***************************************************************************)
EXTENDS Integers, FiniteSets, TLC

CONSTANTS Runs, Quanta, MessageQuantities, Prices,
          Rates,                                         \* commission rates in basis points
          Times,
          MaxIntents, MaxDecisions, MaxOrders, MaxFacts  \* bounds on the messages made

NoRate == -1    \* no commission is charged

ASSUME MessageAssumption ==
    /\ Quanta \subseteq Nat \ {0} /\ MessageQuantities \subseteq Nat /\ Prices \subseteq Int
    /\ Rates \subseteq Nat /\ Times \subseteq Nat

VARIABLES intents, decisions, messageOrders, facts, ingresses, messageFills

messageVars == <<intents, decisions, messageOrders, facts, ingresses, messageFills>>

MessageId(kind, run, n) == [kind |-> kind, run |-> run, n |-> n]
NoId == MessageId("none", "none", 0)
Digest(domain, doc) == [domain |-> domain, doc |-> doc]
NoDigest == [domain |-> "none"]

OwnerIs(id, kind) == id.kind = kind
SameRun(run, ids) == \A id \in ids \ {NoId} : id.run = run
QuantityOk(q, spec) == q > 0 /\ q % spec = 0
PriceOk(p) == p > 0                                  \* the positive price domain

-----------------------------------------------------------------------------
(* Documents *)

Enveloped(type, m) == m @@ [message_type |-> type, schema_version |-> 1]

IntentDoc(i) == Enveloped("order_intent", i)
IntentDigest(i) == Digest("order_intent", IntentDoc(i))
EffectiveDigest(i, q) ==
    Digest("effective_order_intent",
           [approved |-> q, intent_id |-> i.intent_id, original |-> IntentDigest(i), run_id |-> i.run_id])

NoApproval == [approval_id |-> NoId]
ApprovalDoc(a) == IF a = NoApproval THEN a ELSE Enveloped("execution_approval", a)
DecisionDoc(d) == Enveloped("risk_decision", [d EXCEPT !.approval = ApprovalDoc(@)])
OrderDoc(o) == Enveloped("order", o)
ClientKey(o) == Digest("client_submission_key", OrderDoc(o))

FactPreimage(f) == Enveloped("execution_fact", f)
FactDigest(f) == Digest("execution_fact", FactPreimage(f))
FactDoc(f) == FactPreimage(f) @@ [fact_sha256 |-> FactDigest(f)]
IngressDoc(n) == Enveloped("execution_fact_ingress", [n EXCEPT !.fact = FactDoc(@)])
FillDoc(l) == Enveloped("fill", l)

-----------------------------------------------------------------------------
(* Factories *)

OrderIntent(run, id, corr, target, q, at, spec) ==
    IF /\ OwnerIs(id, "portfolio_intent") /\ OwnerIs(corr, "strategy_signal")
       /\ SameRun(run, {id, corr, target}) /\ QuantityOk(q, spec)
    THEN {[run_id |-> run, intent_id |-> id, correlation_id |-> corr, causation_id |-> target,
           target_lineage |-> target, quantity |-> q, available_at |-> at, spec_set |-> spec]}
    ELSE {}

Approval(i, id, decision, q, version) ==
    [run_id |-> i.run_id, approval_id |-> id, decision_id |-> decision, intent_id |-> i.intent_id,
     correlation_id |-> i.correlation_id, causation_id |-> decision,
     original_intent_sha256 |-> IntentDigest(i), effective_intent_sha256 |-> EffectiveDigest(i, q),
     approved_quantity |-> q, risk_state_version |-> version, available_at |-> i.available_at]

MessageExecutable == {"allow", "resize"}
OutcomeOf(kind) == [allow |-> "risk_allowed", resize |-> "risk_resized",
                    reject |-> "risk_rejected", evaluation_failed |-> "risk_evaluation_failed"][kind]

ApprovedOk(kind, i, spec, approval, q) ==
    IF kind \in MessageExecutable
    THEN /\ QuantityOk(q, spec) /\ q <= i.quantity
         /\ (kind = "allow") <=> (q = i.quantity)
         /\ OwnerIs(approval, "risk_approval") /\ SameRun(i.run_id, {approval})
    ELSE approval = NoId /\ q = 0

RiskDecision(kind, id, i, spec, version, approval, q) ==
    IF /\ OwnerIs(id, "risk_decision") /\ SameRun(i.run_id, {id}) /\ spec = i.spec_set
       /\ ApprovedOk(kind, i, spec, approval, q)
    THEN {[run_id |-> i.run_id, decision_id |-> id, intent_id |-> i.intent_id,
           correlation_id |-> i.correlation_id, causation_id |-> i.intent_id,
           intent_sha256 |-> IntentDigest(i), kind |-> kind, outcome_code |-> OutcomeOf(kind),
           risk_state_version |-> version, available_at |-> i.available_at,
           approved_quantity |-> q,
           effective_intent_sha256 |-> IF kind \in MessageExecutable THEN EffectiveDigest(i, q) ELSE NoDigest,
           approval |-> IF kind \in MessageExecutable THEN Approval(i, approval, id, q, version) ELSE NoApproval]}
    ELSE {}

DecisionBindsIntent(d, i) ==
    /\ d.intent_id = i.intent_id /\ d.intent_sha256 = IntentDigest(i)
    /\ d.correlation_id = i.correlation_id /\ d.causation_id = i.intent_id
    /\ d.available_at = i.available_at

ApprovalBindsDecision(a, d, i) ==
    /\ a.decision_id = d.decision_id /\ a.intent_id = i.intent_id
    /\ a.correlation_id = i.correlation_id /\ a.causation_id = d.decision_id
    /\ a.original_intent_sha256 = IntentDigest(i)
    /\ a.effective_intent_sha256 = d.effective_intent_sha256
    /\ a.approved_quantity = d.approved_quantity
    /\ a.risk_state_version = d.risk_state_version /\ a.available_at = i.available_at

Order(id, i, d, spec) ==
    IF /\ OwnerIs(id, "execution_order") /\ SameRun(i.run_id, {id, d.decision_id})
       /\ d.kind \in MessageExecutable
       /\ DecisionBindsIntent(d, i) /\ ApprovalBindsDecision(d.approval, d, i)
       /\ spec = i.spec_set /\ QuantityOk(d.approved_quantity, spec)
    THEN {[run_id |-> i.run_id, order_id |-> id, intent_id |-> i.intent_id,
           correlation_id |-> i.correlation_id, causation_id |-> d.decision_id,
           decision_id |-> d.decision_id, approval_id |-> d.approval.approval_id,
           original_intent_sha256 |-> IntentDigest(i),
           effective_intent_sha256 |-> d.effective_intent_sha256,
           risk_decision_sha256 |-> Digest("risk_decision", DecisionDoc(d)),
           approval_sha256 |-> Digest("execution_approval", ApprovalDoc(d.approval)),
           quantity |-> d.approved_quantity, spec_set |-> spec,
           eligible_after |-> i.available_at]}
    ELSE {}

\* Half-even rounding of price * quantity * rate / 10^4 to the currency quantum.
CommissionAmount(p, q, bps) ==
    LET n == p * q * bps
        u == n \div 10000
        r == (n % 10000) * 2
    IN  IF r > 10000 \/ (r = 10000 /\ u % 2 = 1) THEN u + 1 ELSE u

Fee(p, q, bps) == [amount |-> IF bps = NoRate THEN 0 ELSE CommissionAmount(p, q, bps),
                   commission_bps |-> bps]

LinksOk(order, corr, cause) ==
    /\ order # NoId => OwnerIs(order, "execution_order") /\ cause = order
    /\ corr # NoId => OwnerIs(corr, "strategy_signal")
    /\ cause # NoId => cause.kind \in {"execution_order", "reconciliation_observation"}
    /\ \E r \in Runs : SameRun(r, {order, corr, cause})

NewFact(kind, source, at, key, order, corr, cause, payload) ==
    IF LinksOk(order, corr, cause)
    THEN {[kind |-> kind, source_namespace |-> source, occurred_at |-> at,
           client_submission_key |-> key, order_id |-> order, correlation_id |-> corr,
           causation_id |-> cause, payload |-> payload]}
    ELSE {}

MessageLifecycle == {"acknowledgement", "rejection", "expiry", "cancellation"}
LifecyclePayload(code) == [payload_type |-> "lifecycle", outcome_code |-> code]
QueryPayload(code) == [payload_type |-> "submission_query", outcome_code |-> code]
TradePayload(q, p, fee, spec) ==
    [payload_type |-> "trade", quantity |-> q, price |-> p, fee |-> fee, spec_set |-> spec]

\* A lifecycle fact states its kind's outcome, an expiry also the one without market data.
LifecycleFact(kind, source, at, key, order, corr, cause, code) ==
    IF kind \in MessageLifecycle /\ (code = "default" \/ (kind = "expiry" /\ code = "no_market_data"))
    THEN NewFact(kind, source, at, key, order, corr, cause,
                 LifecyclePayload(IF code = "default" THEN kind ELSE code))
    ELSE {}

TradeFact(source, at, key, order, corr, cause, q, p, bps, spec) ==
    IF QuantityOk(q, spec) /\ PriceOk(p)
    THEN NewFact("trade", source, at, key, order, corr, cause,
                 TradePayload(q, p, Fee(p, q, bps), spec))
    ELSE {}

QueryCodes == {"submitted", "not_submitted", "rejected", "filled", "still_unknown"}
QueryFact(source, at, code, o) ==
    IF code \in QueryCodes
    THEN NewFact("submission_query", source, at, ClientKey(o), o.order_id, o.correlation_id,
                 o.order_id, QueryPayload(code))
    ELSE {}

Ingress(at, source, seq, f) ==
    IF source = f.source_namespace /\ at >= f.occurred_at
    THEN {[available_at |-> at, source_namespace |-> source, ingress_sequence |-> seq, fact |-> f]}
    ELSE {}

FeeOk(fee, p, q) == fee = Fee(p, q, fee.commission_bps)

FillRunOk(id, f) == SameRun(id.run, {f.order_id, f.correlation_id, f.causation_id})

MessageFill(id, f, spec) ==
    IF /\ OwnerIs(id, "execution_fill") /\ f.kind = "trade" /\ spec = f.payload.spec_set
       /\ QuantityOk(f.payload.quantity, spec) /\ PriceOk(f.payload.price)
       /\ FeeOk(f.payload.fee, f.payload.price, f.payload.quantity)
       /\ FillRunOk(id, f)
    THEN {[run_id |-> id.run, fill_id |-> id, source_namespace |-> f.source_namespace,
           fact_sha256 |-> FactDigest(f), occurred_at |-> f.occurred_at,
           quantity |-> f.payload.quantity, price |-> f.payload.price, fee |-> f.payload.fee,
           spec_set |-> spec, client_submission_key |-> f.client_submission_key,
           order_id |-> f.order_id, correlation_id |-> f.correlation_id,
           causation_id |-> f.causation_id]}
    ELSE {}

-----------------------------------------------------------------------------
(* The wire: a document, whether its bytes are the canonical ones, and the fields
   whose JSON type is wrong *)

Wire(doc) == [doc |-> doc, canonical |-> TRUE, ill |-> {}]

EnvelopeKeys == {"message_type", "schema_version"}
Keys == [
    order_intent |-> {"run_id", "intent_id", "correlation_id", "causation_id", "target_lineage",
                      "quantity", "available_at", "spec_set"},
    execution_approval |-> {"run_id", "approval_id", "decision_id", "intent_id", "correlation_id",
                            "causation_id", "original_intent_sha256", "effective_intent_sha256",
                            "approved_quantity", "risk_state_version", "available_at"},
    risk_decision |-> {"run_id", "decision_id", "intent_id", "correlation_id", "causation_id",
                       "intent_sha256", "kind", "outcome_code", "risk_state_version",
                       "available_at", "approved_quantity", "effective_intent_sha256", "approval"},
    order |-> {"run_id", "order_id", "intent_id", "correlation_id", "causation_id", "decision_id",
               "approval_id", "original_intent_sha256", "effective_intent_sha256",
               "risk_decision_sha256", "approval_sha256", "quantity", "spec_set", "eligible_after"},
    execution_fact |-> {"kind", "source_namespace", "occurred_at", "client_submission_key",
                        "order_id", "correlation_id", "causation_id", "payload", "fact_sha256"},
    execution_fact_ingress |-> {"available_at", "source_namespace", "ingress_sequence", "fact"},
    fill |-> {"run_id", "fill_id", "source_namespace", "fact_sha256", "occurred_at", "quantity",
              "price", "fee", "spec_set", "client_submission_key", "order_id", "correlation_id",
              "causation_id"}]

\* _require_keys: exactly the declared fields, in the declared envelope.
HasKeys(doc, type) ==
    /\ DOMAIN doc = Keys[type] \cup EnvelopeKeys
    /\ doc.message_type = type /\ doc.schema_version = 1

\* The strict reader of every decoder: keys, envelope and the preflight of the wire types.
Readable(w, type) == HasKeys(w.doc, type) /\ w.ill = {}

RoundTrips(w, doc) == w.doc = doc /\ w.canonical

DecodeIntent(w, spec, target) ==
    IF ~Readable(w, "order_intent") \/ w.doc.target_lineage # target THEN {}
    ELSE {i \in OrderIntent(w.doc.run_id, w.doc.intent_id, w.doc.correlation_id, target,
                            w.doc.quantity, w.doc.available_at, spec) : RoundTrips(w, IntentDoc(i))}

DecodeDecision(w, i, spec) ==
    IF ~Readable(w, "risk_decision") THEN {}
    ELSE LET d == w.doc
             exec == d.kind \in MessageExecutable
         IN  IF \/ d.kind \notin {"allow", "resize", "reject", "evaluation_failed"}
                \/ exec /\ ~HasKeys(d.approval, "execution_approval")
                \/ ~exec /\ (d.approval # NoApproval \/ d.approved_quantity # 0
                             \/ d.effective_intent_sha256 # NoDigest)
             THEN {}
             ELSE {m \in RiskDecision(d.kind, d.decision_id, i, spec, d.risk_state_version,
                                      IF exec THEN d.approval.approval_id ELSE NoId,
                                      IF d.kind = "allow" THEN i.quantity ELSE d.approved_quantity) :
                   d.outcome_code = m.outcome_code /\ RoundTrips(w, DecisionDoc(m))}

DecodeApproval(w, i, d) ==
    IF /\ d.approval # NoApproval /\ Readable(w, "execution_approval")
       /\ d.intent_id = i.intent_id /\ d.intent_sha256 = IntentDigest(i)
       /\ RoundTrips(w, ApprovalDoc(d.approval))
    THEN {d.approval} ELSE {}

DecodeOrder(w, i, d, spec) ==
    IF ~Readable(w, "order") THEN {}
    ELSE {o \in Order(w.doc.order_id, i, d, spec) : RoundTrips(w, OrderDoc(o))}

Independent(spec) == [kind |-> "independent", spec |-> spec]
QueryOf(o) == [kind |-> "query", order |-> o]

PayloadKeys == {{"payload_type", "outcome_code"},
                {"payload_type", "quantity", "price", "fee", "spec_set"}}

PayloadType(p) ==
    IF DOMAIN p \notin PayloadKeys \/ (p.payload_type = "trade") # ("fee" \in DOMAIN p)
    THEN "refused" ELSE p.payload_type

StatedOutcome(kind, code) == IF code = kind THEN "default" ELSE code

ParsedFact(d, ctx) ==
    LET p == d.payload IN
    CASE d.kind = "submission_query" ->
            IF ctx.kind = "query" /\ PayloadType(p) = "submission_query"
            THEN QueryFact(d.source_namespace, d.occurred_at, p.outcome_code, ctx.order) ELSE {}
      [] d.kind = "trade" ->
            IF /\ ctx.kind = "independent" /\ PayloadType(p) = "trade"
               /\ p.spec_set = ctx.spec /\ FeeOk(p.fee, p.price, p.quantity)
            THEN TradeFact(d.source_namespace, d.occurred_at, d.client_submission_key, d.order_id,
                           d.correlation_id, d.causation_id, p.quantity, p.price,
                           p.fee.commission_bps, ctx.spec) ELSE {}
      [] d.kind \in MessageLifecycle ->
            IF ctx.kind = "independent" /\ PayloadType(p) = "lifecycle"
            THEN LifecycleFact(d.kind, d.source_namespace, d.occurred_at, d.client_submission_key,
                               d.order_id, d.correlation_id, d.causation_id,
                               StatedOutcome(d.kind, p.outcome_code)) ELSE {}
      [] OTHER -> {}

DecodeFact(w, ctx) ==
    IF ~Readable(w, "execution_fact") THEN {}
    ELSE {f \in ParsedFact(w.doc, ctx) :
            w.doc.fact_sha256 = FactDigest(f) /\ RoundTrips(w, FactDoc(f))}

\* The fact inside is encoded again and decoded as a message of its own.
DecodeIngress(w, ctx) ==
    IF ~Readable(w, "execution_fact_ingress") THEN {}
    ELSE {n \in UNION {Ingress(w.doc.available_at, w.doc.source_namespace, w.doc.ingress_sequence, f) :
                          f \in DecodeFact(Wire(w.doc.fact), ctx)} : RoundTrips(w, IngressDoc(n))}

DecodeFill(w, f, spec) ==
    IF ~Readable(w, "fill") THEN {}
    ELSE {l \in MessageFill(w.doc.fill_id, f, spec) : RoundTrips(w, FillDoc(l))}

-----------------------------------------------------------------------------
(* The messages of two runs, made stage by stage (a bound: no stage is left and taken up again);
   arguments a factory refuses change nothing *)

MessageSources == {"v1", "v2"}

MessageInit ==
    /\ intents = {} /\ decisions = {} /\ messageOrders = {} /\ facts = {}
    /\ ingresses = {} /\ messageFills = {}

CreateOrderIntent ==
    /\ Cardinality(intents) < MaxIntents /\ decisions = {}
    /\ \E run, r \in Runs, kind \in {"portfolio_intent", "strategy_signal"},
         q \in MessageQuantities, at \in Times, spec \in Quanta :
         \E i \in OrderIntent(run, MessageId(kind, r, 1), MessageId("strategy_signal", run, 1),
                              MessageId("portfolio_target", r, 1), q, at, spec) \ intents :
            intents' = intents \cup {i}
    /\ UNCHANGED <<decisions, messageOrders, facts, ingresses, messageFills>>

CreateRiskDecision ==
    /\ Cardinality(decisions) < MaxDecisions /\ messageOrders = {}
    /\ \E i \in intents, r \in Runs, kind \in {"allow", "resize", "reject", "evaluation_failed"},
         q \in MessageQuantities \cup {0}, spec \in Quanta :
         \E d \in RiskDecision(kind, MessageId("risk_decision", r, 1), i, spec, 0,
                               IF kind \in MessageExecutable THEN MessageId("risk_approval", r, 1) ELSE NoId, q)
                  \ decisions :
            decisions' = decisions \cup {d}
    /\ UNCHANGED <<intents, messageOrders, facts, ingresses, messageFills>>

CreateOrder ==
    /\ Cardinality(messageOrders) < MaxOrders /\ facts = {}
    /\ \E i \in intents, d \in decisions, r \in Runs, spec \in Quanta :
         \E o \in Order(MessageId("execution_order", r, 1), i, d, spec) \ messageOrders :
            messageOrders' = messageOrders \cup {o}
    /\ UNCHANGED <<intents, decisions, facts, ingresses, messageFills>>

\* What a venue may say of the order of a fact: nothing, its identity, or another's.
Links == {<<NoId, NoId, NoId>>}
         \cup {<<o.order_id, o.correlation_id, o.order_id>> : o \in messageOrders}
         \cup {<<o.order_id, c, o.order_id>> :
                 o \in messageOrders, c \in {MessageId("strategy_signal", r, 1) : r \in Runs}}
         \cup {<<o.order_id, NoId, MessageId("reconciliation_observation", o.run_id, 1)>> : o \in messageOrders}

CreateFact(made) ==
    /\ Cardinality(facts) < MaxFacts /\ messageOrders # {} /\ ingresses = {} /\ messageFills = {}
    /\ \E f \in made \ facts : facts' = facts \cup {f}
    /\ UNCHANGED <<intents, decisions, messageOrders, ingresses, messageFills>>

CreateLifecycleFact ==
    \E l \in Links, kind \in {"acknowledgement", "expiry"}, code \in {"default", "no_market_data"} :
       CreateFact(LifecycleFact(kind, "v1", 1, NoDigest, l[1], l[2], l[3], code))
CreateTradeFact ==
    \E l \in Links, q \in MessageQuantities, p \in Prices, bps \in Rates \cup {NoRate}, spec \in Quanta :
       CreateFact(TradeFact("v1", 1, NoDigest, l[1], l[2], l[3], q, p, bps, spec))
CreateSubmissionQueryFact ==
    \E o \in messageOrders, code \in {"submitted", "filled"} : CreateFact(QueryFact("v1", 1, code, o))

CreateIngress ==
    /\ ingresses = {}
    /\ \E f \in facts, at \in Times, s \in MessageSources : \E n \in Ingress(at, s, 0, f) : ingresses' = {n}
    /\ UNCHANGED <<intents, decisions, messageOrders, facts, messageFills>>

CreateFill ==
    /\ messageFills = {}
    /\ \E f \in facts, r \in Runs, spec \in Quanta :
         \E l \in MessageFill(MessageId("execution_fill", r, 1), f, spec) : messageFills' = {l}
    /\ UNCHANGED <<intents, decisions, messageOrders, facts, ingresses>>

MessageNext == \/ CreateOrderIntent \/ CreateRiskDecision \/ CreateOrder
               \/ CreateLifecycleFact \/ CreateTradeFact \/ CreateSubmissionQueryFact
               \/ CreateIngress \/ CreateFill

MessageSpec == MessageInit /\ [][MessageNext]_messageVars

-----------------------------------------------------------------------------
(* Alterations of a document on the wire *)

IdFields == {"intent_id", "correlation_id", "causation_id", "target_lineage", "decision_id",
             "approval_id", "order_id", "fill_id"}
DigestFields == {"intent_sha256", "original_intent_sha256", "effective_intent_sha256",
                 "risk_decision_sha256", "approval_sha256", "client_submission_key", "fact_sha256"}

OtherValues(f, v) ==
    CASE f \in IdFields -> {[v EXCEPT !.n = @ + 1]} \cup {[v EXCEPT !.run = r] : r \in Runs}
      [] f \in DigestFields -> {[v EXCEPT !.domain = "other"]}
      [] f = "run_id" -> Runs
      [] f \in {"quantity", "approved_quantity", "price"} -> MessageQuantities \cup {0}
      [] f \in {"available_at", "occurred_at", "eligible_after", "risk_state_version",
                "ingress_sequence", "schema_version"} -> 0..2
      [] f = "spec_set" -> Quanta
      [] f = "source_namespace" -> MessageSources
      [] f = "kind" -> {"allow", "resize", "reject", "trade", "expiry", "submission_query"}
      [] f = "outcome_code" -> {"risk_allowed", "risk_rejected", "expiry", "no_market_data", "filled"}
      [] f = "fee" -> {[v EXCEPT !.amount = @ + 1]} \cup {[v EXCEPT !.commission_bps = b] : b \in Rates \cup {NoRate}}
      [] f \in {"message_type", "payload_type"} -> {"other"}
      [] OTHER -> {}

\* Each altered document with the field that was altered.
Altered(doc) ==
    UNION {{[doc |-> [doc EXCEPT ![f] = v], at |-> f] : v \in OtherValues(f, doc[f]) \ {doc[f]}} :
             f \in DOMAIN doc}
    \cup {[doc |-> [k \in DOMAIN doc \ {f} |-> doc[k]], at |-> f] : f \in DOMAIN doc}
    \cup {[doc |-> doc @@ [unknown |-> 0], at |-> "unknown"]}

Nested == {"approval", "payload", "fact"}
AlteredInside(doc) ==
    UNION {{[doc |-> [doc EXCEPT ![f] = a.doc], at |-> a.at] : a \in Altered(doc[f])} :
             f \in {g \in Nested \cap DOMAIN doc : doc[g] # NoApproval}}

Alterations(doc) ==
    {[wire |-> Wire(a.doc), at |-> a.at] : a \in Altered(doc) \cup AlteredInside(doc)}
    \cup {[wire |-> [Wire(doc) EXCEPT !.ill = {f}], at |-> "type"] : f \in DOMAIN doc}
    \cup {[wire |-> [Wire(doc) EXCEPT !.canonical = FALSE], at |-> "bytes"]}

-----------------------------------------------------------------------------
(* Properties *)

MessageIntentOf(d) == CHOOSE i \in intents : IntentDigest(i) = d.intent_sha256
DecisionOf(o) == CHOOSE d \in decisions : Digest("risk_decision", DecisionDoc(d)) = o.risk_decision_sha256
ContextOf(f) == IF f.kind = "submission_query"
                THEN QueryOf(CHOOSE o \in messageOrders : o.order_id = f.order_id)
                ELSE Independent(IF f.kind = "trade" THEN f.payload.spec_set ELSE 1)

MessageTypeOK ==
    /\ \A i \in intents : DOMAIN i = Keys.order_intent
    /\ \A d \in decisions : DOMAIN d = Keys.risk_decision
    /\ \A o \in messageOrders : DOMAIN o = Keys.order
    /\ \A f \in facts : DOMAIN f = Keys.execution_fact \ {"fact_sha256"}
    /\ \A l \in messageFills : DOMAIN l = Keys.fill
    /\ \A n \in ingresses : n.fact \in facts

\* Every message that was made is read back from its own bytes in its own context as itself,
\* which is what recovery from the journal relies on.
DecodesItself ==
    /\ \A i \in intents : DecodeIntent(Wire(IntentDoc(i)), i.spec_set, i.target_lineage) = {i}
    /\ \A d \in decisions :
          /\ DecodeDecision(Wire(DecisionDoc(d)), MessageIntentOf(d), MessageIntentOf(d).spec_set) = {d}
          /\ d.kind \in MessageExecutable =>
                DecodeApproval(Wire(ApprovalDoc(d.approval)), MessageIntentOf(d), d) = {d.approval}
    /\ \A o \in messageOrders : DecodeOrder(Wire(OrderDoc(o)), MessageIntentOf(DecisionOf(o)), DecisionOf(o),
                                            o.spec_set) = {o}
    /\ \A f \in facts : DecodeFact(Wire(FactDoc(f)), ContextOf(f)) = {f}
    /\ \A n \in ingresses : DecodeIngress(Wire(IngressDoc(n)), ContextOf(n.fact)) = {n}
    /\ \A l \in messageFills : \E f \in facts : DecodeFill(Wire(FillDoc(l)), f, l.spec_set) = {l}

\* A single altered, missing, added or ill-typed field, or other bytes for the same document, is
\* refused in the message's own context, unless the field is what the message alone decides: its
\* own identity or version, and for an intent its content.  A fact has no such field.
AlterationIsRefused ==
    /\ \A i \in intents : \A a \in Alterations(IntentDoc(i)) :
          DecodeIntent(a.wire, i.spec_set, i.target_lineage) # {} =>
             a.at \in {"intent_id", "correlation_id", "quantity", "available_at"}
    /\ \A d \in decisions : \A a \in Alterations(DecisionDoc(d)) :
          DecodeDecision(a.wire, MessageIntentOf(d), MessageIntentOf(d).spec_set) # {} =>
             a.at \in {"decision_id", "risk_state_version", "approval_id"}
    /\ \A d \in decisions : d.kind \in MessageExecutable =>
          \A a \in Alterations(ApprovalDoc(d.approval)) : DecodeApproval(a.wire, MessageIntentOf(d), d) = {}
    /\ \A o \in messageOrders : \A a \in Alterations(OrderDoc(o)) :
          DecodeOrder(a.wire, MessageIntentOf(DecisionOf(o)), DecisionOf(o), o.spec_set) # {} =>
             a.at = "order_id"
    /\ \A f \in facts : \A a \in Alterations(FactDoc(f)) : DecodeFact(a.wire, ContextOf(f)) = {}
    /\ \A n \in ingresses : \A a \in Alterations(IngressDoc(n)) :
          DecodeIngress(a.wire, ContextOf(n.fact)) # {} => a.at \in {"available_at", "ingress_sequence"}
    /\ \A l \in messageFills, f \in facts : \A a \in Alterations(FillDoc(l)) :
          DecodeFill(a.wire, f, l.spec_set) # {} => a.at = "fill_id"

\* A message is read in no other context: a decision with another intent, an order with another
\* intent or decision, a fill with another fact.
ForeignContextIsRefused ==
    /\ \A d \in decisions : \A i \in intents \ {MessageIntentOf(d)} : i.intent_id = d.intent_id =>
          /\ DecodeDecision(Wire(DecisionDoc(d)), i, i.spec_set) = {}
          /\ DecodeApproval(Wire(ApprovalDoc(d.approval)), i, d) = {}
    /\ \A o \in messageOrders, i \in intents, d \in decisions :
          DecodeOrder(Wire(OrderDoc(o)), i, d, i.spec_set) # {} =>
             d = DecisionOf(o) /\ i = MessageIntentOf(d)
    /\ \A l \in messageFills, f \in facts :
          \A g \in {[f EXCEPT !.occurred_at = 0], [f EXCEPT !.source_namespace = "v2"],
                  [f EXCEPT !.client_submission_key = Digest("client_submission_key", 0)]} :
             DecodeFill(Wire(FillDoc(l)), g, l.spec_set) = {}

\* An order orders what an executable decision approved of the one intent that decision judged,
\* never more than the intent asked for, however intents share an identity.
OrderIsApproved ==
    \A o \in messageOrders : \E d \in decisions, i \in intents :
       /\ o.risk_decision_sha256 = Digest("risk_decision", DecisionDoc(d))
       /\ d.intent_sha256 = IntentDigest(i) /\ o.original_intent_sha256 = IntentDigest(i)
       /\ d.kind \in MessageExecutable /\ o.quantity = d.approved_quantity
       /\ o.quantity <= i.quantity /\ o.effective_intent_sha256 = EffectiveDigest(i, o.quantity)

\* The lineage of a fill stays in one run: the fill, the order it names and what the fact says.
FillStaysInItsRun ==
    \A l \in messageFills : SameRun(l.run_id, {l.fill_id, l.order_id, l.correlation_id, l.causation_id})

\* What is booked for a fill is the commission of its own price and quantity, to the nearest
\* currency quantum and to the even one between two.
FillPaysItsCommission ==
    \A l \in messageFills :
       LET err == l.fee.amount * 10000 - l.price * l.quantity * l.fee.commission_bps IN
       IF l.fee.commission_bps = NoRate THEN l.fee.amount = 0
       ELSE /\ err \in -5000..5000
            /\ err \in {-5000, 5000} => l.fee.amount % 2 = 0

\* The decoders: a message is read back as itself, an altered document or a
\* foreign context is refused, an order is one that was approved, and a fill
\* stays in its run and pays its commission.
MessageSafe ==
    /\ MessageTypeOK /\ DecodesItself /\ AlterationIsRefused /\ ForeignContextIsRefused
    /\ OrderIsApproved /\ FillStaysInItsRun /\ FillPaysItsCommission
=============================================================================
