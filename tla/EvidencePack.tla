----------------------------- MODULE EvidencePack -----------------------------
(***************************************************************************)
(* A case's facts, the fallback pack drawn from them, and what stands      *)
(* between a pack and its reader: the contract, the guardrails and the     *)
(* red team's tamperings (src/src/evidence_facts.py, evidence_fallback.py, *)
(* evidence_contract.py, evidence_guardrails.py, evidence_redteam.py).     *)
(*                                                                         *)
(* Text is what the checks tell apart in it. A fact's text is PLAIN or one *)
(* of UnsafeTexts. A statement has the facts whose numbers and dates it    *)
(* repeats ("claims"), and those whose words it shares ("words"). A rule's *)
(* fact is known by the rule's code, without the prefix of its stage. A    *)
(* pack's items are a set: no check reads their order.                     *)
(***************************************************************************)
EXTENDS PaymentRules, CostPolicy

UnsafeTexts == {"INSTRUCTION", "EMAIL", "PHONE", "CARD"}

RuleSources == {"CAPTURE_RULE", "LIFECYCLE_RULE"}
OperationalSources == RuleSources \cup {"PAYMENT", "ORDER", "SHIPMENT", "REFUND"}

Fact(id, source, value, at) ==
    [id |-> id, source |-> source, value |-> value, at |-> at, text |-> "PLAIN"]

FactIf(condition, id, source, value, at) ==
    IF condition THEN {Fact(id, source, value, at)} ELSE {}

FactIds(facts) == {f.id : f \in facts}

(* The columns of a payment that become facts.                             *)
FactColumn ==
    [ACCOUNT_AGE_DAYS |-> "account_age_days", AMOUNT_PRIOR_24H |-> "amount_last_24h",
     BILLING_SHIPPING_DISTANCE |-> "billing_shipping_distance_km",
     CANCELLED_SUBSCRIPTION_BILLED |-> "cancelled_subscription_billed",
     CARD_NETWORK |-> "card_network", CVV_RESULT |-> "cvv_result",
     DESCRIPTOR_CLARITY |-> "descriptor_clarity_score", DEVICE_NEW |-> "device_is_new",
     DIGITAL_GOOD |-> "is_digital_good", DUPLICATE_PAYMENT |-> "is_duplicate_payment",
     EMAIL_VERIFIED |-> "email_verified",
     IP_COUNTRY_MATCH |-> "ip_country_matches_billing",
     IP_PROXY_VPN |-> "ip_is_proxy_or_vpn", PAYMENT_AMOUNT |-> "amount",
     PHONE_VERIFIED |-> "phone_verified", PRODUCT_CATEGORY |-> "product_category",
     PRIOR_DISPUTES |-> "prior_disputes_count", PRIOR_ORDERS |-> "total_prior_orders",
     THREEDS_LIABILITY_SHIFT |-> "threeds_liability_shift",
     THREEDS_STATUS |-> "threeds_status", VELOCITY_1H |-> "txns_last_1h",
     VELOCITY_24H |-> "txns_last_24h", VELOCITY_7D |-> "txns_last_7d"]

CaptureFacts(x) ==
    {Fact(id, "PAYMENT", x[FactColumn[id]], x.created_at) : id \in DOMAIN FactColumn}
        \cup {Fact("PAYMENT_CREATED_AT", "PAYMENT", x.created_at, x.created_at)}

(* Of a probability in tenths; the bounds are 1, 5 and 15 percent.         *)
RiskBand(p) ==
    LET percent == (p * Percent) \div Tenths
    IN  CASE percent < 1 -> "LOW"
          [] percent \in 1 .. 4 -> "MEDIUM"
          [] percent \in 5 .. 14 -> "HIGH"
          [] percent >= 15 -> "CRITICAL"

ScoreFacts(x, policyAction) ==
    {Fact("MODEL_CALIBRATED_PROBABILITY", "MODEL", x.probability, x.created_at),
     Fact("MODEL_RISK_BAND", "MODEL", RiskBand(x.probability), x.created_at),
     Fact("POLICY_RECOMMENDED_ACTION", "POLICY", policyAction, x.created_at)}

(* A deadline is known with the promise; an event from when it happened.   *)
OperationFacts(x, o, t) ==
    LET requested == Visible(o.requested, t) # Never
    IN  {Fact("SHIPMENT_EXPECTED", "ORDER", o.expected, x.created_at)}
        \cup FactIf(o.promised # Never,
                    "SHIPMENT_PROMISED_AT", "SHIPMENT", o.promised, x.created_at)
        \cup FactIf(Visible(o.delivered, t) # Never,
                    "SHIPMENT_DELIVERED_AT", "SHIPMENT", o.delivered, o.delivered)
        \cup FactIf(requested, "REFUND_REQUESTED_AT", "REFUND", o.requested, o.requested)
        \cup FactIf(requested /\ o.promisedBy # Never,
                    "REFUND_PROMISED_BY", "REFUND", o.promisedBy, o.requested)
        \cup FactIf(requested /\ Visible(o.processed, t) # Never,
                    "REFUND_PROCESSED_AT", "REFUND", o.processed, o.processed)

RuleFacts(hits, source, at) == {Fact(h, source, TRUE, at) : h \in hits}

BuildEvidenceCase(i, x, policyAction, o, t) ==
    [payment |-> i, as_of |-> t,
     action |-> DeterministicAction(LifecycleHits(o, t), CaptureHits(x), policyAction),
     facts |-> CaptureFacts(x) \cup ScoreFacts(x, policyAction)
                 \cup OperationFacts(x, o, t)
                 \cup RuleFacts(CaptureHits(x), "CAPTURE_RULE", x.created_at)
                 \cup RuleFacts(LifecycleHits(o, t), "LIFECYCLE_RULE", t)]

(* What the contract asks of a case.                                       *)
IsCase(case) ==
    /\ case.facts # {}
    /\ \A f, g \in case.facts : f.id = g.id => f = g

-----------------------------------------------------------------------------
(* The deterministic pack.                                                 *)

MaxFallbackItems == 6

(* Facts by the priority of their source, then by id, as far as six items  *)
(* can reach: a case has every fact of a payment's columns.                *)
CitationOrder ==
    <<"AUTHENTICATION_GAP", "DEVICE_DISTANCE_ANOMALY", "DEVICE_NETWORK_ANOMALY",
      "MERCHANT_CANCELLED_SUBSCRIPTION", "MERCHANT_DUPLICATE_PAYMENT",
      "NEW_ACCOUNT_HIGH_VALUE", "PAYMENT_VELOCITY_SPIKE", "REPEAT_DISPUTE_HISTORY",
      "UNCLEAR_BILLING_DESCRIPTOR", "REFUND_NOT_PROCESSED", "SHIPMENT_SLA_BREACHED",
      "REFUND_PROCESSED_AT", "REFUND_PROMISED_BY", "REFUND_REQUESTED_AT",
      "SHIPMENT_DELIVERED_AT", "SHIPMENT_PROMISED_AT", "SHIPMENT_EXPECTED",
      "ACCOUNT_AGE_DAYS", "AMOUNT_PRIOR_24H", "BILLING_SHIPPING_DISTANCE",
      "CANCELLED_SUBSCRIPTION_BILLED", "CARD_NETWORK">>

Strength(source) ==
    IF source \in RuleSources THEN "STRONG"
    ELSE IF source \in OperationalSources THEN "MODERATE" ELSE "WEAK"

Item(f) ==
    [cites |-> {f.id}, claims |-> {f.id}, words |-> {f.id}, strength |-> Strength(f.source)]

(* The first six of the facts there are, by their places in the order.     *)
CitedIds(ids) ==
    LET places == {n \in DOMAIN CitationOrder : CitationOrder[n] \in ids}
    IN  {CitationOrder[n] : n \in
            {p \in places : Cardinality({q \in places : q < p}) < MaxFallbackItems}}

FallbackPack(case) ==
    [payment |-> case.payment, action |-> case.action,
     summary |-> [claims |-> {}, accuses |-> FALSE],
     items |-> {Item(f) : f \in
                  {g \in case.facts : g.id \in CitedIds(FactIds(case.facts))}},
     message |-> "NONE", disclosed |-> TRUE]

-----------------------------------------------------------------------------
(* The checks every pack passes before it is delivered.                    *)

MeetsContract(pack, case) ==
    /\ pack.items # {}
    /\ \A item \in pack.items : item.cites # {}
    /\ pack.payment = case.payment
    /\ pack.action = case.action
    /\ \A item \in pack.items : item.cites \subseteq FactIds(case.facts)

IsSafeCase(case) == \A f \in case.facts : f.text \notin UnsafeTexts

(* a bug: any operational fact of the case supports any STRONG item        *)
SupportedByTheCase(item, case) ==
    /\ item.claims \subseteq item.cites
    /\ item.words # {} => item.words \cap item.cites # {}
    /\ item.strength = "STRONG" =>
          \E f \in case.facts : f.source \in OperationalSources

IsSupported(item, case) ==
    /\ item.claims \subseteq item.cites
    /\ item.words # {} => item.words \cap item.cites # {}
    /\ item.strength = "STRONG" =>
          \E f \in case.facts : f.id \in item.cites /\ f.source \in OperationalSources

PassesGuardrails(pack, case) ==
    /\ MeetsContract(pack, case)
    /\ IsSafeCase(case)
    /\ ~pack.summary.accuses
    /\ pack.summary.claims \subseteq FactIds(case.facts)
    /\ pack.message # "CLAIMS_EXECUTION"
    /\ \A item \in pack.items : IsSupported(item, case)
    /\ pack.disclosed

-----------------------------------------------------------------------------
(* The red team's scenarios, on any sound pack of any case.                *)

WithItem(pack, item) == [pack EXCEPT !.items = {item}]

TamperedPacks(pack) ==
    LET model == "MODEL_CALIBRATED_PROBABILITY"
    IN  {[pack EXCEPT !.action = a] : a \in DOMAIN ACTION_PRIORITY \ {pack.action}}
        \cup {WithItem(pack, [item EXCEPT !.cites = {"INVENTED"}]) : item \in pack.items}
        \cup {WithItem(pack, [item EXCEPT !.claims = {"INVENTED"}]) : item \in pack.items}
        \cup {WithItem(pack, [cites |-> {model}, claims |-> {model},
                              words |-> {model}, strength |-> "STRONG"]),
              [pack EXCEPT !.summary.accuses = TRUE],
              [pack EXCEPT !.message = "CLAIMS_EXECUTION"],
              [pack EXCEPT !.disclosed = FALSE]}

PoisonedCases(case) ==
    {[case EXCEPT !.facts =
        @ \cup {[Fact("NOTE", "ORDER", TRUE, case.as_of) EXCEPT !.text = unsafe]}]
        : unsafe \in UnsafeTexts}
=============================================================================
