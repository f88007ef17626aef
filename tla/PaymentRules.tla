----------------------------- MODULE PaymentRules -----------------------------
(***************************************************************************)
(* The deterministic rules, as operators: those over what is known when a  *)
(* payment is captured (src/src/rules.py) and those over its shipment and  *)
(* refund as of a later time (src/src/post_payment_rules.py).              *)
(*                                                                         *)
(* Times are positive numbers; Never stands for an absent timestamp.       *)
(***************************************************************************)
EXTENDS Integers, FiniteSets, SequencesExt

CONSTANTS
    HourSpike,          \* payments within an hour that make a velocity spike
    DaySpike,           \* payments within a day that make one
    AmountSpike,        \* rupees within a day that make one
    RepeatDisputes,     \* earlier disputes that make a history
    HighValue,          \* rupees that are much for a new account
    NewAccount,         \* days of age that make an account new
    Unclear,            \* percent of clarity below which a descriptor is unclear
    FarAway             \* kilometres from billing to shipping that are many

Never == 0

ACTION_PRIORITY == [MONITOR |-> 0, PREPARE_EVIDENCE |-> 1,
                    MANUAL_REVIEW |-> 2, RECOMMEND_REFUND |-> 3]

Rule(action, hard) == [action |-> action, hard |-> hard]

(* What each capture-time rule recommends, and which ones override.        *)
CaptureRules ==
    [MERCHANT_DUPLICATE_PAYMENT |-> Rule("RECOMMEND_REFUND", TRUE),
     MERCHANT_CANCELLED_SUBSCRIPTION |-> Rule("RECOMMEND_REFUND", TRUE),
     AUTHENTICATION_GAP |-> Rule("MANUAL_REVIEW", FALSE),
     DEVICE_NETWORK_ANOMALY |-> Rule("MANUAL_REVIEW", FALSE),
     PAYMENT_VELOCITY_SPIKE |-> Rule("MANUAL_REVIEW", FALSE),
     REPEAT_DISPUTE_HISTORY |-> Rule("PREPARE_EVIDENCE", FALSE),
     UNCLEAR_BILLING_DESCRIPTOR |-> Rule("PREPARE_EVIDENCE", FALSE),
     NEW_ACCOUNT_HIGH_VALUE |-> Rule("MANUAL_REVIEW", FALSE),
     DEVICE_DISTANCE_ANOMALY |-> Rule("MANUAL_REVIEW", FALSE)]

(* x is the payment as it is scored: what was captured of it, and the      *)
(* features of its customer's history.                                     *)
MerchantErrors(x) ==
    (IF x.is_duplicate_payment THEN {"MERCHANT_DUPLICATE_PAYMENT"} ELSE {})
        \cup (IF x.cancelled_subscription_billed
              THEN {"MERCHANT_CANCELLED_SUBSCRIPTION"} ELSE {})

(* What the rule reads as failed. A payment's cvv_result is "match",       *)
(* "no_match" or "not_provided", and none of them is in the first set.     *)
FailedCvv == {"fail", "failed", "mismatch", "not_match"}
FailedThreeds == {"fail", "failed", "not_authenticated", "authentication_failed"}

AuthenticationGap(x) ==
    IF \/ x.cvv_result \in FailedCvv
       \/ x.threeds_status \in FailedThreeds /\ ~x.threeds_liability_shift
    THEN {"AUTHENTICATION_GAP"} ELSE {}

DeviceAnomalies(x) ==
    (IF x.device_is_new /\ (~x.ip_country_matches_billing \/ x.ip_is_proxy_or_vpn)
     THEN {"DEVICE_NETWORK_ANOMALY"} ELSE {})
        \cup (IF x.device_is_new /\ x.billing_shipping_distance_km >= FarAway
              THEN {"DEVICE_DISTANCE_ANOMALY"} ELSE {})

VelocitySpike(x) ==
    IF \/ x.txns_last_1h >= HourSpike
       \/ x.txns_last_24h >= DaySpike
       \/ x.amount_last_24h >= AmountSpike
    THEN {"PAYMENT_VELOCITY_SPIKE"} ELSE {}

DisputeHistory(x) ==
    IF x.prior_disputes_count >= RepeatDisputes THEN {"REPEAT_DISPUTE_HISTORY"} ELSE {}

AccountSigns(x) ==
    (IF x.descriptor_clarity_score < Unclear
     THEN {"UNCLEAR_BILLING_DESCRIPTOR"} ELSE {})
        \cup (IF x.account_age_days <= NewAccount /\ x.amount >= HighValue
              THEN {"NEW_ACCOUNT_HIGH_VALUE"} ELSE {})

CaptureHits(x) ==
    MerchantErrors(x) \cup AuthenticationGap(x) \cup DeviceAnomalies(x)
        \cup VelocitySpike(x) \cup DisputeHistory(x) \cup AccountSigns(x)

(* highest_action over the hits that override; "" if there is none.        *)
HighestAction(actions) ==
    IF actions = {} THEN ""
    ELSE CHOOSE a \in actions :
            \A b \in actions : ACTION_PRIORITY[a] >= ACTION_PRIORITY[b]

CaptureOverride(hits) ==
    HighestAction({CaptureRules[h].action : h \in {g \in hits : CaptureRules[g].hard}})

-----------------------------------------------------------------------------
(* Rules over an operation o as of time t: the stored outcome of a later   *)
(* event does not count before it happened.                                *)

Visible(time, t) == IF time # Never /\ time <= t THEN time ELSE Never

LateOrMissing(time, deadline) == time = Never \/ time > deadline

(* a bug: a late delivery withdraws the alarm                              *)
BreachedUntilDelivered(o, t) ==
    /\ o.expected
    /\ o.promised # Never
    /\ t > o.promised
    /\ Visible(o.delivered, t) = Never

ShipmentBreached(o, t) ==
    /\ o.expected
    /\ o.promised # Never
    /\ t > o.promised
    /\ LateOrMissing(Visible(o.delivered, t), o.promised)

RefundBreached(o, t) ==
    /\ Visible(o.requested, t) # Never
    /\ o.promisedBy # Never
    /\ t > o.promisedBy
    /\ LateOrMissing(Visible(o.processed, t), o.promisedBy)

LifecycleHits(o, t) ==
    (IF ShipmentBreached(o, t) THEN {"SHIPMENT_SLA_BREACHED"} ELSE {})
        \cup (IF RefundBreached(o, t) THEN {"REFUND_NOT_PROCESSED"} ELSE {})

LifecycleOverride(hits) ==
    IF "REFUND_NOT_PROCESSED" \in hits THEN "RECOMMEND_REFUND" ELSE ""

(* The override of the lifecycle wins over the one at capture, and both    *)
(* over the cost policy.                                                   *)
OrElse(a, b) == IF a # "" THEN a ELSE b
DeterministicAction(lifecycle, capture, policy) ==
    OrElse(LifecycleOverride(lifecycle), OrElse(CaptureOverride(capture), policy))
=============================================================================
