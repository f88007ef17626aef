--------------------------- MODULE PaymentDecisions ---------------------------
(***************************************************************************)
(* The decisions on a merchant's payments: features of a customer's        *)
(* history (src/src/features.py), score and cost policy (risk_scoring.py,  *)
(* decide.py), rules (PaymentRules), case and pack (EvidencePack).         *)
(*                                                                         *)
(* The program computes them from a table of payments, disputes and        *)
(* operations, for any time "as of", long after the events. Here the table *)
(* grows event by event, as its synthetic data (generate.py, outcomes.py,  *)
(* operations.py) or a real merchant would fill it, so that what was       *)
(* decided can be compared with what the longer table makes of it later.   *)
(***************************************************************************)
EXTENDS EvidencePack

CONSTANTS
    Customers,
    Profiles,           \* what a payment carries at its capture, and its
                        \* calibrated probability, in tenths (records)
    Hour, Day, Week,    \* lengths of the three velocity windows
    Promises,           \* delays a shipment or a refund is promised within
    MaxPayments,        \* bound: payments in the table
    MaxEvents,          \* bound: disputes and events of operations
    Horizon             \* bound: the clock

ASSUME DecisionAssumption ==
    /\ Hour \in Nat /\ Day \in Nat /\ Week \in Nat
    /\ Hour <= Day /\ Day <= Week
    /\ MaxPayments \in Nat /\ MaxEvents \in Nat /\ Horizon \in Nat
    /\ \A d \in Promises : d \in Nat \ {0}
    /\ \A x \in Profiles :
          /\ {"probability", "amount"} \subseteq DOMAIN x
          /\ x.probability \in 0 .. Tenths
          /\ x.amount \in Nat

VARIABLES
    now,
    payments,           \* the table, by time of capture
    disputes,           \* payment |-> time of its dispute, Never if there is none
    operations          \* payment |-> its shipment and its refund

vars == <<now, payments, disputes, operations>>

(* Two rows as one: f @@ g, by its definition.                             *)
Joined(f, g) ==
    [k \in DOMAIN f \cup DOMAIN g |-> IF k \in DOMAIN f THEN f[k] ELSE g[k]]

-----------------------------------------------------------------------------
(* Features: what was known of the customer when payment i was captured.   *)

Earlier(i) == {j \in 1 .. i - 1 : payments[j].customer = payments[i].customer}

Within(i, span) ==
    {j \in Earlier(i) : payments[i].created_at - payments[j].created_at <= span}

(* a bug: disputes of earlier payments count, whenever they were opened    *)
DisputesOfEarlier(i) == {j \in Earlier(i) : disputes[j] # Never}

PriorDisputes(i) ==
    {j \in DOMAIN payments :
        /\ payments[j].customer = payments[i].customer
        /\ disputes[j] # Never
        /\ disputes[j] < payments[i].created_at}

Features(i) ==
    [total_prior_orders |-> Cardinality(Earlier(i)),
     txns_last_1h |-> Cardinality(Within(i, Hour)),
     txns_last_24h |-> Cardinality(Within(i, Day)),
     txns_last_7d |-> Cardinality(Within(i, Week)),
     amount_last_24h |-> SumFunction([j \in Within(i, Day) |-> payments[j].amount]),
     prior_disputes_count |-> Cardinality(PriorDisputes(i))]

Row(i) == Joined(payments[i], Features(i))

-----------------------------------------------------------------------------
(* What the program answers of payment i: its score, and its case as of t. *)

Policy(i) == PolicyAction(payments[i].probability, payments[i].amount, CostParams)

ScoreAction(i) == OrElse(CaptureOverride(CaptureHits(Row(i))), Policy(i))

RequiresApproval(action) == action \in {"MANUAL_REVIEW", "RECOMMEND_REFUND"}

Case(i, t) == BuildEvidenceCase(i, Row(i), Policy(i), operations[i], t)

(* The times a case can be asked for; at "now" more can still happen.      *)
AsOf(i) == payments[i].created_at .. now

-----------------------------------------------------------------------------
(* The events that fill the table.                                         *)

EventsOf(o) == Cardinality({k \in {"delivered", "requested", "processed"} : o[k] # Never})
Events ==
    MapThenSumSet(LAMBDA i : EventsOf(operations[i]), DOMAIN operations)
        + Cardinality({i \in DOMAIN disputes : disputes[i] # Never})

Shipment(promised) ==
    [expected |-> promised # Never, promised |-> promised, delivered |-> Never,
     requested |-> Never, promisedBy |-> Never, processed |-> Never]

Init ==
    /\ now = 1
    /\ payments = <<>>
    /\ disputes = <<>>
    /\ operations = <<>>

(* Two payments of one customer do not share an instant: their order in    *)
(* the table, and with it their features, would be the sort's choice.      *)
Capture(c, x) ==
    /\ Len(payments) < MaxPayments
    /\ \A i \in DOMAIN payments :
          payments[i].customer = c => payments[i].created_at < now
    /\ payments' = Append(payments, Joined([customer |-> c, created_at |-> now], x))
    /\ disputes' = Append(disputes, Never)
    /\ \E d \in Promises : operations' = Append(operations,
          Shipment(IF x.is_digital_good THEN Never ELSE now + d))
    /\ UNCHANGED now

Dispute(i) ==
    /\ Events < MaxEvents
    /\ disputes[i] = Never
    /\ payments[i].created_at < now
    /\ disputes' = [disputes EXCEPT ![i] = now]
    /\ UNCHANGED <<now, payments, operations>>

Deliver(i) ==
    /\ Events < MaxEvents
    /\ operations[i].expected
    /\ operations[i].delivered = Never
    /\ operations' = [operations EXCEPT ![i].delivered = now]
    /\ UNCHANGED <<now, payments, disputes>>

RequestRefund(i) ==
    /\ Events < MaxEvents
    /\ operations[i].requested = Never
    /\ payments[i].created_at < now
    /\ \E d \in Promises :
          operations' = [operations EXCEPT ![i].requested = now,
                                           ![i].promisedBy = now + d]
    /\ UNCHANGED <<now, payments, disputes>>

ProcessRefund(i) ==
    /\ Events < MaxEvents
    /\ operations[i].requested # Never
    /\ operations[i].processed = Never
    /\ operations' = [operations EXCEPT ![i].processed = now]
    /\ UNCHANGED <<now, payments, disputes>>

Tick ==
    /\ now < Horizon
    /\ now' = now + 1
    /\ UNCHANGED <<payments, disputes, operations>>

Next ==
    \/ \E c \in Customers, x \in Profiles : Capture(c, x)
    \/ \E i \in DOMAIN payments :
          Dispute(i) \/ Deliver(i) \/ RequestRefund(i) \/ ProcessRefund(i)
    \/ Tick

Spec == Init /\ [][Next]_vars

-----------------------------------------------------------------------------
(* Properties.                                                             *)

(* No later event changes what the program answers of the past: the        *)
(* features of a payment, the action its score recommends and its case as  *)
(* of any time gone by are the same in the longer table. This is what      *)
(* makes the held-out evaluation and the as-of views honest (features.py,  *)
(* post_payment_rules.py, evidence_facts.py).                              *)
HindsightChangesNothing ==
    [][\A i \in DOMAIN payments :
          /\ Features(i)' = Features(i)
          /\ \A t \in AsOf(i) : t < now => Case(i, t)' = Case(i, t)]_vars

(* A case is one the contract accepts, with no two facts of one id;        *)
(* whatever it is, the fallback pack passes the checks that guard the      *)
(* packs, every tampering of the red team with it is refused, every        *)
(* poisoned case too, and no fact was observed after the time the case is  *)
(* about (evidence_fallback.py, evidence_guardrails.py,                    *)
(* evidence_redteam.py).                                                   *)
PacksAreGuarded ==
    \A i \in DOMAIN payments : \A t \in AsOf(i) :
        LET case == Case(i, t)
            pack == FallbackPack(case)
        IN  /\ IsCase(case)
            /\ PassesGuardrails(pack, case)
            /\ \A tampered \in TamperedPacks(pack) : ~PassesGuardrails(tampered, case)
            /\ \A poisoned \in PoisonedCases(case) : ~IsSafeCase(poisoned)
            /\ \A f \in case.facts : f.at <= t

(* An alarm once raised stays raised: what breaks a promise as of one time *)
(* breaks it as of every later time, and the recommendation leaves the one *)
(* of the score only for the refund a broken promise of a refund calls     *)
(* for, which a person must approve (post_payment_rules.py,                *)
(* evidence_facts.py).                                                     *)
AlarmsStay ==
    \A i \in DOMAIN payments : \A t \in AsOf(i) :
        /\ \A u \in t .. now :
              LifecycleHits(operations[i], t) \subseteq LifecycleHits(operations[i], u)
        /\ Case(i, t).action # ScoreAction(i) =>
              /\ Case(i, t).action = "RECOMMEND_REFUND"
              /\ RequiresApproval(Case(i, t).action)
              /\ \A u \in t .. now : Case(i, u).action = "RECOMMEND_REFUND"

(* The policy minimises the cost that is realised, not a formula of its    *)
(* own: under every scenario of the sweeps no other action costs less on   *)
(* average over the two outcomes; a dearer review is chosen no more often  *)
(* than a cheaper one, and better prevention never costs the policy more   *)
(* (decide.py, policy_lab.py, effectiveness_sensitivity.py).               *)
ActionIsCheapest ==
    \A i \in DOMAIN payments :
        LET p == payments[i].probability
            amount == payments[i].amount
            frontier == FrontierScenarios(CostParams)
            effects == EffectivenessScenarios(CostParams)
            Chosen(c) == PolicyAction(p, amount, c)
        IN  /\ \A c \in Range(frontier) \cup Range(effects) :
                  \A a \in Range(ActionOrder) :
                      PolicyCost(p, amount, c) <= MeanCost(a, p, amount, c)
            /\ \A k \in 1 .. Len(frontier) - 1 :
                  Chosen(frontier[k + 1]) = "MANUAL_REVIEW"
                      => Chosen(frontier[k]) = "MANUAL_REVIEW"
            /\ \A k \in 1 .. 2 :
                  PolicyCost(p, amount, effects[k + 1]) <= PolicyCost(p, amount, effects[k])
=============================================================================
