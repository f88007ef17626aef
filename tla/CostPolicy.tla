------------------------------ MODULE CostPolicy ------------------------------
(***************************************************************************)
(* The cost policy (src/src/decide.py) and the parameter sweeps built on   *)
(* it (policy_lab.py, effectiveness_sensitivity.py), as operators.         *)
(*                                                                         *)
(* The code computes in floating point; here a probability is a number of  *)
(* tenths and a rate a number of percent, so that every cost is an exact   *)
(* integer: one rupee is Unit.                                             *)
(***************************************************************************)
EXTENDS Integers, Sequences, FiniteSets

Tenths == 10
Percent == 100
Unit == Tenths * Percent * Percent

ActionOrder == <<"MONITOR", "PREPARE_EVIDENCE", "MANUAL_REVIEW", "RECOMMEND_REFUND">>

CostParams ==
    [chargeback_fee |-> 1500, gross_margin_rate |-> 35, evidence_cost |-> 40,
     manual_review_cost |-> 150, customer_friction_rate |-> 8,
     evidence_recovery_rate |-> 45, review_prevention_rate |-> 65,
     refund_cost_rate |-> 35, risk_program_penalty |-> 800]

Loss(amount, c) == amount + c.chargeback_fee + c.risk_program_penalty

-----------------------------------------------------------------------------
(* What an action costs once it is known whether the chargeback came.      *)

ResidualLoss(action, label, amount, c) ==
    CASE label = 0 \/ action = "RECOMMEND_REFUND" -> 0
      [] label = 1 /\ action = "MONITOR" -> Loss(amount, c) * Percent
      [] label = 1 /\ action = "PREPARE_EVIDENCE" ->
            Loss(amount, c) * Percent - c.evidence_recovery_rate * amount
      [] label = 1 /\ action = "MANUAL_REVIEW" ->
            (Percent - c.review_prevention_rate) * Loss(amount, c)

InterventionCost(action, label, amount, c) ==
    CASE action = "MONITOR" -> 0
      [] action = "PREPARE_EVIDENCE" -> c.evidence_cost * Percent * Percent
      [] action = "MANUAL_REVIEW" ->
            c.manual_review_cost * Percent * Percent
              + (1 - label) * c.customer_friction_rate * c.gross_margin_rate * amount
      [] action = "RECOMMEND_REFUND" -> amount * c.refund_cost_rate * Percent

RealisedCost(action, label, amount, c) ==
    ResidualLoss(action, label, amount, c) * Percent
        + InterventionCost(action, label, amount, c)

-----------------------------------------------------------------------------
(* What the policy expects an action to cost, in formulas of its own.      *)

(* a bug: the friction of a review is charged to every customer, also to   *)
(* those whose payment ends in a chargeback                                *)
ReviewCostForAll(p, amount, c) ==
    c.manual_review_cost * Unit
        + p * (Percent - c.review_prevention_rate) * Loss(amount, c) * Percent
        + Tenths * c.customer_friction_rate * c.gross_margin_rate * amount

ManualReviewCost(p, amount, c) ==
    c.manual_review_cost * Unit
        + p * (Percent - c.review_prevention_rate) * Loss(amount, c) * Percent
        + (Tenths - p) * c.customer_friction_rate * c.gross_margin_rate * amount

ExpectedCosts(p, amount, c) ==
    [MONITOR |-> p * Loss(amount, c) * Percent * Percent,
     PREPARE_EVIDENCE |->
        c.evidence_cost * Unit
            + p * (Loss(amount, c) * Percent - c.evidence_recovery_rate * amount) * Percent,
     MANUAL_REVIEW |-> ManualReviewCost(p, amount, c),
     RECOMMEND_REFUND |-> amount * c.refund_cost_rate * Tenths * Percent]

(* argmin takes the first of equals, in the order of ActionOrder.              *)
Cheapest(costs) ==
    ActionOrder[CHOOSE i \in 1 .. 4 :
        /\ \A j \in 1 .. 4 : costs[ActionOrder[i]] <= costs[ActionOrder[j]]
        /\ \A j \in 1 .. i - 1 : costs[ActionOrder[i]] < costs[ActionOrder[j]]]

PolicyAction(p, amount, c) == Cheapest(ExpectedCosts(p, amount, c))

-----------------------------------------------------------------------------
(* The sweeps: the same policy under other assumptions.                    *)

AtLeast(x, low) == IF x < low THEN low ELSE x
AtMost(x, high) == IF x > high THEN high ELSE x

LowScenario(c) ==
    [c EXCEPT !.evidence_recovery_rate = AtLeast(@ - 20, 0),
              !.review_prevention_rate = AtLeast(@ - 20, 0)]
HighScenario(c) ==
    [c EXCEPT !.evidence_recovery_rate = AtMost(@ + 20, Percent),
              !.review_prevention_rate = AtMost(@ + 15, Percent)]
EffectivenessScenarios(c) == <<LowScenario(c), c, HighScenario(c)>>

ReviewCostGrid == <<0, 50, 100, 150, 250, 400, 600, 1000>>
FrontierScenarios(c) ==
    [i \in DOMAIN ReviewCostGrid |->
        [c EXCEPT !.manual_review_cost = ReviewCostGrid[i]]]

(* What the chosen action costs on average, over the two outcomes.         *)
MeanCost(action, p, amount, c) ==
    p * RealisedCost(action, 1, amount, c)
        + (Tenths - p) * RealisedCost(action, 0, amount, c)

PolicyCost(p, amount, c) == MeanCost(PolicyAction(p, amount, c), p, amount, c)
=============================================================================
