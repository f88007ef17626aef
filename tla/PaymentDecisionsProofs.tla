------------------------ MODULE PaymentDecisionsProofs ------------------------
(***************************************************************************)
(* Proofs about PaymentDecisions: that hindsight changes no answer of the  *)
(* past, that alarms stay, that the policy's action is the cheapest, and   *)
(* that the guards of evidence packs refuse what they must and no more.    *)
(*                                                                         *)
(* The first two need of the state only that no payment is from the        *)
(* future, and of a step only that it adds to the table nothing older than *)
(* its own time ("Grows"). The third is arithmetic: the policy's formulas  *)
(* are the mean of what is realised, and an argmin follows its arguments.  *)
(* The fourth is about a case's facts, group by group.                     *)
(***************************************************************************)
EXTENDS PaymentDecisions, TLAPS, WellFoundedInduction, FiniteSetTheorems

-----------------------------------------------------------------------------
(* The table.                                                              *)

(* A row: what a profile says of a payment, its customer and its time.     *)
Captured ==
    {Joined([customer |-> c, created_at |-> n], x) :
        c \in Customers, n \in Nat, x \in Profiles}

Operation ==
    [expected : BOOLEAN, promised : Nat, delivered : Nat,
     requested : Nat, promisedBy : Nat, processed : Nat]

(* Four columns of equal length, and no payment from the future.           *)
TablesFit ==
    /\ now \in Nat \ {0}
    /\ payments \in Seq(Captured)
    /\ disputes \in Seq(Nat) /\ Len(disputes) = Len(payments)
    /\ operations \in Seq(Operation) /\ Len(operations) = Len(payments)

NothingAhead == \A i \in DOMAIN payments : payments[i].created_at \in 1 .. now

DecisionsInv == TablesFit /\ NothingAhead

\* A row has its customer and time, and every other column of its profile.
LEMMA RowIs ==
    ASSUME NEW c, NEW n, NEW x
    PROVE  /\ Joined([customer |-> c, created_at |-> n], x).customer = c
           /\ Joined([customer |-> c, created_at |-> n], x).created_at = n
           /\ \A f \in DOMAIN x \ {"customer", "created_at"} :
                 Joined([customer |-> c, created_at |-> n], x)[f] = x[f]
BY DEF Joined

\* The columns the policy computes with are numbers.
LEMMA CapturedFit ==
    ASSUME NEW row \in Captured
    PROVE  /\ row.created_at \in Nat
           /\ row.probability \in 0 .. Tenths
           /\ row.amount \in Nat
<1>1. PICK c \in Customers, n \in Nat, x \in Profiles :
        row = Joined([customer |-> c, created_at |-> n], x)
  BY DEF Captured
<1>2. /\ "probability" \in DOMAIN x \ {"customer", "created_at"}
      /\ "amount" \in DOMAIN x \ {"customer", "created_at"}
      /\ x.probability \in 0 .. Tenths /\ x.amount \in Nat
  BY DecisionAssumption
<1> QED BY <1>1, <1>2, RowIs

\* Every payment has an operation.
LEMMA OperationsFit ==
    ASSUME DecisionsInv
    PROVE  \A i \in DOMAIN payments : i \in DOMAIN operations /\ operations[i] \in Operation
BY DEF DecisionsInv, TablesFit

\* The empty table fits.
LEMMA InitStep == Init => DecisionsInv
BY DEF Init, DecisionsInv, TablesFit, NothingAhead

-----------------------------------------------------------------------------
(* How the table grows.                                                    *)

(* What an operation looks like as of t is not changed by what comes later. *)
SameUpTo(o, later, t) ==
    /\ later.expected = o.expected /\ later.promised = o.promised
    /\ Visible(later.delivered, t) = Visible(o.delivered, t)
    /\ Visible(later.requested, t) = Visible(o.requested, t)
    /\ Visible(o.requested, t) # Never => later.promisedBy = o.promisedBy
    /\ Visible(later.processed, t) = Visible(o.processed, t)

(* A step adds payments without a dispute, and of the payments that were   *)
(* there only what happens at this very moment.                            *)
Grows ==
    /\ Len(payments) <= Len(payments')
    /\ \A i \in 1 .. Len(payments) :
          /\ payments'[i] = payments[i]
          /\ disputes'[i] # disputes[i] => disputes[i] = Never /\ disputes'[i] = now
          /\ \A t \in Nat : t < now => SameUpTo(operations[i], operations'[i], t)
    /\ \A i \in 1 .. Len(payments') : i > Len(payments) => disputes'[i] = Never

\* Nothing happened to an operation that is the same.
LEMMA SameItself == \A o, t : SameUpTo(o, o, t)
BY DEF SameUpTo

\* Capturing a payment adds a row and leaves the others.
LEMMA CaptureStep ==
    ASSUME DecisionsInv, NEW c \in Customers, NEW x \in Profiles, Capture(c, x)
    PROVE  DecisionsInv' /\ Grows
<1> DEFINE row == Joined([customer |-> c, created_at |-> now], x)
<1>1. row \in Captured /\ row.created_at = now
  BY RowIs DEF Captured, DecisionsInv, TablesFit
<1>2. PICK d \in Promises :
        operations' = Append(operations,
            Shipment(IF x.is_digital_good THEN Never ELSE now + d))
  BY DEF Capture
<1>4. Shipment(IF x.is_digital_good THEN Never ELSE now + d) \in Operation
  BY DecisionAssumption DEF Shipment, Operation, Never, DecisionsInv, TablesFit
<1>5. payments' = Append(payments, row) /\ disputes' = Append(disputes, Never) /\ now' = now
  BY DEF Capture
<1> HIDE DEF row
<1>6. TablesFit'
  BY <1>1, <1>2, <1>4, <1>5 DEF DecisionsInv, TablesFit, Never
<1>7. NothingAhead'
  BY <1>1, <1>5 DEF DecisionsInv, TablesFit, NothingAhead
<1>8. Grows
  BY <1>2, <1>5, SameItself DEF DecisionsInv, TablesFit, Grows, Never
<1> QED BY <1>6, <1>7, <1>8 DEF DecisionsInv

\* A dispute is opened now.
LEMMA DisputeStep ==
    ASSUME DecisionsInv, NEW i \in DOMAIN payments, Dispute(i)
    PROVE  DecisionsInv' /\ Grows
<1>1. /\ disputes[i] = Never /\ disputes' = [disputes EXCEPT ![i] = now]
      /\ payments' = payments /\ operations' = operations /\ now' = now
  BY DEF Dispute
<1>2. TablesFit'
  BY <1>1 DEF DecisionsInv, TablesFit
<1>3. NothingAhead'
  BY <1>1 DEF DecisionsInv, TablesFit, NothingAhead
<1>4. Grows
  BY <1>1, SameItself DEF DecisionsInv, TablesFit, Grows
<1> QED BY <1>2, <1>3, <1>4 DEF DecisionsInv

\* A step of one operation, whatever it is, leaves the table as it was up to now.
LEMMA OperationStep ==
    ASSUME DecisionsInv, NEW i \in DOMAIN payments, NEW o \in Operation,
           operations' = [operations EXCEPT ![i] = o],
           UNCHANGED <<now, payments, disputes>>,
           \A t \in Nat : t < now => SameUpTo(operations[i], o, t)
    PROVE  DecisionsInv' /\ Grows
<1>1. TablesFit'
  BY DEF DecisionsInv, TablesFit
<1>2. NothingAhead'
  BY DEF DecisionsInv, NothingAhead
<1>3. Grows
  BY SameItself DEF DecisionsInv, TablesFit, Grows
<1> QED BY <1>1, <1>2, <1>3 DEF DecisionsInv

\* A delivery happens now.
LEMMA DeliverStep ==
    ASSUME DecisionsInv, NEW i \in DOMAIN payments, Deliver(i)
    PROVE  DecisionsInv' /\ Grows
<1> DEFINE o == [operations[i] EXCEPT !.delivered = now]
<1>1. operations' = [operations EXCEPT ![i] = o] /\ UNCHANGED <<now, payments, disputes>>
  BY DEF Deliver
<1>2. o \in Operation
  BY OperationsFit DEF Operation, DecisionsInv, TablesFit
<1>3. /\ operations[i].delivered = Never /\ o.delivered = now /\ now \in Nat
      /\ \A f \in {"expected", "promised", "requested", "promisedBy", "processed"} :
            o[f] = operations[i][f]
  BY OperationsFit DEF Deliver, Operation, DecisionsInv, TablesFit
<1> HIDE DEF o
<1>4. \A t \in Nat : t < now => SameUpTo(operations[i], o, t)
  BY <1>3 DEF SameUpTo, Visible, Never
<1> QED BY <1>1, <1>2, <1>4, OperationStep

\* A refund is requested, and promised, now.
LEMMA RequestRefundStep ==
    ASSUME DecisionsInv, NEW i \in DOMAIN payments, RequestRefund(i)
    PROVE  DecisionsInv' /\ Grows
<1>1. PICK d \in Promises :
        operations' = [operations EXCEPT ![i].requested = now, ![i].promisedBy = now + d]
  BY DEF RequestRefund
<1> DEFINE o == [operations[i] EXCEPT !.requested = now, !.promisedBy = now + d]
<1>2. operations' = [operations EXCEPT ![i] = o] /\ UNCHANGED <<now, payments, disputes>>
  BY <1>1, OperationsFit DEF RequestRefund
<1>3. o \in Operation
  <2>1. now \in Nat /\ now + d \in Nat /\ operations[i] \in Operation
    BY OperationsFit, DecisionAssumption DEF DecisionsInv, TablesFit
  <2>2. [operations[i] EXCEPT !.requested = now] \in Operation
    BY <2>1 DEF Operation
  <2>3. \A q \in Operation, n \in Nat : [q EXCEPT !.promisedBy = n] \in Operation
    BY DEF Operation
  <2> QED BY <2>1, <2>2, <2>3
<1>4. /\ operations[i].requested = Never /\ o.requested = now /\ now \in Nat
      /\ o.expected = operations[i].expected /\ o.promised = operations[i].promised
      /\ o.delivered = operations[i].delivered /\ o.processed = operations[i].processed
  BY OperationsFit DEF RequestRefund, Operation, DecisionsInv, TablesFit
<1> HIDE DEF o
<1>5. \A t \in Nat : t < now => SameUpTo(operations[i], o, t)
  BY <1>4 DEF SameUpTo, Visible, Never
<1> QED BY <1>2, <1>3, <1>5, OperationStep

\* A refund is processed now.
LEMMA ProcessRefundStep ==
    ASSUME DecisionsInv, NEW i \in DOMAIN payments, ProcessRefund(i)
    PROVE  DecisionsInv' /\ Grows
<1> DEFINE o == [operations[i] EXCEPT !.processed = now]
<1>1. operations' = [operations EXCEPT ![i] = o] /\ UNCHANGED <<now, payments, disputes>>
  BY DEF ProcessRefund
<1>2. o \in Operation
  BY OperationsFit DEF Operation, DecisionsInv, TablesFit
<1>3. /\ operations[i].processed = Never /\ o.processed = now /\ now \in Nat
      /\ \A f \in {"expected", "promised", "delivered", "requested", "promisedBy"} :
            o[f] = operations[i][f]
  BY OperationsFit DEF ProcessRefund, Operation, DecisionsInv, TablesFit
<1> HIDE DEF o
<1>4. \A t \in Nat : t < now => SameUpTo(operations[i], o, t)
  BY <1>3 DEF SameUpTo, Visible, Never
<1> QED BY <1>1, <1>2, <1>4, OperationStep

\* Time passes, or nothing happens.
LEMMA TickStep ==
    ASSUME DecisionsInv, Tick \/ UNCHANGED vars
    PROVE  DecisionsInv' /\ Grows
<1>1. UNCHANGED <<payments, disputes, operations>> /\ now' \in {now, now + 1}
  BY DEF Tick, vars
<1>2. DecisionsInv'
  BY <1>1 DEF DecisionsInv, TablesFit, NothingAhead
<1>3. Grows
  BY <1>1, SameItself DEF DecisionsInv, TablesFit, Grows
<1> QED BY <1>2, <1>3

\* Every step keeps the table fitting and adds to it at its end only.
LEMMA NextStep ==
    ASSUME DecisionsInv, [Next]_vars
    PROVE  DecisionsInv' /\ Grows
BY CaptureStep, DisputeStep, DeliverStep, RequestRefundStep, ProcessRefundStep, TickStep
   DEF Next

\* In every state the columns have their types and equal lengths, and no payment
\* is from the future.
THEOREM Inductive == Spec => []DecisionsInv
BY InitStep, NextStep, PTL DEF Spec

-----------------------------------------------------------------------------
(* Hindsight.                                                              *)

\* The rules over an operation look at what was visible.
LEMMA SameHits ==
    ASSUME NEW o, NEW later, NEW t, SameUpTo(o, later, t)
    PROVE  LifecycleHits(later, t) = LifecycleHits(o, t)
BY DEF SameUpTo, LifecycleHits, ShipmentBreached, RefundBreached

\* What is visible of an event is when it happened.
LEMMA VisibleIs == \A time, t : Visible(time, t) # Never => Visible(time, t) = time
BY DEF Visible

\* The facts of an operation are those that were visible.
LEMMA SameFacts ==
    ASSUME NEW x, NEW o, NEW later, NEW t, SameUpTo(o, later, t)
    PROVE  OperationFacts(x, later, t) = OperationFacts(x, o, t)
<1>1. FactIf(later.promised # Never,
             "SHIPMENT_PROMISED_AT", "SHIPMENT", later.promised, x.created_at)
        = FactIf(o.promised # Never,
             "SHIPMENT_PROMISED_AT", "SHIPMENT", o.promised, x.created_at)
  BY DEF SameUpTo
<1>2. FactIf(Visible(later.delivered, t) # Never,
             "SHIPMENT_DELIVERED_AT", "SHIPMENT", later.delivered, later.delivered)
        = FactIf(Visible(o.delivered, t) # Never,
             "SHIPMENT_DELIVERED_AT", "SHIPMENT", o.delivered, o.delivered)
  BY VisibleIs DEF SameUpTo, FactIf
<1>3. LET requested == Visible(o.requested, t) # Never
          requestedLater == Visible(later.requested, t) # Never
      IN  /\ FactIf(requestedLater,
                    "REFUND_REQUESTED_AT", "REFUND", later.requested, later.requested)
               = FactIf(requested, "REFUND_REQUESTED_AT", "REFUND", o.requested, o.requested)
          /\ FactIf(requestedLater /\ later.promisedBy # Never,
                    "REFUND_PROMISED_BY", "REFUND", later.promisedBy, later.requested)
               = FactIf(requested /\ o.promisedBy # Never,
                    "REFUND_PROMISED_BY", "REFUND", o.promisedBy, o.requested)
          /\ FactIf(requestedLater /\ Visible(later.processed, t) # Never,
                    "REFUND_PROCESSED_AT", "REFUND", later.processed, later.processed)
               = FactIf(requested /\ Visible(o.processed, t) # Never,
                    "REFUND_PROCESSED_AT", "REFUND", o.processed, o.processed)
  BY VisibleIs DEF SameUpTo, FactIf
<1>4. later.expected = o.expected
  BY DEF SameUpTo
<1> QED BY <1>1, <1>2, <1>3, <1>4, Zenon DEF OperationFacts

\* So a case is the same for operations that were the same up to its time.
LEMMA SameCase ==
    ASSUME NEW i, NEW x, NEW action, NEW o, NEW later, NEW t, SameUpTo(o, later, t)
    PROVE  BuildEvidenceCase(i, x, action, later, t) = BuildEvidenceCase(i, x, action, o, t)
BY SameHits, SameFacts, Zenon DEF BuildEvidenceCase

\* A payment's features look at earlier payments, and at disputes before it.
LEMMA FeaturesStay ==
    ASSUME DecisionsInv, Grows, NEW i \in DOMAIN payments
    PROVE  Features(i)' = Features(i)
<1>1. /\ i \in 1 .. Len(payments) /\ i \in 1 .. Len(payments')
      /\ \A j \in 1 .. i : j \in 1 .. Len(payments) /\ payments'[j] = payments[j]
  BY DEF DecisionsInv, TablesFit, Grows
<1>2. Earlier(i)' = Earlier(i)
  BY <1>1 DEF Earlier
<1>3. Earlier(i) \subseteq 1 .. i
  BY <1>1 DEF Earlier
<1>4. /\ Within(i, Hour)' = Within(i, Hour)
      /\ Within(i, Day)' = Within(i, Day)
      /\ Within(i, Week)' = Within(i, Week)
  BY <1>1, <1>2, <1>3 DEF Within
<1>5. [j \in Within(i, Day) |-> payments[j].amount]'
        = [j \in Within(i, Day) |-> payments[j].amount]
  BY <1>1, <1>3, <1>4 DEF Within
<1>6. PriorDisputes(i)' = PriorDisputes(i)
  <2>1. /\ DOMAIN payments = 1 .. Len(payments)
        /\ DOMAIN payments' = 1 .. Len(payments')
        /\ 1 .. Len(payments) \subseteq 1 .. Len(payments')
        /\ \A j \in 1 .. Len(payments') : j \notin 1 .. Len(payments) => disputes'[j] = Never
    BY DEF DecisionsInv, TablesFit, Grows
  <2>2. \A j \in 1 .. Len(payments) :
          disputes'[j] # disputes[j] => ~ (disputes'[j] < payments[i].created_at)
    BY <1>1, CapturedFit DEF DecisionsInv, TablesFit, NothingAhead, Grows
  <2>3. \A j \in 1 .. Len(payments) :
          disputes'[j] # disputes[j] => disputes[j] = Never
    BY DEF Grows
  <2> QED BY <1>1, <2>1, <2>2, <2>3 DEF PriorDisputes, Grows
<1> QED BY <1>2, <1>4, <1>5, <1>6 DEF Features

\* A case of the past stays what it was.
LEMMA CaseStays ==
    ASSUME DecisionsInv, Grows, NEW i \in DOMAIN payments, NEW t \in AsOf(i), t < now
    PROVE  Case(i, t)' = Case(i, t)
<1>1. payments'[i] = payments[i] /\ SameUpTo(operations[i], operations'[i], t)
  BY DEF DecisionsInv, TablesFit, NothingAhead, Grows, AsOf
<1>2. Row(i)' = Row(i)
  BY <1>1, FeaturesStay DEF Row
<1>3. Policy(i)' = Policy(i)
  BY <1>1 DEF Policy
<1> QED BY <1>1, <1>2, <1>3, SameCase DEF Case

\* No event changes the features of a payment that is there, the recommendation
\* on them, or its case as of a time gone by, for any table and any profiles.
THEOREM HindsightAlways == Spec => HindsightChangesNothing
<1>1. ASSUME DecisionsInv, [Next]_vars
      PROVE  [\A i \in DOMAIN payments :
                /\ Features(i)' = Features(i)
                /\ \A t \in AsOf(i) : t < now => Case(i, t)' = Case(i, t)]_vars
  BY <1>1, NextStep, FeaturesStay, CaseStays
<1> QED BY <1>1, Inductive, PTL DEF Spec, HindsightChangesNothing

-----------------------------------------------------------------------------
(* Alarms.                                                                 *)

\* A broken promise stays broken: a late event comes too late also when it is seen.
LEMMA AlarmsAreMonotone ==
    ASSUME NEW o \in Operation, NEW t \in Nat, NEW u \in Nat, t <= u
    PROVE  LifecycleHits(o, t) \subseteq LifecycleHits(o, u)
<1>1. ShipmentBreached(o, t) => ShipmentBreached(o, u)
  BY DEF Operation, ShipmentBreached, LateOrMissing, Visible, Never
<1>2. RefundBreached(o, t) => RefundBreached(o, u)
  BY DEF Operation, RefundBreached, LateOrMissing, Visible, Never
<1> QED BY <1>1, <1>2 DEF LifecycleHits

\* The action of a case is the score's unless a refund is overdue.
LEMMA ActionIs ==
    ASSUME NEW i, NEW t
    PROVE  Case(i, t).action
             = IF "REFUND_NOT_PROCESSED" \in LifecycleHits(operations[i], t)
               THEN "RECOMMEND_REFUND" ELSE ScoreAction(i)
BY DEF Case, BuildEvidenceCase, DeterministicAction, LifecycleOverride, OrElse, ScoreAction

\* Alarms stay in every table that fits.
LEMMA AlarmsHold == DecisionsInv => AlarmsStay
<1> SUFFICES ASSUME DecisionsInv, NEW i \in DOMAIN payments, NEW t \in AsOf(i)
             PROVE  /\ \A u \in t .. now :
                          LifecycleHits(operations[i], t)
                              \subseteq LifecycleHits(operations[i], u)
                    /\ Case(i, t).action # ScoreAction(i) =>
                          /\ Case(i, t).action = "RECOMMEND_REFUND"
                          /\ RequiresApproval(Case(i, t).action)
                          /\ \A u \in t .. now : Case(i, u).action = "RECOMMEND_REFUND"
  BY DEF AlarmsStay
<1>1. t \in Nat /\ now \in Nat /\ operations[i] \in Operation
  BY OperationsFit DEF DecisionsInv, TablesFit, NothingAhead, AsOf
<1>2. \A u \in t .. now :
        LifecycleHits(operations[i], t) \subseteq LifecycleHits(operations[i], u)
  BY <1>1, AlarmsAreMonotone
<1> QED BY <1>2, ActionIs DEF RequiresApproval

\* What breaks a promise as of a time breaks it as of every later one, and the
\* recommendation leaves the score's for good, and only for a refund that a
\* person must approve.
THEOREM AlarmsStayAlways == Spec => []AlarmsStay
BY Inductive, AlarmsHold, PTL

-----------------------------------------------------------------------------
(* The cheapest action.                                                    *)

Actions == {"MONITOR", "PREPARE_EVIDENCE", "MANUAL_REVIEW", "RECOMMEND_REFUND"}
Costs ==
    [MONITOR : Int, PREPARE_EVIDENCE : Int, MANUAL_REVIEW : Int, RECOMMEND_REFUND : Int]

Scenarios ==
    [chargeback_fee : Nat, gross_margin_rate : Nat, evidence_cost : Nat,
     manual_review_cost : Nat, customer_friction_rate : Nat,
     evidence_recovery_rate : Nat, review_prevention_rate : Nat,
     refund_cost_rate : Nat, risk_program_penalty : Nat]

(* i is the index an argmin answers: that of the first of the least.       *)
IsFirstLeast(i, costs) ==
    /\ \A j \in 1 .. 4 : costs[ActionOrder[i]] <= costs[ActionOrder[j]]
    /\ \A j \in 1 .. i - 1 : costs[ActionOrder[i]] < costs[ActionOrder[j]]

\* Cheapest answers the one index of the first of the least costs.
LEMMA CheapestIs ==
    ASSUME NEW costs \in Costs
    PROVE  \E i \in 1 .. 4 : /\ IsFirstLeast(i, costs)
                             /\ Cheapest(costs) = ActionOrder[i]
                             /\ \A k \in 1 .. 4 : IsFirstLeast(k, costs) => k = i
<1> DEFINE cost(i) == costs[ActionOrder[i]]
<1>1. cost(1) \in Int /\ cost(2) \in Int /\ cost(3) \in Int /\ cost(4) \in Int
  BY DEF Costs, ActionOrder
<1>2. \E i \in 1 .. 4 : /\ \A j \in 1 .. 4 : cost(i) <= cost(j)
                        /\ \A j \in 1 .. i - 1 : cost(i) < cost(j)
  <2> HIDE DEF cost
  <2>1. CASE \A j \in 1 .. 4 : cost(1) <= cost(j)
    BY <2>1
  <2>2. CASE cost(2) < cost(1) /\ cost(2) <= cost(3) /\ cost(2) <= cost(4)
    <3>1. \A j \in 1 .. 4 : cost(2) <= cost(j)
      BY <1>1, <2>2
    <3>2. \A j \in 1 .. 1 : cost(2) < cost(j)
      BY <1>1, <2>2
    <3> QED BY <3>1, <3>2
  <2>3. CASE cost(3) < cost(1) /\ cost(3) < cost(2) /\ cost(3) <= cost(4)
    <3>1. \A j \in 1 .. 4 : cost(3) <= cost(j)
      BY <1>1, <2>3
    <3>2. \A j \in 1 .. 2 : cost(3) < cost(j)
      BY <1>1, <2>3
    <3> QED BY <3>1, <3>2
  <2>4. CASE cost(4) < cost(1) /\ cost(4) < cost(2) /\ cost(4) < cost(3)
    <3>1. \A j \in 1 .. 4 : cost(4) <= cost(j)
      BY <1>1, <2>4
    <3>2. \A j \in 1 .. 3 : cost(4) < cost(j)
      BY <1>1, <2>4
    <3> QED BY <3>1, <3>2
  <2>5. \/ cost(1) <= cost(2) /\ cost(1) <= cost(3) /\ cost(1) <= cost(4)
        \/ cost(2) < cost(1) /\ cost(2) <= cost(3) /\ cost(2) <= cost(4)
        \/ cost(3) < cost(1) /\ cost(3) < cost(2) /\ cost(3) <= cost(4)
        \/ cost(4) < cost(1) /\ cost(4) < cost(2) /\ cost(4) < cost(3)
    BY <1>1
  <2>6. (cost(1) <= cost(2) /\ cost(1) <= cost(3) /\ cost(1) <= cost(4))
            => \A j \in 1 .. 4 : cost(1) <= cost(j)
    BY <1>1
  <2> QED BY <2>1, <2>2, <2>3, <2>4, <2>5, <2>6
<1>3. \A i, k \in 1 .. 4 : IsFirstLeast(i, costs) /\ IsFirstLeast(k, costs) => i = k
  <2> SUFFICES ASSUME NEW i \in 1 .. 4, NEW k \in 1 .. 4, i < k,
                      IsFirstLeast(i, costs), IsFirstLeast(k, costs)
               PROVE  FALSE
    BY DEF IsFirstLeast
  <2>1. cost(k) < cost(i) /\ cost(i) <= cost(k)
    BY DEF IsFirstLeast
  <2>2. cost(k) \in Int /\ cost(i) \in Int
    BY <1>1
  <2> HIDE DEF cost
  <2> QED BY <2>1, <2>2
<1>4. \E i \in 1 .. 4 : IsFirstLeast(i, costs)
  BY <1>2 DEF IsFirstLeast
<1>5. Cheapest(costs) = ActionOrder[CHOOSE i \in 1 .. 4 : IsFirstLeast(i, costs)]
  BY DEF Cheapest, IsFirstLeast
<1> QED BY <1>3, <1>4, <1>5

\* No action costs less than the cheapest.
LEMMA CheapestIsLeast ==
    ASSUME NEW costs \in Costs
    PROVE  /\ Cheapest(costs) \in Actions
           /\ \A a \in Actions : costs[Cheapest(costs)] <= costs[a]
BY CheapestIs DEF IsFirstLeast, ActionOrder, Actions

\* If no cost rises, the least cost does not rise.
LEMMA CheapestIsMonotone ==
    ASSUME NEW costs \in Costs, NEW dearer \in Costs,
           \A a \in Actions : costs[a] <= dearer[a]
    PROVE  costs[Cheapest(costs)] <= dearer[Cheapest(dearer)]
<1>1. Cheapest(dearer) \in Actions
  BY CheapestIsLeast
<1>2. costs[Cheapest(costs)] <= costs[Cheapest(dearer)]
  BY <1>1, CheapestIsLeast
<1>3. costs[Cheapest(dearer)] <= dearer[Cheapest(dearer)]
  BY <1>1
<1>4. /\ costs[Cheapest(costs)] \in Int /\ costs[Cheapest(dearer)] \in Int
      /\ dearer[Cheapest(dearer)] \in Int
  BY <1>1, CheapestIsLeast DEF Costs, Actions
<1> QED BY <1>2, <1>3, <1>4

\* If a review is chosen at a price, it is chosen at a lower one.
LEMMA CheaperReview ==
    ASSUME NEW costs \in Costs, NEW dearer \in Costs,
           costs.MANUAL_REVIEW <= dearer.MANUAL_REVIEW,
           \A a \in Actions \ {"MANUAL_REVIEW"} : costs[a] = dearer[a],
           Cheapest(dearer) = "MANUAL_REVIEW"
    PROVE  Cheapest(costs) = "MANUAL_REVIEW"
<1>1. IsFirstLeast(3, dearer)
  BY CheapestIs DEF ActionOrder
<1>2. IsFirstLeast(3, costs)
  <2>1. ActionOrder = <<"MONITOR", "PREPARE_EVIDENCE", "MANUAL_REVIEW", "RECOMMEND_REFUND">>
    BY DEF ActionOrder
  <2>2. /\ costs["MONITOR"] = dearer["MONITOR"]
        /\ costs["PREPARE_EVIDENCE"] = dearer["PREPARE_EVIDENCE"]
        /\ costs["RECOMMEND_REFUND"] = dearer["RECOMMEND_REFUND"]
    BY DEF Actions
  <2>3. /\ dearer["MANUAL_REVIEW"] < dearer["MONITOR"]
        /\ dearer["MANUAL_REVIEW"] < dearer["PREPARE_EVIDENCE"]
        /\ dearer["MANUAL_REVIEW"] <= dearer["RECOMMEND_REFUND"]
    BY <1>1, <2>1 DEF IsFirstLeast
  <2>4. /\ costs["MANUAL_REVIEW"] < costs["MONITOR"]
        /\ costs["MANUAL_REVIEW"] < costs["PREPARE_EVIDENCE"]
        /\ costs["MANUAL_REVIEW"] <= costs["RECOMMEND_REFUND"]
        /\ costs["MANUAL_REVIEW"] <= costs["MANUAL_REVIEW"]
    BY <2>2, <2>3 DEF Costs
  <2>5. /\ \A j \in 1 .. 4 : costs["MANUAL_REVIEW"] <= costs[ActionOrder[j]]
        /\ \A j \in 1 .. 3 - 1 : costs["MANUAL_REVIEW"] < costs[ActionOrder[j]]
    BY <2>1, <2>4 DEF Costs
  <2> QED BY <2>1, <2>5 DEF IsFirstLeast
<1> QED BY <1>2, CheapestIs DEF ActionOrder

\* The parameters, and those of every scenario of the sweeps, are numbers.
LEMMA ScenariosFit ==
    /\ CostParams \in Scenarios
    /\ DOMAIN ReviewCostGrid = 1 .. 8
    /\ \A k \in 1 .. 8 : FrontierScenarios(CostParams)[k] \in Scenarios
    /\ \A k \in 1 .. 3 : EffectivenessScenarios(CostParams)[k] \in Scenarios
<1>1. CostParams \in Scenarios
  BY DEF CostParams, Scenarios
<1>2. ReviewCostGrid = <<0, 50, 100, 150, 250, 400, 600, 1000>>
  BY DEF ReviewCostGrid
<1>3. \A k \in 1 .. 8 : ReviewCostGrid[k] \in Nat
  BY <1>2
<1>4. \A n \in Nat : [CostParams EXCEPT !.manual_review_cost = n] \in Scenarios
  BY <1>1 DEF Scenarios
<1>5. DOMAIN ReviewCostGrid = 1 .. 8
  BY <1>2
<1>6. \A c \in Scenarios, n \in Nat : /\ [c EXCEPT !.evidence_recovery_rate = n] \in Scenarios
                                     /\ [c EXCEPT !.review_prevention_rate = n] \in Scenarios
  BY DEF Scenarios
<1>7. CostParams.evidence_recovery_rate = 45 /\ CostParams.review_prevention_rate = 65
  BY DEF CostParams
<1> DEFINE Rated(m, n) == [CostParams EXCEPT !.evidence_recovery_rate = m,
                                             !.review_prevention_rate = n]
<1>8. LowScenario(CostParams) = Rated(25, 45) /\ HighScenario(CostParams) = Rated(65, 80)
  BY <1>7 DEF LowScenario, HighScenario, AtLeast, AtMost, Percent
<1>9. LowScenario(CostParams) \in Scenarios /\ HighScenario(CostParams) \in Scenarios
  <2>1. ASSUME NEW m \in Nat, NEW n \in Nat
        PROVE  Rated(m, n) \in Scenarios
    <3>1. Rated(m, n) = [[CostParams EXCEPT !.evidence_recovery_rate = m]
                            EXCEPT !.review_prevention_rate = n]
      OBVIOUS
    <3> QED BY <1>1, <1>6, <3>1, Zenon
  <2> HIDE DEF Rated
  <2> QED BY <1>8, <2>1
<1>10. \A k \in 1 .. 3 : EffectivenessScenarios(CostParams)[k] \in Scenarios
  BY <1>1, <1>9 DEF EffectivenessScenarios
<1> QED BY <1>1, <1>3, <1>4, <1>5, <1>10 DEF FrontierScenarios

\* Products of integers are integers.
LEMMA Products == \A x, y \in Int : x * y \in Int
OBVIOUS

\* The arithmetic of the mean over the two outcomes, for each action.
LEMMA MonitorArithmetic ==
    \A p, l \in Int : p * ((l * 100) * 100 + 0) + (10 - p) * (0 * 100 + 0) = p * l * 100 * 100
OBVIOUS

\* The same for an evidence pack.
LEMMA EvidenceArithmetic ==
    \A p, l, e, k \in Int :
        p * (l * 100 + k * 100 * 100) + (10 - p) * (0 * 100 + k * 100 * 100)
            = k * (10 * 100 * 100) + p * l * 100
OBVIOUS

\* The same for a review; z is the friction of one that was not needed.
LEMMA ReviewArithmetic ==
    \A p, l, k, z \in Int :
        p * (l * 100 + (k * 100 * 100 + 0)) + (10 - p) * (0 * 100 + (k * 100 * 100 + z))
            = k * (10 * 100 * 100) + p * l * 100 + (10 - p) * z
OBVIOUS

\* There is friction if the label is 0, and none if it is 1.
LEMMA FrictionArithmetic ==
    ASSUME NEW p \in Int, NEW f \in Int, NEW g \in Int, NEW m \in Int
    PROVE  /\ f * g * m \in Int
           /\ (1 - 1) * f * g * m = 0
           /\ (1 - 0) * f * g * m = f * g * m
           /\ (10 - p) * f * g * m = (10 - p) * (f * g * m)
OBVIOUS

\* A refund costs the same in both outcomes.
LEMMA RefundArithmetic ==
    \A p, m, r \in Int :
        p * (0 * 100 + m * r * 100) + (10 - p) * (0 * 100 + m * r * 100) = m * r * 10 * 100
OBVIOUS

\* The policy's formulas are the mean of the costs that are realised.
LEMMA MeanIsExpected ==
    ASSUME NEW p \in 0 .. Tenths, NEW amount \in Nat, NEW c \in Scenarios
    PROVE  /\ ExpectedCosts(p, amount, c) \in Costs
           /\ \A a \in Actions :
                 MeanCost(a, p, amount, c) = ExpectedCosts(p, amount, c)[a]
<1> DEFINE L == Loss(amount, c)
<1>1. /\ L \in Int /\ c.evidence_recovery_rate \in Int /\ c.review_prevention_rate \in Int
      /\ c.manual_review_cost \in Int /\ c.evidence_cost \in Int /\ c.refund_cost_rate \in Int
      /\ c.customer_friction_rate \in Int /\ c.gross_margin_rate \in Int /\ p \in Int
      /\ amount \in Int
  BY DEF Scenarios, Loss, Tenths
<1>2. /\ RealisedCost("MONITOR", 1, amount, c) = (L * 100) * 100 + 0
      /\ RealisedCost("MONITOR", 0, amount, c) = 0 * 100 + 0
  BY DEF RealisedCost, ResidualLoss, InterventionCost, Percent
<1>3. /\ RealisedCost("PREPARE_EVIDENCE", 1, amount, c)
            = (L * 100 - c.evidence_recovery_rate * amount) * 100
                + c.evidence_cost * 100 * 100
      /\ RealisedCost("PREPARE_EVIDENCE", 0, amount, c)
            = 0 * 100 + c.evidence_cost * 100 * 100
  BY DEF RealisedCost, ResidualLoss, InterventionCost, Percent
<1> DEFINE friction == c.customer_friction_rate * c.gross_margin_rate * amount
<1>f. /\ friction \in Int
      /\ (1 - 1) * c.customer_friction_rate * c.gross_margin_rate * amount = 0
      /\ (1 - 0) * c.customer_friction_rate * c.gross_margin_rate * amount = friction
      /\ (10 - p) * c.customer_friction_rate * c.gross_margin_rate * amount
            = (10 - p) * friction
  BY ONLY <1>1, FrictionArithmetic
<1>4. /\ RealisedCost("MANUAL_REVIEW", 1, amount, c)
            = ((100 - c.review_prevention_rate) * L) * 100
                + (c.manual_review_cost * 100 * 100 + 0)
      /\ RealisedCost("MANUAL_REVIEW", 0, amount, c)
            = 0 * 100 + (c.manual_review_cost * 100 * 100 + friction)
  <2>1. /\ RealisedCost("MANUAL_REVIEW", 1, amount, c)
              = ((100 - c.review_prevention_rate) * L) * 100
                  + (c.manual_review_cost * 100 * 100
                       + (1 - 1) * c.customer_friction_rate * c.gross_margin_rate * amount)
        /\ RealisedCost("MANUAL_REVIEW", 0, amount, c)
              = 0 * 100 + (c.manual_review_cost * 100 * 100
                       + (1 - 0) * c.customer_friction_rate * c.gross_margin_rate * amount)
    BY DEF RealisedCost, ResidualLoss, InterventionCost, Percent
  <2> QED BY ONLY <1>f, <2>1, Zenon
<1>5. /\ RealisedCost("RECOMMEND_REFUND", 1, amount, c)
            = 0 * 100 + amount * c.refund_cost_rate * 100
      /\ RealisedCost("RECOMMEND_REFUND", 0, amount, c)
            = 0 * 100 + amount * c.refund_cost_rate * 100
  BY DEF RealisedCost, ResidualLoss, InterventionCost, Percent
<1> HIDE DEF L
<1>6. MeanCost("MONITOR", p, amount, c) = p * L * 100 * 100
  BY ONLY <1>1, <1>2, MonitorArithmetic DEF MeanCost, Tenths
<1>7. MeanCost("PREPARE_EVIDENCE", p, amount, c)
        = c.evidence_cost * (10 * 100 * 100)
            + p * (L * 100 - c.evidence_recovery_rate * amount) * 100
  <2>1. L * 100 - c.evidence_recovery_rate * amount \in Int
    BY <1>1, Products
  <2>2. MeanCost("PREPARE_EVIDENCE", p, amount, c)
          = p * ((L * 100 - c.evidence_recovery_rate * amount) * 100
                    + c.evidence_cost * 100 * 100)
              + (10 - p) * (0 * 100 + c.evidence_cost * 100 * 100)
    BY ONLY <1>3, Zenon DEF MeanCost, Tenths
  <2>3. \A l, k \in Int :
          p * (l * 100 + k * 100 * 100) + (10 - p) * (0 * 100 + k * 100 * 100)
            = k * (10 * 100 * 100) + p * l * 100
    BY ONLY <1>1, EvidenceArithmetic
  <2>4. c.evidence_cost \in Int
    BY <1>1
  <2> QED BY ONLY <2>1, <2>2, <2>3, <2>4, Zenon
<1>8. MeanCost("MANUAL_REVIEW", p, amount, c)
        = c.manual_review_cost * (10 * 100 * 100)
            + p * ((100 - c.review_prevention_rate) * L) * 100 + (10 - p) * friction
  <2> DEFINE l == (100 - c.review_prevention_rate) * L
             k == c.manual_review_cost
  <2>1. l \in Int /\ k \in Int /\ friction \in Int
    BY <1>1, <1>f, Products
  <2>2. MeanCost("MANUAL_REVIEW", p, amount, c)
          = p * (l * 100 + (k * 100 * 100 + 0))
              + (10 - p) * (0 * 100 + (k * 100 * 100 + friction))
    <3> HIDE DEF friction
    <3> QED BY ONLY <1>4, Zenon DEF MeanCost, Tenths
  <2> HIDE DEF l, k, friction
  <2>3. p * (l * 100 + (k * 100 * 100 + 0)) + (10 - p) * (0 * 100 + (k * 100 * 100 + friction))
          = k * (10 * 100 * 100) + p * l * 100 + (10 - p) * friction
    BY ONLY <1>1, <2>1, ReviewArithmetic
  <2> QED BY ONLY <2>2, <2>3, Zenon DEF l, k
<1>9. MeanCost("RECOMMEND_REFUND", p, amount, c) = amount * c.refund_cost_rate * 10 * 100
  BY ONLY <1>1, <1>5, RefundArithmetic DEF MeanCost, Tenths
<1>10. /\ ExpectedCosts(p, amount, c).MONITOR = p * L * 100 * 100
       /\ ExpectedCosts(p, amount, c).PREPARE_EVIDENCE
            = c.evidence_cost * (10 * 100 * 100)
                + p * (L * 100 - c.evidence_recovery_rate * amount) * 100
       /\ ExpectedCosts(p, amount, c).RECOMMEND_REFUND
            = amount * c.refund_cost_rate * 10 * 100
  BY DEF ExpectedCosts, L, Percent, Tenths, Unit
<1>11. ExpectedCosts(p, amount, c).MANUAL_REVIEW
         = c.manual_review_cost * (10 * 100 * 100)
             + p * ((100 - c.review_prevention_rate) * L) * 100 + (10 - p) * friction
  <2>1. ExpectedCosts(p, amount, c).MANUAL_REVIEW
          = c.manual_review_cost * (10 * 100 * 100)
              + p * (100 - c.review_prevention_rate) * L * 100
              + (10 - p) * c.customer_friction_rate * c.gross_margin_rate * amount
    BY DEF ExpectedCosts, ManualReviewCost, L, Percent, Tenths, Unit
  <2>2. p * (100 - c.review_prevention_rate) * L = p * ((100 - c.review_prevention_rate) * L)
    BY ONLY <1>1
  <2> QED BY ONLY <1>f, <2>1, <2>2, Zenon
<1>12. ExpectedCosts(p, amount, c) \in Costs
  <2>1. \A x, y \in Int : x + y \in Int /\ x - y \in Int /\ x * y \in Int
    OBVIOUS
  <2>2. 10 \in Int /\ 100 \in Int
    OBVIOUS
  <2>3. /\ p * L * 100 * 100 \in Int
        /\ c.evidence_cost * (10 * 100 * 100)
                + p * (L * 100 - c.evidence_recovery_rate * amount) * 100 \in Int
        /\ amount * c.refund_cost_rate * 10 * 100 \in Int
        /\ c.manual_review_cost * (10 * 100 * 100)
             + p * ((100 - c.review_prevention_rate) * L) * 100 + (10 - p) * friction \in Int
    BY ONLY <1>1, <1>f, <2>1, <2>2
  <2> QED BY <1>10, <1>11, <2>3, Zenon DEF Costs, ExpectedCosts
<1> QED BY <1>6, <1>7, <1>8, <1>9, <1>10, <1>11, <1>12 DEF Actions

\* What the policy costs is the least of its expected costs.
LEMMA PolicyCostIs ==
    ASSUME NEW p \in 0 .. Tenths, NEW amount \in Nat, NEW c \in Scenarios
    PROVE  LET costs == ExpectedCosts(p, amount, c)
           IN  PolicyCost(p, amount, c) = costs[Cheapest(costs)]
BY MeanIsExpected, CheapestIsLeast DEF PolicyCost, PolicyAction

\* No other action costs less on average over the two outcomes.
LEMMA NoActionIsCheaper ==
    ASSUME NEW p \in 0 .. Tenths, NEW amount \in Nat, NEW c \in Scenarios
    PROVE  \A a \in Actions : PolicyCost(p, amount, c) <= MeanCost(a, p, amount, c)
BY PolicyCostIs, MeanIsExpected, CheapestIsLeast

\* A review that is chosen at one price of the sweep is chosen at the one before.
LEMMA ReviewsAreChosenWhenCheap ==
    ASSUME NEW p \in 0 .. Tenths, NEW amount \in Nat, NEW k \in 1 .. 7,
           PolicyAction(p, amount, FrontierScenarios(CostParams)[k + 1]) = "MANUAL_REVIEW"
    PROVE  PolicyAction(p, amount, FrontierScenarios(CostParams)[k]) = "MANUAL_REVIEW"
<1> DEFINE cheap == FrontierScenarios(CostParams)[k]
           dear == FrontierScenarios(CostParams)[k + 1]
           L == Loss(amount, CostParams)
<1>1. /\ cheap = [CostParams EXCEPT !.manual_review_cost = ReviewCostGrid[k]]
      /\ dear = [CostParams EXCEPT !.manual_review_cost = ReviewCostGrid[k + 1]]
  BY ScenariosFit DEF FrontierScenarios
<1>2. /\ ReviewCostGrid[k] \in Int /\ ReviewCostGrid[k + 1] \in Int
      /\ ReviewCostGrid[k] <= ReviewCostGrid[k + 1]
  BY DEF ReviewCostGrid
<1>3. \A f \in DOMAIN CostParams \ {"manual_review_cost"} : cheap[f] = dear[f]
  BY <1>1
<1>4. cheap \in Scenarios /\ dear \in Scenarios
  BY ScenariosFit
<1>5. /\ cheap.manual_review_cost = ReviewCostGrid[k]
      /\ dear.manual_review_cost = ReviewCostGrid[k + 1]
  BY <1>1 DEF CostParams
<1>6. /\ cheap.chargeback_fee = dear.chargeback_fee
      /\ cheap.risk_program_penalty = dear.risk_program_penalty
      /\ cheap.gross_margin_rate = dear.gross_margin_rate
      /\ cheap.evidence_cost = dear.evidence_cost
      /\ cheap.customer_friction_rate = dear.customer_friction_rate
      /\ cheap.evidence_recovery_rate = dear.evidence_recovery_rate
      /\ cheap.review_prevention_rate = dear.review_prevention_rate
      /\ cheap.refund_cost_rate = dear.refund_cost_rate
  BY <1>3 DEF CostParams
<1> HIDE DEF cheap, dear
<1>7. Loss(amount, cheap) = Loss(amount, dear)
  BY <1>6 DEF Loss
<1>8. \A a \in Actions \ {"MANUAL_REVIEW"} :
        ExpectedCosts(p, amount, cheap)[a] = ExpectedCosts(p, amount, dear)[a]
  <2>1. /\ ExpectedCosts(p, amount, cheap).MONITOR = ExpectedCosts(p, amount, dear).MONITOR
        /\ ExpectedCosts(p, amount, cheap).PREPARE_EVIDENCE
             = ExpectedCosts(p, amount, dear).PREPARE_EVIDENCE
        /\ ExpectedCosts(p, amount, cheap).RECOMMEND_REFUND
             = ExpectedCosts(p, amount, dear).RECOMMEND_REFUND
    BY <1>6, <1>7, Zenon DEF ExpectedCosts
  <2> QED BY <2>1 DEF Actions
<1>9. ExpectedCosts(p, amount, cheap).MANUAL_REVIEW
        <= ExpectedCosts(p, amount, dear).MANUAL_REVIEW
  <2> DEFINE rest(c) == p * (Percent - c.review_prevention_rate) * Loss(amount, c) * Percent
             friction(c) ==
                 (Tenths - p) * c.customer_friction_rate * c.gross_margin_rate * amount
  <2>1. /\ ExpectedCosts(p, amount, cheap).MANUAL_REVIEW
             = ReviewCostGrid[k] * Unit + rest(cheap) + friction(cheap)
        /\ ExpectedCosts(p, amount, dear).MANUAL_REVIEW
             = ReviewCostGrid[k + 1] * Unit + rest(dear) + friction(dear)
    BY <1>5 DEF ExpectedCosts, ManualReviewCost
  <2>2. rest(cheap) = rest(dear) /\ friction(cheap) = friction(dear)
    BY <1>6, <1>7, Zenon
  <2>3. rest(cheap) \in Int /\ friction(cheap) \in Int
    <3>1. /\ p \in Int /\ Percent - cheap.review_prevention_rate \in Int
          /\ Loss(amount, cheap) \in Int /\ Percent \in Int /\ Tenths - p \in Int
          /\ cheap.customer_friction_rate \in Int /\ cheap.gross_margin_rate \in Int
          /\ amount \in Int
      BY <1>4 DEF Scenarios, Loss, Percent, Tenths
    <3> QED BY ONLY <3>1, Products
  <2>4. Unit \in Nat
    BY DEF Unit, Tenths, Percent
  <2> HIDE DEF rest, friction
  <2> QED BY <1>2, <2>1, <2>2, <2>3 DEF Unit, Tenths, Percent
<1> QED BY <1>4, <1>8, <1>9, MeanIsExpected, CheaperReview DEF PolicyAction, cheap, dear

\* Better recovery and prevention cost the policy no more.
LEMMA PreventionPays ==
    ASSUME NEW p \in 0 .. Tenths, NEW amount \in Nat, NEW k \in 1 .. 2
    PROVE  PolicyCost(p, amount, EffectivenessScenarios(CostParams)[k + 1])
             <= PolicyCost(p, amount, EffectivenessScenarios(CostParams)[k])
<1> DEFINE worse == EffectivenessScenarios(CostParams)[k]
           better == EffectivenessScenarios(CostParams)[k + 1]
<1>1. worse \in Scenarios /\ better \in Scenarios
  BY ScenariosFit
<1>2. /\ worse.evidence_recovery_rate <= better.evidence_recovery_rate
      /\ worse.review_prevention_rate <= better.review_prevention_rate
      /\ \A f \in DOMAIN CostParams \ {"evidence_recovery_rate", "review_prevention_rate"} :
            worse[f] = better[f]
  <2>1. CostParams.evidence_recovery_rate = 45 /\ CostParams.review_prevention_rate = 65
    BY DEF CostParams
  <2>2. CASE k = 1
    <3>1. worse = LowScenario(CostParams) /\ better = CostParams
      BY <2>2 DEF EffectivenessScenarios
    <3>2. /\ worse.evidence_recovery_rate = 25 /\ worse.review_prevention_rate = 45
          /\ \A f \in DOMAIN CostParams
                         \ {"evidence_recovery_rate", "review_prevention_rate"} :
                worse[f] = CostParams[f]
      <4>1. worse = [CostParams EXCEPT !.evidence_recovery_rate = 25,
                                       !.review_prevention_rate = 45]
        BY <2>1, <3>1 DEF LowScenario, AtLeast
      <4> HIDE DEF worse
      <4>2. \A f \in DOMAIN CostParams \ {"evidence_recovery_rate", "review_prevention_rate"} :
              worse[f] = CostParams[f]
        BY <4>1
      <4>3. {"evidence_recovery_rate", "review_prevention_rate"} \subseteq DOMAIN CostParams
        BY DEF CostParams
      <4>4. worse.evidence_recovery_rate = 25 /\ worse.review_prevention_rate = 45
        BY <4>1, <4>3
      <4> QED BY <4>2, <4>4
    <3> HIDE DEF worse, better
    <3> QED BY <2>1, <3>1, <3>2
  <2>3. CASE k = 2
    <3>1. worse = CostParams /\ better = HighScenario(CostParams)
      BY <2>3 DEF EffectivenessScenarios
    <3>2. /\ better.evidence_recovery_rate = 65 /\ better.review_prevention_rate = 80
          /\ \A f \in DOMAIN CostParams
                         \ {"evidence_recovery_rate", "review_prevention_rate"} :
                better[f] = CostParams[f]
      <4>1. better = [CostParams EXCEPT !.evidence_recovery_rate = 65,
                                        !.review_prevention_rate = 80]
        BY <2>1, <3>1 DEF HighScenario, AtMost, Percent
      <4> HIDE DEF better
      <4>2. \A f \in DOMAIN CostParams \ {"evidence_recovery_rate", "review_prevention_rate"} :
              better[f] = CostParams[f]
        BY <4>1
      <4>3. {"evidence_recovery_rate", "review_prevention_rate"} \subseteq DOMAIN CostParams
        BY DEF CostParams
      <4>4. better.evidence_recovery_rate = 65 /\ better.review_prevention_rate = 80
        BY <4>1, <4>3
      <4> QED BY <4>2, <4>4
    <3> HIDE DEF worse, better
    <3> QED BY <2>1, <3>1, <3>2
  <2> QED BY <2>2, <2>3
<1>3. /\ worse.chargeback_fee = better.chargeback_fee
      /\ worse.risk_program_penalty = better.risk_program_penalty
      /\ worse.gross_margin_rate = better.gross_margin_rate
      /\ worse.evidence_cost = better.evidence_cost
      /\ worse.manual_review_cost = better.manual_review_cost
      /\ worse.customer_friction_rate = better.customer_friction_rate
      /\ worse.refund_cost_rate = better.refund_cost_rate
  BY <1>2 DEF CostParams
<1> HIDE DEF worse, better
<1>4. Loss(amount, worse) = Loss(amount, better) /\ Loss(amount, worse) \in Nat
  BY <1>1, <1>3 DEF Loss, Scenarios
<1> DEFINE loss == Loss(amount, worse)
           low == ExpectedCosts(p, amount, better)
           high == ExpectedCosts(p, amount, worse)
<1>5. low.MONITOR = high.MONITOR /\ low.RECOMMEND_REFUND = high.RECOMMEND_REFUND
  BY <1>3, <1>4, Zenon DEF ExpectedCosts
<1>6. \A x, y \in Int : x <= y => p * x * 100 <= p * y * 100
  BY DEF Tenths
<1>7. \A x, y \in Int, z \in Nat : x <= y => x * z <= y * z
  OBVIOUS
<1>8. low.PREPARE_EVIDENCE <= high.PREPARE_EVIDENCE
  <2> DEFINE x == loss * 100 - better.evidence_recovery_rate * amount
             y == loss * 100 - worse.evidence_recovery_rate * amount
             cost == better.evidence_cost * Unit
  <2>1. x \in Int /\ y \in Int /\ x <= y
    <3>1. /\ better.evidence_recovery_rate * amount \in Int
          /\ worse.evidence_recovery_rate * amount \in Int
          /\ worse.evidence_recovery_rate * amount <= better.evidence_recovery_rate * amount
      BY <1>1, <1>2, <1>7, Products DEF Scenarios
    <3> QED BY <1>4, <3>1
  <2>2. /\ low.PREPARE_EVIDENCE = cost + p * x * 100
        /\ high.PREPARE_EVIDENCE = cost + p * y * 100
    BY <1>3, <1>4, Zenon DEF ExpectedCosts, Percent
  <2>3. cost \in Int
    BY <1>1 DEF Unit, Tenths, Percent, Scenarios
  <2> HIDE DEF x, y, cost
  <2>4. p * x * 100 <= p * y * 100 /\ p * x * 100 \in Int /\ p * y * 100 \in Int
    BY <1>6, <2>1 DEF Tenths
  <2> QED BY <2>2, <2>3, <2>4
<1>9. low.MANUAL_REVIEW <= high.MANUAL_REVIEW
  <2> DEFINE x == (100 - better.review_prevention_rate) * loss
             y == (100 - worse.review_prevention_rate) * loss
             rest == (Tenths - p) * better.customer_friction_rate
                        * better.gross_margin_rate * amount
             cost == better.manual_review_cost * Unit
  <2>1. x \in Int /\ y \in Int /\ x <= y
    BY <1>1, <1>2, <1>4, <1>7, Products DEF Scenarios
  <2>2. /\ low.MANUAL_REVIEW
             = cost + p * (100 - better.review_prevention_rate) * loss * 100 + rest
        /\ high.MANUAL_REVIEW
             = cost + p * (100 - worse.review_prevention_rate) * loss * 100 + rest
    BY <1>3, <1>4, Zenon DEF ExpectedCosts, ManualReviewCost, Percent
  <2>3. /\ p * (100 - better.review_prevention_rate) * loss * 100 = p * x * 100
        /\ p * (100 - worse.review_prevention_rate) * loss * 100 = p * y * 100
    BY <1>1, <1>4 DEF Scenarios, Tenths
  <2>4. cost \in Int
    BY <1>1 DEF Unit, Tenths, Percent, Scenarios
  <2>5. rest \in Int
    <3>1. /\ Tenths - p \in Int /\ better.customer_friction_rate \in Int
          /\ better.gross_margin_rate \in Int /\ amount \in Int
      BY <1>1 DEF Scenarios, Tenths
    <3> QED BY ONLY <3>1, Products
  <2> HIDE DEF x, y, rest, cost
  <2>6. p * x * 100 <= p * y * 100 /\ p * x * 100 \in Int /\ p * y * 100 \in Int
    BY <1>6, <2>1 DEF Tenths
  <2> QED BY <2>2, <2>3, <2>4, <2>5, <2>6
<1>10. low \in Costs /\ high \in Costs
  BY <1>1, MeanIsExpected
<1> HIDE DEF low, high
<1>11. \A a \in Actions : low[a] <= high[a]
  BY <1>5, <1>8, <1>9, <1>10 DEF Actions, Costs
<1>12. low[Cheapest(low)] <= high[Cheapest(high)]
  BY <1>10, <1>11, CheapestIsMonotone
<1> QED BY <1>1, <1>12, PolicyCostIs DEF low, high, worse, better

\* So the policy is the cheapest in every table that fits.
LEMMA CheapestHolds == DecisionsInv => ActionIsCheapest
<1> SUFFICES ASSUME DecisionsInv, NEW i \in DOMAIN payments
             PROVE  LET p == payments[i].probability
                        amount == payments[i].amount
                        frontier == FrontierScenarios(CostParams)
                        effects == EffectivenessScenarios(CostParams)
                        Chosen(c) == PolicyAction(p, amount, c)
                    IN  /\ \A c \in Range(frontier) \cup Range(effects) :
                              \A a \in Range(ActionOrder) :
                                  PolicyCost(p, amount, c) <= MeanCost(a, p, amount, c)
                        /\ \A k \in 1 .. Len(frontier) - 1 :
                              Chosen(frontier[k + 1]) = "MANUAL_REVIEW"
                                  => Chosen(frontier[k]) = "MANUAL_REVIEW"
                        /\ \A k \in 1 .. 2 :
                              PolicyCost(p, amount, effects[k + 1])
                                  <= PolicyCost(p, amount, effects[k])
  BY DEF ActionIsCheapest
<1>1. payments[i].probability \in 0 .. Tenths /\ payments[i].amount \in Nat
  BY CapturedFit DEF DecisionsInv, TablesFit
<1>2. Range(FrontierScenarios(CostParams)) \subseteq Scenarios
  BY ScenariosFit DEF Range, FrontierScenarios
<1>3. Range(EffectivenessScenarios(CostParams)) \subseteq Scenarios
  BY ScenariosFit DEF Range, EffectivenessScenarios
<1>4. Range(ActionOrder) \subseteq Actions
  BY DEF Range, ActionOrder, Actions
<1>5. Len(FrontierScenarios(CostParams)) = 8
  BY DEF FrontierScenarios, ReviewCostGrid
<1> QED BY <1>1, <1>2, <1>3, <1>4, <1>5, NoActionIsCheaper, ReviewsAreChosenWhenCheap,
           PreventionPays

\* Under every scenario of the sweeps the policy's action costs least, for any
\* amount and any probability; cheaper reviews are chosen no less often, and
\* better prevention never costs the policy more.
THEOREM ActionIsCheapestAlways == Spec => []ActionIsCheapest
BY Inductive, CheapestHolds, PTL

-----------------------------------------------------------------------------
(* The guards of evidence packs.                                           *)

(* The ids of a case's facts, by where they come from.                     *)
ColumnIds ==
    {"ACCOUNT_AGE_DAYS", "AMOUNT_PRIOR_24H", "BILLING_SHIPPING_DISTANCE",
     "CANCELLED_SUBSCRIPTION_BILLED", "CARD_NETWORK", "CVV_RESULT", "DESCRIPTOR_CLARITY",
     "DEVICE_NEW", "DIGITAL_GOOD", "DUPLICATE_PAYMENT", "EMAIL_VERIFIED",
     "IP_COUNTRY_MATCH", "IP_PROXY_VPN", "PAYMENT_AMOUNT", "PHONE_VERIFIED",
     "PRODUCT_CATEGORY", "PRIOR_DISPUTES", "PRIOR_ORDERS", "THREEDS_LIABILITY_SHIFT",
     "THREEDS_STATUS", "VELOCITY_1H", "VELOCITY_24H", "VELOCITY_7D"}
PaymentIds == ColumnIds \cup {"PAYMENT_CREATED_AT"}
ScoreIds == {"MODEL_CALIBRATED_PROBABILITY", "MODEL_RISK_BAND", "POLICY_RECOMMENDED_ACTION"}
OperationIds ==
    {"SHIPMENT_EXPECTED", "SHIPMENT_PROMISED_AT", "SHIPMENT_DELIVERED_AT",
     "REFUND_REQUESTED_AT", "REFUND_PROMISED_BY", "REFUND_PROCESSED_AT"}
CaptureIds ==
    {"MERCHANT_DUPLICATE_PAYMENT", "MERCHANT_CANCELLED_SUBSCRIPTION",
     "AUTHENTICATION_GAP", "DEVICE_NETWORK_ANOMALY", "PAYMENT_VELOCITY_SPIKE",
     "REPEAT_DISPUTE_HISTORY", "UNCLEAR_BILLING_DESCRIPTOR",
     "NEW_ACCOUNT_HIGH_VALUE", "DEVICE_DISTANCE_ANOMALY"}
LifecycleIds == {"SHIPMENT_SLA_BREACHED", "REFUND_NOT_PROCESSED"}
AllIds == PaymentIds \cup ScoreIds \cup OperationIds \cup CaptureIds \cup LifecycleIds

\* The columns of a payment that become facts have these ids.
LEMMA Columns == DOMAIN FactColumn = ColumnIds
BY DEF FactColumn, ColumnIds

\* The rules hit have codes of their own stage.
LEMMA Hits ==
    ASSUME NEW x, NEW o, NEW t
    PROVE  CaptureHits(x) \subseteq CaptureIds /\ LifecycleHits(o, t) \subseteq LifecycleIds
<1>1. CaptureHits(x) \subseteq CaptureIds
  BY DEF CaptureHits, CaptureIds, MerchantErrors, AuthenticationGap, DeviceAnomalies,
         VelocitySpike, DisputeHistory, AccountSigns
<1>2. LifecycleHits(o, t) \subseteq LifecycleIds
  BY DEF LifecycleHits, LifecycleIds
<1> QED BY <1>1, <1>2

\* No two groups of facts share an id.
LEMMA Disjoint ==
    /\ PaymentIds \cap (ScoreIds \cup OperationIds \cup CaptureIds \cup LifecycleIds) = {}
    /\ ScoreIds \cap (OperationIds \cup CaptureIds \cup LifecycleIds) = {}
    /\ OperationIds \cap (CaptureIds \cup LifecycleIds) = {}
    /\ CaptureIds \cap LifecycleIds = {}
BY DEF PaymentIds, ColumnIds, ScoreIds, OperationIds, CaptureIds, LifecycleIds

\* The ids that the red team invents are of no fact.
LEMMA Strangers == "INVENTED" \notin AllIds /\ "NOTE" \notin AllIds
BY DEF AllIds, PaymentIds, ColumnIds, ScoreIds, OperationIds, CaptureIds, LifecycleIds

\* A set of naturals has a least element.
LEMMA Least ==
    ASSUME NEW S, S \subseteq Nat, S # {}
    PROVE  \E n \in S : \A m \in S : n <= m
<1> DEFINE R == {p \in Nat \X Nat : p[1] < p[2]}
<1>1. IsWellFoundedOn(R, Nat)
  BY NatLessThanWellFounded, Zenon DEF OpToRel
<1> HIDE DEF R
<1>2. \E n \in S : \A m \in S : ~(<<m, n>> \in R)
  BY <1>1, WFMin, Zenon
<1>3. \A m, n \in Nat : m < n => <<m, n>> \in R
  BY DEF R
<1>4. \A m, n \in S : ~(<<m, n>> \in R) => n <= m
  <2> SUFFICES ASSUME NEW m \in S, NEW n \in S, ~(<<m, n>> \in R)
               PROVE  n <= m
    OBVIOUS
  <2>1. m \in Nat /\ n \in Nat /\ ~(m < n)
    BY <1>3
  <2> QED BY <2>1
<1> QED BY <1>2, <1>4, Zenon

(* Plain facts of these ids and sources, none of them later than t.        *)
Observed(facts, ids, sources, t) ==
    \A f \in facts :
        /\ f.id \in ids
        /\ f.source \in sources
        /\ f.text = "PLAIN"
        /\ f.at <= t

Distinct(facts) == \A f, g \in facts : f.id = g.id => f = g

\* The fields of a fact.
LEMMA FactIs ==
    ASSUME NEW id, NEW source, NEW value, NEW at
    PROVE  /\ Fact(id, source, value, at).id = id
           /\ Fact(id, source, value, at).source = source
           /\ Fact(id, source, value, at).at = at
           /\ Fact(id, source, value, at).text = "PLAIN"
BY DEF Fact

\* A payment's own facts: each column's, once, from the payment's time.
LEMMA CaptureFactsAre ==
    ASSUME NEW x, NEW t, x.created_at <= t
    PROVE  /\ Observed(CaptureFacts(x), PaymentIds, {"PAYMENT"}, t)
           /\ Distinct(CaptureFacts(x))
           /\ ColumnIds \subseteq FactIds(CaptureFacts(x))
<1>1. "PAYMENT_CREATED_AT" \notin ColumnIds
  BY DEF ColumnIds
<1>2. \A f \in CaptureFacts(x) :
        \/ \E id \in ColumnIds : f = Fact(id, "PAYMENT", x[FactColumn[id]], x.created_at)
        \/ f = Fact("PAYMENT_CREATED_AT", "PAYMENT", x.created_at, x.created_at)
  BY Columns DEF CaptureFacts
<1>3. Observed(CaptureFacts(x), PaymentIds, {"PAYMENT"}, t)
  BY <1>2, FactIs DEF Observed, PaymentIds
<1>4. Distinct(CaptureFacts(x))
  BY <1>1, <1>2, FactIs DEF Distinct
<1>5. ColumnIds \subseteq FactIds(CaptureFacts(x))
  <2> SUFFICES ASSUME NEW id \in ColumnIds PROVE id \in FactIds(CaptureFacts(x))
    OBVIOUS
  <2>1. Fact(id, "PAYMENT", x[FactColumn[id]], x.created_at) \in CaptureFacts(x)
    BY Columns DEF CaptureFacts
  <2> QED BY <2>1, FactIs DEF FactIds
<1> QED BY <1>3, <1>4, <1>5

\* The facts of score and policy come from no operational source.
LEMMA ScoreFactsAre ==
    ASSUME NEW x, NEW action, NEW t, x.created_at <= t
    PROVE  /\ Observed(ScoreFacts(x, action), ScoreIds, {"MODEL", "POLICY"}, t)
           /\ Distinct(ScoreFacts(x, action))
BY FactIs DEF ScoreFacts, Observed, Distinct, ScoreIds

\* A rule's fact is known by its code.
LEMMA RuleFactsAre ==
    ASSUME NEW hits, NEW ids, hits \subseteq ids, NEW source, NEW at, NEW t, at <= t
    PROVE  /\ Observed(RuleFacts(hits, source, at), ids, {source}, t)
           /\ Distinct(RuleFacts(hits, source, at))
<1>1. \A f \in RuleFacts(hits, source, at) : \E h \in hits : f = Fact(h, source, TRUE, at)
  BY DEF RuleFacts
<1>2. Observed(RuleFacts(hits, source, at), ids, {source}, t)
  BY <1>1 DEF Observed, Fact
<1>3. Distinct(RuleFacts(hits, source, at))
  <2> SUFFICES ASSUME NEW f \in RuleFacts(hits, source, at),
                      NEW g \in RuleFacts(hits, source, at), f.id = g.id
               PROVE  f = g
    BY DEF Distinct
  <2>1. PICK h \in hits : f = Fact(h, source, TRUE, at)
    BY <1>1
  <2>2. PICK k \in hits : g = Fact(k, source, TRUE, at)
    BY <1>1
  <2>3. h = k
    BY <2>1, <2>2 DEF Fact
  <2> QED BY <2>1, <2>2, <2>3
<1> QED BY <1>2, <1>3

\* The facts of an operation that is visible as of t are no later than t.
LEMMA OperationFactsAre ==
    ASSUME NEW x, NEW o \in Operation, NEW t \in Nat, x.created_at <= t
    PROVE  /\ Observed(OperationFacts(x, o, t), OperationIds, {"ORDER", "SHIPMENT", "REFUND"}, t)
           /\ Distinct(OperationFacts(x, o, t))
<1>1. \A f \in OperationFacts(x, o, t) :
        \/ f = Fact("SHIPMENT_EXPECTED", "ORDER", o.expected, x.created_at)
        \/ f = Fact("SHIPMENT_PROMISED_AT", "SHIPMENT", o.promised, x.created_at)
        \/ /\ f = Fact("SHIPMENT_DELIVERED_AT", "SHIPMENT", o.delivered, o.delivered)
           /\ Visible(o.delivered, t) # Never
        \/ /\ f = Fact("REFUND_REQUESTED_AT", "REFUND", o.requested, o.requested)
           /\ Visible(o.requested, t) # Never
        \/ /\ f = Fact("REFUND_PROMISED_BY", "REFUND", o.promisedBy, o.requested)
           /\ Visible(o.requested, t) # Never
        \/ /\ f = Fact("REFUND_PROCESSED_AT", "REFUND", o.processed, o.processed)
           /\ Visible(o.processed, t) # Never
  BY DEF OperationFacts, FactIf
<1>2. \A time \in Nat : Visible(time, t) # Never => time <= t
  BY DEF Visible
<1>3. Observed(OperationFacts(x, o, t), OperationIds, {"ORDER", "SHIPMENT", "REFUND"}, t)
  BY <1>1, <1>2, FactIs DEF Observed, OperationIds, Operation
<1>4. Distinct(OperationFacts(x, o, t))
  BY <1>1, FactIs DEF Distinct
<1> QED BY <1>3, <1>4

\* Groups that share no id have distinct ids together.
LEMMA DistinctUnion ==
    ASSUME NEW A, NEW B, Distinct(A), Distinct(B),
           \A f \in A, g \in B : f.id # g.id
    PROVE  Distinct(A \cup B)
BY DEF Distinct

\* A case has distinct, plain facts of the past, every column of the payment
\* among them, and the model's probability only from the model.
LEMMA CaseFactsAre ==
    ASSUME NEW i, NEW x, NEW action, NEW o \in Operation, NEW t \in Nat, x.created_at <= t
    PROVE  LET case == BuildEvidenceCase(i, x, action, o, t)
           IN  /\ Distinct(case.facts)
               /\ ColumnIds \subseteq FactIds(case.facts)
               /\ \A f \in case.facts :
                     /\ f.id \in AllIds /\ f.text = "PLAIN" /\ f.at <= t
                     /\ f.id = "MODEL_CALIBRATED_PROBABILITY" => f.source \in {"MODEL", "POLICY"}
<1> DEFINE capture == CaptureFacts(x)
           score == ScoreFacts(x, action)
           operation == OperationFacts(x, o, t)
           early == RuleFacts(CaptureHits(x), "CAPTURE_RULE", x.created_at)
           late == RuleFacts(LifecycleHits(o, t), "LIFECYCLE_RULE", t)
           facts == capture \cup score \cup operation \cup early \cup late
<1>1. BuildEvidenceCase(i, x, action, o, t).facts = facts
  BY DEF BuildEvidenceCase
<1>2. /\ Observed(capture, PaymentIds, {"PAYMENT"}, t) /\ Distinct(capture)
      /\ ColumnIds \subseteq FactIds(capture)
  BY CaptureFactsAre
<1>3. Observed(score, ScoreIds, {"MODEL", "POLICY"}, t) /\ Distinct(score)
  BY ScoreFactsAre
<1>4. /\ Observed(operation, OperationIds, {"ORDER", "SHIPMENT", "REFUND"}, t)
      /\ Distinct(operation)
  BY OperationFactsAre
<1>5. Observed(early, CaptureIds, {"CAPTURE_RULE"}, t) /\ Distinct(early)
  <2>1. CaptureHits(x) \subseteq CaptureIds
    BY Hits
  <2> QED BY <2>1, RuleFactsAre
<1>6. Observed(late, LifecycleIds, {"LIFECYCLE_RULE"}, t) /\ Distinct(late)
  <2>1. LifecycleHits(o, t) \subseteq LifecycleIds /\ t <= t
    BY Hits
  <2> QED BY <2>1, RuleFactsAre
<1> HIDE DEF capture, score, operation, early, late
<1>7. Distinct(facts)
  <2>1. Distinct(capture \cup score)
    BY <1>2, <1>3, Disjoint, DistinctUnion DEF Observed
  <2>2. Distinct(capture \cup score \cup operation)
    BY <2>1, <1>2, <1>3, <1>4, Disjoint, DistinctUnion DEF Observed
  <2>3. Distinct(capture \cup score \cup operation \cup early)
    BY <2>2, <1>2, <1>3, <1>4, <1>5, Disjoint, DistinctUnion DEF Observed
  <2> QED
    BY <2>3, <1>2, <1>3, <1>4, <1>5, <1>6, Disjoint, DistinctUnion DEF Observed
<1>8. ColumnIds \subseteq FactIds(facts)
  BY <1>2 DEF FactIds
<1>9. \A f \in facts : f.id \in AllIds /\ f.text = "PLAIN" /\ f.at <= t
  BY <1>2, <1>3, <1>4, <1>5, <1>6 DEF Observed, AllIds
<1>10. \A f \in facts :
         f.id = "MODEL_CALIBRATED_PROBABILITY" => f.source \in {"MODEL", "POLICY"}
  <2>1. "MODEL_CALIBRATED_PROBABILITY" \in ScoreIds
    BY DEF ScoreIds
  <2>2. \A f \in facts \ score : f.id \notin ScoreIds
    BY <1>2, <1>4, <1>5, <1>6, Disjoint DEF Observed
  <2> QED BY <1>3, <2>1, <2>2 DEF Observed
<1> QED BY <1>1, <1>7, <1>8, <1>9, <1>10

\* The fallback cites some facts of the case, and no others.
LEMMA SomeAreCited ==
    ASSUME NEW ids, ColumnIds \subseteq ids
    PROVE  CitedIds(ids) # {} /\ CitedIds(ids) \subseteq ids
<1> DEFINE places == {n \in DOMAIN CitationOrder : CitationOrder[n] \in ids}
           Before(p) == {q \in places : q < p}
<1>1. DOMAIN CitationOrder = 1 .. 22 /\ CitationOrder[18] \in ColumnIds
  BY DEF CitationOrder, ColumnIds
<1>2. places \subseteq Nat /\ places # {}
  BY <1>1
<1>3. PICK p \in places : \A q \in places : p <= q
  BY <1>2, Least
<1>4. Before(p) = {}
  BY <1>1, <1>3
<1>5. Cardinality(Before(p)) < MaxFallbackItems
  BY <1>4, FS_EmptySet DEF MaxFallbackItems
<1>6. CitedIds(ids) = {CitationOrder[n] : n \in
                         {m \in places : Cardinality(Before(m)) < MaxFallbackItems}}
  BY Zenon DEF CitedIds
<1>7. CitationOrder[p] \in CitedIds(ids)
  BY <1>3, <1>5, <1>6
<1>8. CitedIds(ids) \subseteq ids
  BY <1>6
<1> QED BY <1>7, <1>8

\* Packs are guarded in every table that fits.
LEMMA PacksHold == DecisionsInv => PacksAreGuarded
<1> SUFFICES ASSUME DecisionsInv, NEW i \in DOMAIN payments, NEW t \in AsOf(i)
             PROVE  LET case == Case(i, t)
                        pack == FallbackPack(case)
                    IN  /\ IsCase(case)
                        /\ PassesGuardrails(pack, case)
                        /\ \A tampered \in TamperedPacks(pack) :
                              ~PassesGuardrails(tampered, case)
                        /\ \A poisoned \in PoisonedCases(case) : ~IsSafeCase(poisoned)
                        /\ \A f \in case.facts : f.at <= t
  BY DEF PacksAreGuarded
<1> DEFINE case == Case(i, t)
           facts == case.facts
           pack == FallbackPack(case)
           items == pack.items
           cited == CitedIds(FactIds(facts))
<1>1. t \in Nat /\ payments[i].created_at <= t /\ operations[i] \in Operation
  BY OperationsFit DEF DecisionsInv, TablesFit, NothingAhead, AsOf
<1>2. Row(i).created_at = payments[i].created_at
  <2>1. payments[i] \in Captured
    BY DEF DecisionsInv, TablesFit
  <2>2. "created_at" \in DOMAIN payments[i]
    <3>1. PICK c \in Customers, n \in Nat, x \in Profiles :
            payments[i] = Joined([customer |-> c, created_at |-> n], x)
      BY <2>1 DEF Captured
    <3>2. DOMAIN payments[i] = {"customer", "created_at"} \cup DOMAIN x
      BY <3>1 DEF Joined
    <3> QED BY <3>2
  <2> QED BY <2>2 DEF Row, Joined
<1>3. /\ Distinct(facts)
      /\ ColumnIds \subseteq FactIds(facts)
      /\ \A f \in facts :
            /\ f.id \in AllIds /\ f.text = "PLAIN" /\ f.at <= t
            /\ f.id = "MODEL_CALIBRATED_PROBABILITY" => f.source \in {"MODEL", "POLICY"}
  BY <1>1, <1>2, CaseFactsAre DEF Case
<1>4. /\ pack.payment = case.payment /\ pack.action = case.action
      /\ pack.summary.claims = {} /\ pack.summary.accuses = FALSE
      /\ pack.message = "NONE" /\ pack.disclosed = TRUE
      /\ items = {Item(f) : f \in {g \in facts : g.id \in cited}}
  BY DEF FallbackPack
<1>5. /\ DOMAIN case = {"payment", "as_of", "action", "facts"}
      /\ DOMAIN pack = {"payment", "action", "summary", "items", "message", "disclosed"}
      /\ DOMAIN pack.summary = {"claims", "accuses"}
  BY DEF Case, BuildEvidenceCase, FallbackPack
<1>6. cited # {} /\ cited \subseteq FactIds(facts)
  BY <1>3, SomeAreCited
<1>7. PICK cause \in facts : cause.id \in cited
  BY <1>6 DEF FactIds
<1>8. Item(cause) \in items
  BY <1>4, <1>7
<1> HIDE DEF case, pack, items, facts, cited
<1>10. IsCase(case)
  BY <1>3, <1>7 DEF IsCase, Distinct, facts
<1>11. IsSafeCase(case)
  BY <1>3 DEF IsSafeCase, UnsafeTexts, facts
<1>12. \A item \in items :
         /\ item.cites # {} /\ item.cites \subseteq FactIds(facts)
         /\ IsSupported(item, case)
  <2> SUFFICES ASSUME NEW f \in facts, f.id \in cited
               PROVE  /\ Item(f).cites # {} /\ Item(f).cites \subseteq FactIds(facts)
                      /\ IsSupported(Item(f), case)
    BY <1>4
  <2>1. Item(f).cites = {f.id} /\ Item(f).claims = {f.id} /\ Item(f).words = {f.id}
    BY DEF Item
  <2>2. Item(f).strength = "STRONG" => f.source \in OperationalSources
    BY DEF Item, Strength, OperationalSources
  <2>3. Item(f).cites \subseteq FactIds(facts)
    BY <2>1 DEF FactIds
  <2>4. IsSupported(Item(f), case)
    BY <2>1, <2>2 DEF IsSupported, facts
  <2> QED BY <2>1, <2>3, <2>4
<1>13. PassesGuardrails(pack, case)
  <2>1. MeetsContract(pack, case)
    BY <1>4, <1>8, <1>12 DEF MeetsContract, items, facts
  <2> QED BY <2>1, <1>4, <1>11, <1>12 DEF PassesGuardrails, items
<1>14. ASSUME NEW tampered \in TamperedPacks(pack)
       PROVE  ~PassesGuardrails(tampered, case)
  <2> DEFINE model == "MODEL_CALIBRATED_PROBABILITY"
             strong == [cites |-> {model}, claims |-> {model},
                        words |-> {model}, strength |-> "STRONG"]
  <2>1. CASE \E a \in DOMAIN ACTION_PRIORITY \ {pack.action} :
               tampered = [pack EXCEPT !.action = a]
    BY <2>1, <1>4, <1>5 DEF PassesGuardrails, MeetsContract
  <2>2. CASE \E item \in items :
               tampered = WithItem(pack, [item EXCEPT !.cites = {"INVENTED"}])
    <3>1. PICK item \in items :
            tampered = WithItem(pack, [item EXCEPT !.cites = {"INVENTED"}])
      BY <2>2
    <3>2. "cites" \in DOMAIN item
      BY <1>4 DEF Item
    <3>3. tampered.items = {[item EXCEPT !.cites = {"INVENTED"}]}
      BY <3>1, <1>5 DEF WithItem
    <3>4. "INVENTED" \notin FactIds(facts)
      BY <1>3, Strangers DEF FactIds
    <3> QED BY <3>2, <3>3, <3>4 DEF PassesGuardrails, MeetsContract, facts
  <2>3. CASE \E item \in items :
               tampered = WithItem(pack, [item EXCEPT !.claims = {"INVENTED"}])
    <3>1. PICK item \in items :
            tampered = WithItem(pack, [item EXCEPT !.claims = {"INVENTED"}])
      BY <2>3
    <3>2. /\ DOMAIN item = {"cites", "claims", "words", "strength"}
          /\ item.cites \subseteq FactIds(facts)
      BY <1>4, <1>12 DEF Item
    <3>3. tampered.items = {[item EXCEPT !.claims = {"INVENTED"}]}
      BY <3>1, <1>5 DEF WithItem
    <3>4. "INVENTED" \notin FactIds(facts)
      BY <1>3, Strangers DEF FactIds
    <3> QED BY <3>2, <3>3, <3>4 DEF PassesGuardrails, IsSupported
  <2>4. CASE tampered = WithItem(pack, strong)
    <3>1. tampered.items = {strong}
      BY <2>4, <1>5 DEF WithItem
    <3>2. \A f \in facts : f.id \in strong.cites => f.source \notin OperationalSources
      BY <1>3 DEF OperationalSources, RuleSources
    <3>3. ~IsSupported(strong, case)
      BY <3>2 DEF IsSupported, facts
    <3> QED BY <3>1, <3>3 DEF PassesGuardrails
  <2>5. CASE tampered = [pack EXCEPT !.summary.accuses = TRUE]
    BY <2>5, <1>5 DEF PassesGuardrails
  <2>6. CASE tampered = [pack EXCEPT !.message = "CLAIMS_EXECUTION"]
    BY <2>6, <1>5 DEF PassesGuardrails
  <2>7. CASE tampered = [pack EXCEPT !.disclosed = FALSE]
    BY <2>7, <1>5 DEF PassesGuardrails
  <2> QED BY <1>14, <2>1, <2>2, <2>3, <2>4, <2>5, <2>6, <2>7 DEF TamperedPacks, items
<1>15. ASSUME NEW poisoned \in PoisonedCases(case)
       PROVE  ~IsSafeCase(poisoned)
  <2>1. PICK unsafe \in UnsafeTexts :
          poisoned = [case EXCEPT !.facts =
             @ \cup {[Fact("NOTE", "ORDER", TRUE, case.as_of) EXCEPT !.text = unsafe]}]
    BY <1>15 DEF PoisonedCases
  <2>2. [Fact("NOTE", "ORDER", TRUE, case.as_of) EXCEPT !.text = unsafe] \in poisoned.facts
    BY <2>1, <1>5
  <2>3. [Fact("NOTE", "ORDER", TRUE, case.as_of) EXCEPT !.text = unsafe].text = unsafe
    BY DEF Fact
  <2> QED BY <2>2, <2>3 DEF IsSafeCase
<1> QED BY <1>3, <1>10, <1>13, <1>14, <1>15, Zenon DEF case, pack, facts

\* Every case of every payment is one the contract accepts, with no fact of the
\* future; the fallback's pack for it passes the guardrails, and they refuse every
\* tampering with it and every poisoning of its case.
THEOREM PacksAreGuardedAlways == Spec => []PacksAreGuarded
BY Inductive, PacksHold, PTL
=============================================================================
