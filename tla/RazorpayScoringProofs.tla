----------------------- MODULE RazorpayScoringProofs -----------------------
(***************************************************************************)
(* Theorems about RazorpayScoring, for any requests, payments, orders,     *)
(* contexts and models, any number of misrouted lookups and of restarts.   *)
(***************************************************************************)
EXTENDS RazorpayScoring, TLAPS

\* A request at work knows what it was asked for.
ArgsKnown ==
    \A r \in Requests : pc[r] \in Serving =>
        /\ args[r].order \in Orders
        /\ args[r].payment \in Payments
        /\ args[r].context \in Contexts

\* The payment a request was asked for has passed the checks of Verify.
VerifiedArgs(r) ==
    /\ OrderOf[args[r].payment] = args[r].order
    /\ args[r].payment \notin NotCardOrInr \cup WrongAmount

Verified == \A r \in Requests : pc[r] \in {"fetching", "loading", "scoring"} => VerifiedArgs(r)

\* The record a request scores has passed those of FetchAgain.
RecordsAreNormal ==
    \A r \in Requests : pc[r] \in {"loading", "scoring"} =>
        /\ record[r].payment \in Payments
        /\ record[r].provider_status \in Paid
        /\ OrderOf[record[r].payment] \in Orders
        /\ args[r].context \notin TooLate

\* Only finished requests have answers.
AnswersComeLast == \A r \in Requests : pc[r] # "done" => answer[r].code = "none"

\* A score that was delivered is the one that is stored.
AnswersAreStored ==
    \A r \in Requests : answer[r].code = "200" =>
        /\ answer[r].result.payment \in Payments
        /\ payment_scores[answer[r].result.payment] # None
        /\ payment_scores[answer[r].result.payment] =
               [input |-> args[r].context, result |-> answer[r].result]

ScoringInv ==
    /\ TypeOK
    /\ ArgsKnown
    /\ Verified
    /\ RecordsAreNormal
    /\ AnswersComeLast
    /\ AnswersAreStored
    /\ AnswersAreBound
-----------------------------------------------------------------------------
Refusals == {"401", "409", "422", "500", "503"}

\* A request ends with a refusal.
LEMMA RefusalStep ==
    ASSUME ScoringInv, NEW r \in Requests, NEW code \in Refusals,
           pc[r] # "done", Finish(r, Refuse(code)),
           UNCHANGED <<payment_scores, args, record, model, restarts>>,
           status' \in [Payments -> Statuses], misroutes' \in 0 .. MaxMisroutes
    PROVE  ScoringInv'
<1> USE DEF ScoringInv, Finish, Refuse, Refusals
<1>1. TypeOK'
  BY DEF TypeOK, Answers, Codes
<1>2. ArgsKnown' /\ Verified' /\ RecordsAreNormal' /\ AnswersComeLast'
  BY DEF TypeOK, ArgsKnown, Verified, VerifiedArgs, RecordsAreNormal, AnswersComeLast, Serving
<1>3. AnswersAreStored' /\ AnswersAreBound'
  BY DEF TypeOK, AnswersAreStored, AnswersAreBound
<1> QED BY <1>1, <1>2, <1>3

LEMMA BeginStep ==
    ASSUME ScoringInv, NEW r \in Requests, NEW o \in Orders, NEW p \in Payments,
           NEW c \in Contexts, Begin(r, o, p, c)
    PROVE  ScoringInv'
<1> USE DEF ScoringInv, Begin, Goto
<1>1. TypeOK'
  BY DEF TypeOK, Args, Serving, provider, process
<1>2. ArgsKnown' /\ Verified' /\ RecordsAreNormal' /\ AnswersComeLast'
  BY DEF TypeOK, ArgsKnown, Verified, VerifiedArgs, RecordsAreNormal, AnswersComeLast, Serving
<1>3. AnswersAreStored' /\ AnswersAreBound'
  BY DEF TypeOK, AnswersComeLast, AnswersAreStored, AnswersAreBound
<1> QED BY <1>1, <1>2, <1>3

LEMMA LookupTypes ==
    ASSUME ScoringInv, NEW wrong \in BOOLEAN, Lookup(wrong)
    PROVE  status' \in [Payments -> Statuses] /\ misroutes' \in 0 .. MaxMisroutes
  BY BoundsAssumption DEF ScoringInv, TypeOK, Lookup

LEMMA VerifyStep ==
    ASSUME ScoringInv, NEW r \in Requests, NEW o \in Orders, NEW p \in Payments, Verify(r, o, p)
    PROVE  ScoringInv'
<1>1. status' \in [Payments -> Statuses] /\ misroutes' \in 0 .. MaxMisroutes
  BY LookupTypes DEF Verify
<1>2. CASE Finish(r, Refuse("401")) \/ Finish(r, Refuse("422"))
  BY <1>1, <1>2, RefusalStep DEF Verify, process, Refusals
<1>3. CASE Bound(r, o, p) /\ Eligible(p) /\ Goto(r, "fetching")
  <2> USE <1>1, <1>3 DEF ScoringInv, Verify, Goto, process
  <2>1. TypeOK'
    BY DEF TypeOK, Serving
  <2>2. VerifiedArgs(r)
    BY DEF VerifiedArgs, Bound, Eligible
  <2>3. ArgsKnown' /\ Verified' /\ RecordsAreNormal' /\ AnswersComeLast'
    BY <2>2 DEF TypeOK, ArgsKnown, Verified, VerifiedArgs, RecordsAreNormal, AnswersComeLast,
                Serving
  <2>4. AnswersAreStored' /\ AnswersAreBound'
    BY DEF AnswersAreStored, AnswersAreBound
  <2> QED BY <2>1, <2>3, <2>4
<1> QED BY <1>2, <1>3 DEF Verify

LEMMA FetchAgainStep ==
    ASSUME ScoringInv, NEW r \in Requests, NEW p \in Payments, FetchAgain(r, p)
    PROVE  ScoringInv'
<1>1. status' \in [Payments -> Statuses] /\ misroutes' \in 0 .. MaxMisroutes
  BY LookupTypes DEF FetchAgain
<1>2. CASE ~Normalizable(r, p)
  BY <1>1, <1>2, RefusalStep DEF FetchAgain, process, Refusals
<1>3. CASE Normalizable(r, p)
  <2> USE <1>1, <1>3 DEF ScoringInv, FetchAgain, Goto, process
  <2>1. TypeOK'
    <3>1. [payment |-> p, provider_status |-> status[p]] \in Record
      BY DEF TypeOK, Record
    <3> QED BY <3>1 DEF TypeOK, Serving
  <2>2. OrderOf[p] \in Orders /\ status[p] \in Paid /\ args[r].context \notin TooLate
    BY PaymentsAssumption DEF Normalizable
  <2>3. RecordsAreNormal'
    BY <2>2 DEF TypeOK, RecordsAreNormal
  <2>4. ArgsKnown' /\ Verified' /\ AnswersComeLast'
    BY DEF TypeOK, ArgsKnown, Verified, VerifiedArgs, AnswersComeLast, Serving
  <2>5. AnswersAreStored' /\ AnswersAreBound'
    BY DEF AnswersAreStored, AnswersAreBound
  <2> QED BY <2>1, <2>3, <2>4, <2>5
<1> QED BY <1>2, <1>3

\* A request ends with the delivery of the row it has found or saved.
LEMMA DeliveryStep ==
    ASSUME ScoringInv, NEW r \in Requests, NEW mode \in {"CALCULATED", "IDEMPOTENT_REPLAY"},
           pc[r] \in {"loading", "scoring"},
           NEW row \in Row, row = payment_scores'[record[r].payment],
           row.input = args[r].context,
           payment_scores' \in [Payments -> Row \cup {None}],
           \A p \in Payments : payment_scores'[p] # None =>
               payment_scores'[p].result.payment = p /\ payment_scores'[p].result.order = OrderOf[p],
           \A p \in Payments : payment_scores[p] # None => payment_scores'[p] = payment_scores[p],
           Finish(r, Delivery(r, mode, row.result)),
           UNCHANGED <<args, record, status, misroutes, model, restarts>>
    PROVE  ScoringInv'
<1> USE DEF ScoringInv, Finish
<1>1. /\ record[r].payment \in Payments
      /\ row.result \in Result
      /\ row # None
  BY RowAssumption DEF RecordsAreNormal, Row
<1>2. CASE Delivery(r, mode, row.result) = Refuse("401")
  <2> USE <1>2 DEF Refuse
  <2>1. TypeOK'
    BY DEF TypeOK, Answers, Codes
  <2>2. ArgsKnown' /\ Verified' /\ RecordsAreNormal' /\ AnswersComeLast'
    BY DEF TypeOK, ArgsKnown, Verified, VerifiedArgs, RecordsAreNormal, AnswersComeLast, Serving
  <2>3. AnswersAreStored' /\ AnswersAreBound'
    <3>1. \A s \in Requests :
              answer'[s] = IF s = r THEN Refuse("401") ELSE answer[s]
      BY DEF TypeOK
    <3> QED BY <3>1 DEF AnswersAreStored, AnswersAreBound
  <2> QED BY <2>1, <2>2, <2>3
<1>3. CASE row.result.order = args[r].order /\ row.result.payment = args[r].payment
  <2>1. Delivery(r, mode, row.result) = [code |-> "200", mode |-> mode, result |-> row.result]
    BY <1>3 DEF Delivery
  <2>2. TypeOK'
    BY <1>1, <2>1 DEF TypeOK, Answers, Codes
  <2>3. ArgsKnown' /\ Verified' /\ RecordsAreNormal' /\ AnswersComeLast'
    BY DEF TypeOK, ArgsKnown, Verified, VerifiedArgs, RecordsAreNormal, AnswersComeLast, Serving
  <2>4. \A s \in Requests : answer'[s] =
            IF s = r THEN [code |-> "200", mode |-> mode, result |-> row.result] ELSE answer[s]
    BY <2>1 DEF TypeOK
  <2>5. row.result.payment = record[r].payment
    BY <1>1
  <2>6. AnswersAreStored'
    <3>1. row = [input |-> args[r].context, result |-> row.result]
      BY DEF Row
    <3>2. ASSUME NEW s \in Requests, s # r, answer[s].code = "200"
          PROVE  payment_scores'[answer[s].result.payment] =
                     payment_scores[answer[s].result.payment]
      BY <3>2 DEF AnswersAreStored
    <3>3. ASSUME NEW s \in Requests, answer'[s].code = "200"
          PROVE  LET a == answer'[s]
                 IN  /\ a.result.payment \in Payments
                     /\ payment_scores'[a.result.payment] # None
                     /\ payment_scores'[a.result.payment] =
                            [input |-> args[s].context, result |-> a.result]
      <4>1. CASE s = r
        BY <1>1, <2>4, <2>5, <3>1, <4>1
      <4>2. CASE s # r
        <5>1. answer'[s] = answer[s]
          BY <2>4, <4>2
        <5>2. answer[s].code = "200"
          BY <3>3, <5>1
        <5>3. payment_scores'[answer[s].result.payment] =
                  payment_scores[answer[s].result.payment]
          BY <3>2, <4>2, <5>2
        <5>4. AnswersAreStored
          BY DEF ScoringInv
        <5> HIDE DEF ScoringInv, Finish
        <5> QED BY <5>1, <5>2, <5>3, <5>4 DEF AnswersAreStored
      <4> QED BY <4>1, <4>2
    <3> QED BY <3>3 DEF AnswersAreStored
  <2>7. VerifiedArgs(r) /\ args[r].context \notin TooLate
    BY DEF Verified, RecordsAreNormal
  <2>8. AnswersAreBound'
    BY <1>3, <2>4, <2>7 DEF AnswersAreBound, VerifiedArgs
  <2> QED BY <2>2, <2>3, <2>6, <2>8
<1> QED BY <1>2, <1>3 DEF Delivery

LEMMA LoadScoreStep ==
    ASSUME ScoringInv, NEW r \in Requests, LoadScore(r)
    PROVE  ScoringInv'
<1> USE DEF LoadScore
<1>1. CASE Stored(r) = None
  <2> USE <1>1 DEF ScoringInv, Goto, provider, process
  <2>1. TypeOK'
    BY DEF TypeOK, Serving
  <2>2. ArgsKnown' /\ Verified' /\ RecordsAreNormal' /\ AnswersComeLast'
    BY DEF TypeOK, ArgsKnown, Verified, VerifiedArgs, RecordsAreNormal, AnswersComeLast, Serving
  <2>3. AnswersAreStored' /\ AnswersAreBound'
    BY DEF AnswersAreStored, AnswersAreBound
  <2> QED BY <2>1, <2>2, <2>3
<1>2. CASE Stored(r) # None /\ Stored(r).input # args[r].context
  BY <1>2, RefusalStep DEF provider, process, Refusals, ScoringInv, TypeOK
<1>3. CASE Stored(r) # None /\ Stored(r).input = args[r].context
  <2>1. Finish(r, Delivery(r, "IDEMPOTENT_REPLAY", Stored(r).result))
    BY <1>3
  <2>2. Stored(r) \in Row
    BY <1>3 DEF ScoringInv, TypeOK, RecordsAreNormal, Stored
  <2> QED BY <1>3, <2>1, <2>2, DeliveryStep DEF ScoringInv, TypeOK, Stored, provider, process
<1> QED BY <1>1, <1>2, <1>3

\* The row a request saves if there is none.
LEMMA SavedRow ==
    ASSUME ScoringInv, NEW r \in Requests, pc[r] = "scoring"
    PROVE  /\ record[r].payment \in Payments
           /\ Calculated(r).payment = record[r].payment
           /\ Calculated(r).order = OrderOf[record[r].payment]
           /\ [input |-> args[r].context, result |-> Calculated(r)] \in Row
  BY DEF ScoringInv, TypeOK, ArgsKnown, RecordsAreNormal, Serving, Calculated, Row, Result

LEMMA SaveScoreStep ==
    ASSUME ScoringInv, NEW r \in Requests, SaveScore(r)
    PROVE  ScoringInv'
<1> DEFINE row == [input |-> args[r].context, result |-> Calculated(r)]
<1>1. /\ pc[r] = "scoring"
      /\ UNCHANGED <<args, record, status, misroutes, model, restarts>>
  BY DEF SaveScore, provider, process
<1>2. CASE Stored(r) = None
  <2>1. /\ payment_scores' = [payment_scores EXCEPT ![record[r].payment] = row]
        /\ Finish(r, Delivery(r, "CALCULATED", Calculated(r)))
    BY <1>2 DEF SaveScore
  <2>2. \A p \in Payments :
            payment_scores'[p] = IF p = record[r].payment THEN row ELSE payment_scores[p]
    BY <1>1, <2>1 DEF ScoringInv, TypeOK
  <2>3. payment_scores' \in [Payments -> Row \cup {None}]
    BY <1>1, <2>1, SavedRow DEF ScoringInv, TypeOK
  <2>4. \A p \in Payments : payment_scores'[p] # None =>
            payment_scores'[p].result.payment = p /\ payment_scores'[p].result.order = OrderOf[p]
    BY <1>1, <2>2, SavedRow DEF ScoringInv, TypeOK
  <2>5. \A p \in Payments : payment_scores[p] # None => payment_scores'[p] = payment_scores[p]
    BY <1>2, <2>2 DEF Stored
  <2>6. row \in Row /\ row = payment_scores'[record[r].payment]
    BY <1>1, <2>2, SavedRow
  <2>7. row.result = Calculated(r) /\ row.input = args[r].context
    OBVIOUS
  <2> HIDE DEF row
  <2> QED BY <1>1, <2>1, <2>3, <2>4, <2>5, <2>6, <2>7, DeliveryStep
<1>3. CASE Stored(r) # None /\ Stored(r).input # args[r].context
  BY <1>1, <1>3, RefusalStep DEF SaveScore, Refusals, ScoringInv, TypeOK
<1>4. CASE Stored(r) # None /\ Stored(r).input = args[r].context
  <2>1. /\ payment_scores' = payment_scores
        /\ \E mode \in {"CALCULATED", "IDEMPOTENT_REPLAY"} :
               Finish(r, Delivery(r, mode, Stored(r).result))
    BY <1>4 DEF SaveScore
  <2>2. Stored(r) \in Row
    <3>1. record[r].payment \in Payments
      BY <1>1, SavedRow
    <3> QED BY <1>4, <3>1 DEF ScoringInv, TypeOK, Stored
  <2>3. PICK mode \in {"CALCULATED", "IDEMPOTENT_REPLAY"} :
            Finish(r, Delivery(r, mode, Stored(r).result))
    BY <2>1
  <2>4. pc[r] \in {"loading", "scoring"}
    BY <1>1
  <2>5. /\ payment_scores' \in [Payments -> Row \cup {None}]
        /\ \A p \in Payments : payment_scores'[p] # None =>
             payment_scores'[p].result.payment = p /\ payment_scores'[p].result.order = OrderOf[p]
    BY <2>1 DEF ScoringInv, TypeOK
  <2> QED BY <1>1, <1>4, <2>1, <2>2, <2>3, <2>4, <2>5, DeliveryStep DEF Stored
<1> QED BY <1>2, <1>3, <1>4

LEMMA PaymentMovesStep ==
    ASSUME ScoringInv, NEW p \in Payments, PaymentMoves(p)
    PROVE  ScoringInv'
<1> USE DEF ScoringInv, PaymentMoves
<1>1. TypeOK'
  BY DEF TypeOK, Successors, Statuses
<1>2. ArgsKnown' /\ Verified' /\ RecordsAreNormal' /\ AnswersComeLast'
  BY DEF ArgsKnown, Verified, VerifiedArgs, RecordsAreNormal, AnswersComeLast
<1>3. AnswersAreStored' /\ AnswersAreBound'
  BY DEF AnswersAreStored, AnswersAreBound
<1> QED BY <1>1, <1>2, <1>3

LEMMA RestartStep ==
    ASSUME ScoringInv, NEW m \in Models, Restart(m)
    PROVE  ScoringInv'
<1> USE BoundsAssumption DEF ScoringInv, Restart, provider
<1>1. TypeOK'
  BY DEF TypeOK
<1>2. ArgsKnown' /\ Verified' /\ RecordsAreNormal' /\ AnswersComeLast'
  BY DEF TypeOK, ArgsKnown, Verified, VerifiedArgs, RecordsAreNormal, AnswersComeLast, Serving
<1>3. AnswersAreStored' /\ AnswersAreBound'
  BY DEF AnswersAreStored, AnswersAreBound
<1> QED BY <1>1, <1>2, <1>3

LEMMA RequestStepStep ==
    ASSUME ScoringInv, NEW r \in Requests, RequestStep(r)
    PROVE  ScoringInv'
<1>1. CASE RefuseSignature(r) \/ LookupFails(r) \/ ScorerFails(r) \/ DatabaseBusy(r)
  BY <1>1, RefusalStep
     DEF RefuseSignature, LookupFails, ScorerFails, DatabaseBusy, provider, process,
         Refusals, ScoringInv, TypeOK
<1> QED BY <1>1, BeginStep, VerifyStep, FetchAgainStep, LoadScoreStep, SaveScoreStep
        DEF RequestStep

\* The inductive invariant holds in every reachable state.
THEOREM ScoringInvariance == Spec => []ScoringInv
<1>1. Init => ScoringInv
  BY BoundsAssumption
     DEF Init, ScoringInv, TypeOK, Args, Record, Answers, Codes, Refuse, NoArgs, NoRecord,
         Statuses, Serving, ArgsKnown, Verified, RecordsAreNormal, AnswersComeLast,
         AnswersAreStored, AnswersAreBound
<1>2. ScoringInv /\ [Next]_vars => ScoringInv'
  <2> SUFFICES ASSUME ScoringInv, [Next]_vars PROVE ScoringInv'
    OBVIOUS
  <2>1. CASE UNCHANGED vars
    BY <2>1 DEF vars, ScoringInv, TypeOK, ArgsKnown, Verified, VerifiedArgs, RecordsAreNormal,
                AnswersComeLast, AnswersAreStored, AnswersAreBound
  <2> QED BY <2>1, RequestStepStep, PaymentMovesStep, RestartStep DEF Next
<1> QED BY <1>1, <1>2, PTL DEF Spec

\* Types, and a stored score is one of its payment and of that payment's order.
THEOREM TypeCorrect == Spec => []TypeOK
<1>1. ScoringInv => TypeOK
  BY DEF ScoringInv
<1> QED BY <1>1, ScoringInvariance, PTL

\* Whatever the lookups returned, a delivered score is that of the verified
\* checkout.
THEOREM BoundAnswers == Spec => []AnswersAreBound
<1>1. ScoringInv => AnswersAreBound
  BY DEF ScoringInv
<1> QED BY <1>1, ScoringInvariance, PTL
-----------------------------------------------------------------------------
(* payment_scores is a once-only ledger of scores.                         *)

Delivered == {q \in Requests : answer[q].code = "200"}

\* A step that neither saves a score nor delivers one is a stutter.
LEMMA NothingDelivered ==
    ASSUME payment_scores' = payment_scores,
           \A r \in Requests :
               \/ answer'[r] = answer[r] /\ args'[r] = args[r]
               \/ answer[r].code # "200" /\ answer'[r].code # "200"
    PROVE  UNCHANGED Ledger!vars
<1>1. Delivered' = Delivered /\ \A r \in Delivered : Told(r)' = Told(r)
  BY DEF Delivered, Told
<1>2. {Told(r) : r \in Delivered}' = {Told(r) : r \in Delivered}
  BY <1>1
<1> QED BY <1>2 DEF Ledger!vars, Delivered

\* A request r that delivers the row of its record tells of it.
LEMMA OneDelivery ==
    ASSUME ScoringInv, ScoringInv', NEW r \in Requests, pc[r] # "done",
           args' = args, NEW a, answer' = [answer EXCEPT ![r] = a], a.code = "200"
    PROVE  {Told(q) : q \in Delivered}' = {Told(q) : q \in Delivered} \cup
               {<<a.result.payment, [input |-> args[r].context, result |-> a.result]>>}
<1>1. r \notin Delivered
  BY DEF ScoringInv, AnswersComeLast, Delivered
<1>2. \A q \in Requests : answer'[q] = IF q = r THEN a ELSE answer[q]
  BY DEF ScoringInv, TypeOK
<1>3. Delivered' = Delivered \cup {r}
  BY <1>2 DEF Delivered
<1>4. \A q \in Delivered : Told(q)' = Told(q)
  BY <1>1, <1>2 DEF Told, Delivered
<1>5. Told(r)' = <<a.result.payment, [input |-> args[r].context, result |-> a.result]>>
  BY <1>2 DEF Told
<1> QED BY <1>3, <1>4, <1>5

\* A request that has neither finished nor finishes with a score.
LEMMA NoDelivery ==
    ASSUME ScoringInv, NEW r \in Requests, NEW code \in Refusals, pc[r] # "done",
           Finish(r, Refuse(code)), UNCHANGED <<payment_scores, args>>
    PROVE  UNCHANGED Ledger!vars
<1>1. \A q \in Requests : answer'[q] = IF q = r THEN Refuse(code) ELSE answer[q]
  BY DEF ScoringInv, TypeOK, Finish
<1>2. answer[r].code # "200" /\ Refuse(code).code # "200"
  BY DEF ScoringInv, AnswersComeLast, Refuse, Refusals
<1> QED BY <1>1, <1>2, NothingDelivered

\* The delivery of a stored row, if the comparison of its ids lets it pass.
LEMMA RowDelivered ==
    ASSUME ScoringInv, ScoringInv', NEW r \in Requests, pc[r] \in {"loading", "scoring"},
           NEW mode, NEW row \in Row, row.input = args[r].context,
           row.result.payment = record[r].payment,
           Finish(r, Delivery(r, mode, row.result)), args' = args
    PROVE  {Told(q) : q \in Delivered}' \in
               {{Told(q) : q \in Delivered},
                {Told(q) : q \in Delivered} \cup {<<record[r].payment, row>>}}
<1>1. CASE Delivery(r, mode, row.result).code = "200"
  <2>1. Delivery(r, mode, row.result).result = row.result
    BY <1>1 DEF Delivery, Refuse
  <2>2. row = [input |-> args[r].context, result |-> row.result]
    BY DEF Row
  <2>3. {Told(q) : q \in Delivered}' =
            {Told(q) : q \in Delivered} \cup
                {<<row.result.payment, [input |-> args[r].context, result |-> row.result]>>}
    BY <1>1, <2>1, OneDelivery DEF Finish
  <2> QED BY <2>2, <2>3
<1>2. CASE Delivery(r, mode, row.result).code # "200"
  <2>1. Delivered' = Delivered
    BY <1>2 DEF ScoringInv, TypeOK, AnswersComeLast, Finish, Delivered
  <2>2. \A q \in Delivered : answer'[q] = answer[q]
    BY DEF ScoringInv, TypeOK, AnswersComeLast, Finish, Delivered
  <2>3. \A q \in Delivered : Told(q)' = Told(q)
    BY <2>2 DEF Told
  <2>4. {Told(q) : q \in Delivered}' = {Told(q) : q \in Delivered}
    BY <2>1, <2>3
  <2> QED BY <2>4
<1> QED BY <1>1, <1>2

\* A replay tells of a score decided earlier.
LEMMA ReplayTells ==
    ASSUME ScoringInv, ScoringInv', NEW r \in Requests, pc[r] \in {"loading", "scoring"},
           NEW mode, Stored(r) # None, Stored(r).input = args[r].context,
           Finish(r, Delivery(r, mode, Stored(r).result)), UNCHANGED <<payment_scores, args>>
    PROVE  [Ledger!Next]_(Ledger!vars)
<1>1. record[r].payment \in Payments
  BY DEF ScoringInv, RecordsAreNormal
<1>2. Stored(r) \in Row /\ Stored(r).result.payment = record[r].payment
  BY <1>1 DEF ScoringInv, TypeOK, Stored
<1>3. {Told(q) : q \in Delivered}' \in
          {{Told(q) : q \in Delivered},
           {Told(q) : q \in Delivered} \cup {<<record[r].payment, Stored(r)>>}}
  BY <1>2, RowDelivered
<1>4. PICK p \in Payments : p = record[r].payment
  BY <1>1
<1>5. UNCHANGED Ledger!vars \/ Ledger!Tell(p)
  BY <1>3, <1>4 DEF Ledger!vars, Ledger!Tell, Delivered, Stored
<1> QED BY <1>5 DEF Ledger!Next

\* A score saved where there was none is decided, and told unless refused.
LEMMA SaveDecides ==
    ASSUME ScoringInv, ScoringInv', NEW r \in Requests, SaveScore(r), Stored(r) = None
    PROVE  Ledger!Next
<1> DEFINE row == [input |-> args[r].context, result |-> Calculated(r)]
<1>1. /\ pc[r] = "scoring"
      /\ args' = args
      /\ payment_scores' = [payment_scores EXCEPT ![record[r].payment] = row]
      /\ Finish(r, Delivery(r, "CALCULATED", row.result))
  BY DEF SaveScore
<1>2. record[r].payment \in Payments /\ row \in Row /\ row.input = args[r].context
      /\ row.result.payment = record[r].payment
  BY <1>1, SavedRow
<1> HIDE DEF row
<1>3. {Told(q) : q \in Delivered}' \in
          {{Told(q) : q \in Delivered},
           {Told(q) : q \in Delivered} \cup {<<record[r].payment, row>>}}
  BY <1>1, <1>2, RowDelivered
<1>4. PICK p \in Payments, v \in Row : p = record[r].payment /\ v = row
  BY <1>2
<1>5. Ledger!Decide(p, v)
  BY <1>1, <1>3, <1>4 DEF Ledger!Decide, Delivered, Stored
<1> QED BY <1>5 DEF Ledger!Next

\* Every step decides one score, tells of one, or changes nothing of the ledger.
LEMMA LedgerStep == ScoringInv /\ ScoringInv' /\ [Next]_vars => [Ledger!Next]_(Ledger!vars)
<1> SUFFICES ASSUME ScoringInv, ScoringInv', [Next]_vars PROVE [Ledger!Next]_(Ledger!vars)
  OBVIOUS
<1>1. CASE UNCHANGED vars
  BY <1>1, NothingDelivered DEF vars
<1>2. ASSUME NEW p \in Payments, PaymentMoves(p) PROVE [Ledger!Next]_(Ledger!vars)
  BY <1>2, NothingDelivered DEF PaymentMoves
<1>3. ASSUME NEW m \in Models, Restart(m) PROVE [Ledger!Next]_(Ledger!vars)
  BY <1>3, NothingDelivered DEF Restart
<1>4. ASSUME NEW r \in Requests, RequestStep(r) PROVE [Ledger!Next]_(Ledger!vars)
  <2>1. ASSUME NEW o \in Orders, NEW p \in Payments, NEW c \in Contexts, Begin(r, o, p, c)
        PROVE  [Ledger!Next]_(Ledger!vars)
    <3>1. answer[r].code # "200" /\ answer' = answer
      BY <2>1 DEF Begin, Goto, ScoringInv, AnswersComeLast
    <3>2. \A q \in Requests : q # r => args'[q] = args[q]
      BY <2>1 DEF Begin, ScoringInv, TypeOK
    <3> QED BY <2>1, <3>1, <3>2, NothingDelivered DEF Begin
  <2>2. CASE RefuseSignature(r) \/ LookupFails(r) \/ ScorerFails(r) \/ DatabaseBusy(r)
    BY <2>2, NoDelivery
       DEF RefuseSignature, LookupFails, ScorerFails, DatabaseBusy, Refusals
  <2>3. ASSUME NEW o \in Orders, NEW p \in Payments, Verify(r, o, p)
        PROVE  [Ledger!Next]_(Ledger!vars)
    <3>1. CASE Finish(r, Refuse("401")) \/ Finish(r, Refuse("422"))
      BY <2>3, <3>1, NoDelivery DEF Verify, Refusals
    <3>2. CASE Goto(r, "fetching")
      BY <2>3, <3>2, NothingDelivered DEF Verify, Goto
    <3> QED BY <2>3, <3>1, <3>2 DEF Verify
  <2>4. ASSUME NEW p \in Payments, FetchAgain(r, p) PROVE [Ledger!Next]_(Ledger!vars)
    <3>1. CASE Normalizable(r, p)
      BY <2>4, <3>1, NothingDelivered DEF FetchAgain, Goto
    <3>2. CASE ~Normalizable(r, p)
      BY <2>4, <3>2, NoDelivery DEF FetchAgain, Refusals
    <3> QED BY <3>1, <3>2
  <2>5. CASE LoadScore(r)
    <3>1. CASE Stored(r) = None
      BY <2>5, <3>1, NothingDelivered DEF LoadScore, Goto
    <3>2. CASE Stored(r) # None /\ Stored(r).input # args[r].context
      BY <2>5, <3>2, NoDelivery DEF LoadScore, Refusals
    <3>3. CASE Stored(r) # None /\ Stored(r).input = args[r].context
      <4>1. Finish(r, Delivery(r, "IDEMPOTENT_REPLAY", Stored(r).result))
        BY <2>5, <3>3 DEF LoadScore
      <4> QED BY <2>5, <3>3, <4>1, ReplayTells DEF LoadScore
    <3> QED BY <3>1, <3>2, <3>3
  <2>6. CASE SaveScore(r)
    <3>1. CASE Stored(r) = None
      BY <2>6, <3>1, SaveDecides
    <3>2. CASE Stored(r) # None /\ Stored(r).input # args[r].context
      BY <2>6, <3>2, NoDelivery DEF SaveScore, Refusals
    <3>3. CASE Stored(r) # None /\ Stored(r).input = args[r].context
      <4>1. \E mode \in {"CALCULATED", "IDEMPOTENT_REPLAY"} :
                Finish(r, Delivery(r, mode, Stored(r).result))
        BY <2>6, <3>3 DEF SaveScore
      <4>2. PICK mode \in {"CALCULATED", "IDEMPOTENT_REPLAY"} :
                Finish(r, Delivery(r, mode, Stored(r).result))
        BY <4>1
      <4>3. pc[r] \in {"loading", "scoring"} /\ UNCHANGED <<payment_scores, args>>
        BY <2>6, <3>3 DEF SaveScore
      <4> QED BY <3>3, <4>2, <4>3, ReplayTells
    <3> QED BY <3>1, <3>2, <3>3
  <2> QED BY <1>4, <2>1, <2>2, <2>3, <2>4, <2>5, <2>6 DEF RequestStep
<1> QED BY <1>1, <1>2, <1>3, <1>4 DEF Next

\* payment_scores implements the once-only ledger: the first score of a payment
\* is final, and every score any client gets of the payment is that one.
THEOREM ScoreRefinement == Spec => ScoredOnce
<1>1. Init => Ledger!Init
  <2> SUFFICES ASSUME Init PROVE Ledger!Init
    OBVIOUS
  <2>1. \A q \in Requests : answer[q].code # "200"
    BY DEF Init, Refuse
  <2> QED BY <2>1 DEF Init, Ledger!Init
<1>2. ScoringInv /\ ScoringInv' /\ [Next]_vars => [Ledger!Next]_(Ledger!vars)
  BY LedgerStep
<1> QED BY <1>1, <1>2, ScoringInvariance, PTL DEF Spec, ScoredOnce, Ledger!Spec
-----------------------------------------------------------------------------
(* What the ledger promises, therefore, to the clients of payment_scores.  *)

\* Every score that was delivered is the one stored for its payment.
THEOREM AnswersAreDecided == Spec => []Ledger!ToldIsDecided
<1>1. ScoringInv => Ledger!ToldIsDecided
  BY DEF ScoringInv, AnswersAreStored, Told, Ledger!ToldIsDecided
<1> QED BY <1>1, ScoringInvariance, PTL

\* No two answers about a payment differ, whichever models computed them.
THEOREM ClientsAgreeOnScores == Spec => []Ledger!ClientsAgree
<1>1. ScoringInv => Ledger!ClientsAgree
  BY DEF ScoringInv, AnswersAreStored, Told, Ledger!ClientsAgree
<1> QED BY <1>1, ScoringInvariance, PTL

\* A stored score is never replaced.
THEOREM ScoresAreFinal == Spec => Ledger!DecisionsAreFinal
<1>1. ScoringInv /\ ScoringInv' /\ [Next]_vars => [Ledger!KeepsDecisions]_(Ledger!vars)
  BY LedgerStep
     DEF Ledger!Next, Ledger!Decide, Ledger!Tell, Ledger!vars, Ledger!KeepsDecisions, ScoringInv, TypeOK
<1> QED BY <1>1, ScoringInvariance, PTL DEF Spec, Ledger!DecisionsAreFinal
=============================================================================
