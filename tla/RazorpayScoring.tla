--------------------------- MODULE RazorpayScoring ---------------------------
(***************************************************************************)
(* Scoring a paid checkout: verify_and_score_checkout of                   *)
(* RazorpayRiskService, over the payment_scores table of RazorpayStore and *)
(* the order and payment lookups of RazorpayAdapter.                       *)
(*                                                                         *)
(* Each request is one HTTP call, served by a thread.  It looks its payment*)
(* up twice, first to verify it and then to score it; the payment may move *)
(* on at the provider in between, and the adapter checks the shape of the  *)
(* record it gets and not whose record it is.  load_payment_score and      *)
(* save_payment_score are separate transactions, with the scoring model at *)
(* work between them.                                                      *)
(***************************************************************************)
EXTENDS Naturals

CONSTANTS
    Requests,
    Payments,
    Orders,
    OrderOf,        \* the order each payment pays, None for a payment of no order
    NotCardOrInr,   \* payments by another method or in another currency
    WrongAmount,    \* payments whose amount is not that of their order
    Contexts,       \* capture-time merchant contexts, up to the scoring input
    TooLate,        \* contexts observed after the payment (feature_as_of)
    Models,         \* the risk models that can be deployed
    MaxMisroutes,   \* bound on lookups answered with another record
    MaxRestarts,    \* bound on restarts
    None

ASSUME PaymentsAssumption ==
    /\ OrderOf \in [Payments -> Orders \cup {None}]
    /\ NotCardOrInr \subseteq Payments
    /\ WrongAmount \subseteq Payments
ASSUME ContextsAssumption == TooLate \subseteq Contexts
ASSUME NoneAssumption == None \notin Payments \cup Orders \cup Contexts \cup Models
ASSUME BoundsAssumption == MaxMisroutes \in Nat /\ MaxRestarts \in Nat

VARIABLES
    payment_scores, \* the table: one row for each payment
    status,         \* the status of each payment at the provider
    pc,
    args,           \* what each request asks for
    record,         \* the payment record a request scores
    answer,         \* what each client was told
    model,          \* the deployed model
    misroutes,
    restarts

vars == <<payment_scores, status, pc, args, record, answer, model, misroutes, restarts>>

provider == <<status, misroutes>>
process == <<model, restarts>>

\* A payment that fails is never paid and stays "created" here.
Statuses == {"created", "authorized", "captured", "refunded"}

Paid == {"authorized", "captured"}

\* RazorpayPaymentRiskResult without its delivery mode.
Result ==
    [payment : Payments, order : Orders, provider_status : Paid, model : Models]

\* A row without a payment id is no row; its input is the context, since the
\* time and amount of the scoring payload are the payment's.
Row == [input : Contexts, result : Result]

ASSUME RowAssumption == None \notin Row

Args == [order : Orders \cup {None}, payment : Payments \cup {None},
         context : Contexts \cup {None}]

Record == [payment : Payments \cup {None}, provider_status : Statuses]

Serving == {"verifying", "fetching", "loading", "scoring"}

Codes == {"200", "401", "409", "422", "500", "503"}

Answers == [code : Codes \cup {"none"}, mode : {"CALCULATED", "IDEMPOTENT_REPLAY", "none"},
            result : Result \cup {None}]

Refuse(code) == [code |-> code, mode |-> "none", result |-> None]

TypeOK ==
    /\ payment_scores \in [Payments -> Row \cup {None}]
    /\ \A p \in Payments : payment_scores[p] # None =>
         /\ payment_scores[p].result.payment = p
         /\ payment_scores[p].result.order = OrderOf[p]
    /\ status \in [Payments -> Statuses]
    /\ pc \in [Requests -> Serving \cup {"idle", "done", "lost"}]
    /\ args \in [Requests -> Args]
    /\ record \in [Requests -> Record]
    /\ answer \in [Requests -> Answers]
    /\ model \in Models
    /\ misroutes \in 0 .. MaxMisroutes
    /\ restarts \in 0 .. MaxRestarts

NoArgs == [order |-> None, payment |-> None, context |-> None]

NoRecord == [payment |-> None, provider_status |-> "created"]

Init ==
    /\ payment_scores = [p \in Payments |-> None]
    /\ status = [p \in Payments |-> "created"]
    /\ pc = [r \in Requests |-> "idle"]
    /\ args = [r \in Requests |-> NoArgs]
    /\ record = [r \in Requests |-> NoRecord]
    /\ answer = [r \in Requests |-> Refuse("none")]
    /\ model \in Models
    /\ misroutes = 0
    /\ restarts = 0

Goto(r, step) ==
    /\ pc' = [pc EXCEPT ![r] = step]
    /\ UNCHANGED answer

Finish(r, a) ==
    /\ pc' = [pc EXCEPT ![r] = "done"]
    /\ answer' = [answer EXCEPT ![r] = a]
-----------------------------------------------------------------------------
(* The provider.                                                           *)

Successors(s) ==
    CASE s = "created"    -> {"authorized"}
      [] s = "authorized" -> {"captured", "refunded"}
      [] s = "captured"   -> {"refunded"}
      [] OTHER            -> {}

PaymentMoves(p) ==
    /\ \E s \in Successors(status[p]) : status' = [status EXCEPT ![p] = s]
    /\ UNCHANGED <<payment_scores, pc, args, record, answer, model, misroutes, restarts>>

\* A lookup returns a record, of any status the payment has by then; wrong says
\* that it is not the record asked for.
Lookup(wrong) ==
    /\ wrong => misroutes < MaxMisroutes
    /\ misroutes' = IF wrong THEN misroutes + 1 ELSE misroutes
    /\ UNCHANGED status
-----------------------------------------------------------------------------
(* verify_checkout_payment.                                                *)

\* The signature is checked before anything else, and only the holder of the key
\* signs: an authentic checkout names a paid payment and its order.
Begin(r, o, p, c) ==
    /\ pc[r] = "idle"
    /\ OrderOf[p] = o /\ status[p] \in Paid
    /\ args' = [args EXCEPT ![r] = [order |-> o, payment |-> p, context |-> c]]
    /\ Goto(r, "verifying")
    /\ UNCHANGED <<payment_scores, record, provider, process>>

\* Of a checkout nobody signed, the request remembers nothing.
RefuseSignature(r) ==
    /\ pc[r] = "idle"
    /\ Finish(r, Refuse("401"))
    /\ UNCHANGED <<payment_scores, args, record, provider, process>>

Eligible(p) == p \notin NotCardOrInr \cup WrongAmount /\ status[p] \in Paid

\* The records fetched, of order o and payment p, are those of the request and
\* belong together.
Bound(r, o, p) ==
    /\ o = args[r].order
    /\ p = args[r].payment
    /\ OrderOf[p] = args[r].order

\* fetch_order and fetch_payment; an order's record does not change.
Verify(r, o, p) ==
    /\ pc[r] = "verifying"
    /\ Lookup(o # args[r].order \/ p # args[r].payment)
    /\ \/ /\ ~Bound(r, o, p)
          /\ Finish(r, Refuse("401"))
       \/ /\ Bound(r, o, p)
          /\ ~Eligible(p)
          /\ Finish(r, Refuse("422"))
       \/ /\ Bound(r, o, p)
          /\ Eligible(p)
          /\ Goto(r, "fetching")
    /\ UNCHANGED <<payment_scores, args, record, process>>
-----------------------------------------------------------------------------
(* score_payment.                                                          *)

\* normalize_razorpay_payment.
Normalizable(r, p) ==
    /\ p \notin NotCardOrInr
    /\ status[p] \in Paid
    /\ OrderOf[p] # None
    /\ args[r].context \notin TooLate

FetchAgain(r, p) ==
    /\ pc[r] = "fetching"
    /\ Lookup(p # args[r].payment)
    /\ IF Normalizable(r, p)
         THEN /\ record' = [record EXCEPT
                     ![r] = [payment |-> p, provider_status |-> status[p]]]
              /\ Goto(r, "loading")
         ELSE /\ Finish(r, Refuse("422"))
              /\ UNCHANGED record
    /\ UNCHANGED <<payment_scores, args, process>>

\* A lookup fails: no connection, a timeout, an HTTP error, a malformed record.
LookupFails(r) ==
    /\ pc[r] \in {"verifying", "fetching"}
    /\ Finish(r, Refuse("503"))
    /\ UNCHANGED <<payment_scores, args, record, provider, process>>

Stored(r) == payment_scores[record[r].payment]

\* Mutant of Delivery: the result is delivered without the final comparison.
DeliveryUnbound(r, mode, result) == [code |-> "200", mode |-> mode, result |-> result]

\* verify_and_score_checkout's last comparison of what was scored with what was
\* verified.
Delivery(r, mode, result) ==
    IF result.order = args[r].order /\ result.payment = args[r].payment
      THEN [code |-> "200", mode |-> mode, result |-> result]
      ELSE Refuse("401")

LoadScore(r) ==
    /\ pc[r] = "loading"
    /\ CASE Stored(r) = None -> Goto(r, "scoring")
         [] Stored(r) # None /\ Stored(r).input # args[r].context -> Finish(r, Refuse("409"))
         [] Stored(r) # None /\ Stored(r).input = args[r].context ->
              Finish(r, Delivery(r, "IDEMPOTENT_REPLAY", Stored(r).result))
    /\ UNCHANGED <<payment_scores, args, record, provider, process>>

\* The scorer cannot score (RiskScoringError).
ScorerFails(r) ==
    /\ pc[r] = "scoring"
    /\ Finish(r, Refuse("503"))
    /\ UNCHANGED <<payment_scores, args, record, provider, process>>

\* Mutant of Calculated: the result carries the ids of the request.
CalculatedForRequest(r) ==
    [payment |-> args[r].payment, order |-> args[r].order,
     provider_status |-> record[r].provider_status, model |-> model]

Calculated(r) ==
    [payment |-> record[r].payment, order |-> OrderOf[record[r].payment],
     provider_status |-> record[r].provider_status, model |-> model]

\* Mutant of SaveScore: the row is written without looking for another one
\* (INSERT OR REPLACE), as if load_payment_score had settled the question.
SaveScoreBlindly(r) ==
    /\ pc[r] = "scoring"
    /\ payment_scores' = [payment_scores EXCEPT
           ![record[r].payment] = [input |-> args[r].context, result |-> Calculated(r)]]
    /\ Finish(r, Delivery(r, "CALCULATED", Calculated(r)))
    /\ UNCHANGED <<args, record, provider, process>>

\* The score is computed and saved; if another request has saved one since,
\* that one is delivered, as a replay unless it is the same.
SaveScore(r) ==
    /\ pc[r] = "scoring"
    /\ CASE Stored(r) = None ->
              /\ payment_scores' = [payment_scores EXCEPT
                     ![record[r].payment] =
                         [input |-> args[r].context, result |-> Calculated(r)]]
              /\ Finish(r, Delivery(r, "CALCULATED", Calculated(r)))
         [] Stored(r) # None /\ Stored(r).input # args[r].context ->
              Finish(r, Refuse("409")) /\ UNCHANGED payment_scores
         [] Stored(r) # None /\ Stored(r).input = args[r].context ->
              /\ Finish(r, Delivery(r,
                     IF Stored(r).result = Calculated(r) THEN "CALCULATED" ELSE "IDEMPOTENT_REPLAY",
                     Stored(r).result))
              /\ UNCHANGED payment_scores
    /\ UNCHANGED <<args, record, provider, process>>

\* The database stays locked for longer than busy_timeout.
DatabaseBusy(r) ==
    /\ pc[r] \in {"loading", "scoring"}
    /\ Finish(r, Refuse("500"))
    /\ UNCHANGED <<payment_scores, args, record, provider, process>>

\* The process stops, taking its requests with it, and starts with a model of
\* its own.
Restart(m) ==
    /\ restarts < MaxRestarts
    /\ restarts' = restarts + 1
    /\ model' = m
    /\ pc' = [r \in Requests |-> IF pc[r] \in Serving THEN "lost" ELSE pc[r]]
    /\ UNCHANGED <<payment_scores, args, record, answer, provider>>
-----------------------------------------------------------------------------
RequestStep(r) ==
    \/ \E o \in Orders, p \in Payments, c \in Contexts : Begin(r, o, p, c)
    \/ RefuseSignature(r)
    \/ \E o \in Orders, p \in Payments : Verify(r, o, p)
    \/ \E p \in Payments : FetchAgain(r, p)
    \/ LookupFails(r)
    \/ LoadScore(r)
    \/ ScorerFails(r)
    \/ SaveScore(r)
    \/ DatabaseBusy(r)

Next ==
    \/ \E r \in Requests : RequestStep(r)
    \/ \E p \in Payments : PaymentMoves(p)
    \/ \E m \in Models : Restart(m)

Spec == Init /\ [][Next]_vars
-----------------------------------------------------------------------------
(* Properties.                                                             *)

\* Every score that is delivered is for the order and the payment of the
\* checkout whose signature was verified, and was taken of an
\* eligible payment under a context known at payment time, whatever the two
\* lookups returned and whichever request had computed it.
AnswersAreBound ==
    \A r \in Requests :
        LET result == answer[r].result
        IN  answer[r].code = "200" =>
                /\ result.order = args[r].order
                /\ result.payment = args[r].payment
                /\ OrderOf[result.payment] = result.order
                /\ result.payment \notin NotCardOrInr \cup WrongAmount
                /\ args[r].context \notin TooLate

Told(r) == <<answer[r].result.payment, [input |-> args[r].context, result |-> answer[r].result]>>

Ledger == INSTANCE OnceOnly WITH
    Key <- Payments,
    Outcome <- Row,
    Undecided <- None,
    outcome <- payment_scores,
    told <- {Told(r) : r \in {q \in Requests : answer[q].code = "200"}}

\* A payment is scored once: the first score saved is final, and every answer,
\* calculated or replayed, by this model or by a later one, is that score for
\* that input (test_payment_score_is_idempotently_replayed).
ScoredOnce == Ledger!Spec

\* razorpay_service.py:524, "Authenticate the Checkout response before
\* allowing the Test Mode payment to enter risk scoring": a payment has a score
\* only if somebody presented a signed checkout of it.
OnlyVerifiedPaymentsAreScored ==
    \A p \in Payments : payment_scores[p] # None =>
        \E r \in Requests : args[r].payment = p
=============================================================================
