--------------------------- MODULE RazorpayOrders ---------------------------
(***************************************************************************)
(* Order creation under an idempotency key: create_order of                *)
(* RazorpayRiskService over the order_requests table of RazorpayStore and  *)
(* the Razorpay orders API behind RazorpayAdapter.                         *)
(*                                                                         *)
(* Each request is one HTTP call of POST /api/razorpay-test/orders, served *)
(* by a thread of the web server's pool.  A store method is one SQLite     *)
(* transaction (BEGIN IMMEDIATE), hence one step; the provider call that   *)
(* comes between two of them is not, and the provider's answer can be      *)
(* lost, late or unreadable.  The process can die at any point and takes   *)
(* every request it is serving with it, while the table and the provider   *)
(* keep what they have.                                                    *)
(***************************************************************************)
CONSTANTS
    Requests,   \* the calls clients make
    Keys,       \* values of the Idempotency-Key header
    Payloads,   \* order requests (amount, currency, receipt), up to their hash
    Orders,     \* orders the provider can create
    Unusable,   \* the orders whose currency is not INR or that have no receipt
    None

ASSUME OrdersAssumption == Unusable \subseteq Orders
ASSUME NoneAssumption == None \notin Orders \cup Payloads \cup Keys

VARIABLES
    order_requests, \* the table: one row for each key
    pc,             \* where the thread of each request is
    args,           \* key and payload of each request
    post,           \* what became of the POST /orders of each request
    order,          \* the order the provider created for that POST, if any
    answer          \* what each client was told

vars == <<order_requests, pc, args, post, order, answer>>

Row ==
    [status : {"ABSENT", "PENDING", "COMPLETED", "FAILED"},
     request_hash : Payloads \cup {None},
     order_id : Orders \cup {None}]

Absent == [status |-> "ABSENT", request_hash |-> None, order_id |-> None]

Serving == {"reserved", "waiting", "received", "failing"}

Kinds == {"CREATED", "IDEMPOTENT_REPLAY", "Conflict", "InProgress",
          "OperationFailed", "Unavailable", "InternalError"}

Answers == [kind : Kinds \cup {"none"}, order_id : Orders \cup {None}]

Say(kind) == [kind |-> kind, order_id |-> None]

TypeOK ==
    /\ order_requests \in [Keys -> Row]
    /\ \A k \in Keys :
         LET row == order_requests[k] IN
         /\ (row.order_id # None) <=> (row.status = "COMPLETED")
         /\ (row.request_hash # None) <=> (row.status # "ABSENT")
    /\ pc \in [Requests -> Serving \cup {"idle", "done", "lost", "unsettled"}]
    /\ args \in [Requests -> [key : Keys \cup {None}, payload : Payloads \cup {None}]]
    /\ post \in [Requests -> {"unsent", "sent", "created", "refused"}]
    /\ order \in [Requests -> Orders \cup {None}]
    /\ answer \in [Requests -> Answers]

Init ==
    /\ order_requests = [k \in Keys |-> Absent]
    /\ pc = [r \in Requests |-> "idle"]
    /\ args = [r \in Requests |-> [key |-> None, payload |-> None]]
    /\ post = [r \in Requests |-> "unsent"]
    /\ order = [r \in Requests |-> None]
    /\ answer = [r \in Requests |-> Say("none")]

Finish(r, a) ==
    /\ pc' = [pc EXCEPT ![r] = "done"]
    /\ answer' = [answer EXCEPT ![r] = a]
-----------------------------------------------------------------------------
(* Answers.                                                                *)

\* _order_result: a usable order is delivered in the given mode, an unusable
\* one is an error the endpoint does not translate.
OrderResult(mode, o) ==
    IF o \in Unusable THEN Say("InternalError")
                      ELSE [kind |-> mode, order_id |-> o]

\* Mutant of ReservationState: the hash of a known key is not compared.
ReservationIgnoringHash(row, p) ==
    IF row.status = "ABSENT" THEN "RESERVED" ELSE row.status

\* Mutant of ReservationState: a failed key can be reserved again.
ReservationRetryingFailed(row, p) ==
    CASE row.status \in {"ABSENT", "FAILED"} -> "RESERVED"
      [] row.status \notin {"ABSENT", "FAILED"} /\ row.request_hash # p -> "CONFLICT"
      [] OTHER -> row.status

\* reserve_order's verdict on the row it finds.
ReservationState(row, p) ==
    CASE row.status = "ABSENT" -> "RESERVED"
      [] row.status # "ABSENT" /\ row.request_hash # p -> "CONFLICT"
      [] OTHER -> row.status

\* What create_order makes of a verdict other than RESERVED.
ReservationAnswer(row, p) ==
    CASE ReservationState(row, p) = "CONFLICT"  -> Say("Conflict")
      [] ReservationState(row, p) = "PENDING"   -> Say("InProgress")
      [] ReservationState(row, p) = "FAILED"    -> Say("OperationFailed")
      [] ReservationState(row, p) = "COMPLETED" -> OrderResult("IDEMPOTENT_REPLAY", row.order_id)
-----------------------------------------------------------------------------
(* reserve_order, the first transaction of a request.                      *)

Enter(r, k, p) ==
    /\ pc[r] = "idle"
    /\ args' = [args EXCEPT ![r] = [key |-> k, payload |-> p]]
    /\ UNCHANGED <<post, order>>

\* The key is new: the row is inserted and this request must create the order.
Reserve(r, k, p) ==
    /\ Enter(r, k, p)
    /\ ReservationState(order_requests[k], p) = "RESERVED"
    /\ order_requests' = [order_requests EXCEPT
            ![k] = [status |-> "PENDING", request_hash |-> p, order_id |-> None]]
    /\ pc' = [pc EXCEPT ![r] = "reserved"]
    /\ UNCHANGED answer

\* The key is known: the request is answered from its row.
AnswerFromRow(r, k, p) ==
    /\ Enter(r, k, p)
    /\ ReservationState(order_requests[k], p) # "RESERVED"
    /\ Finish(r, ReservationAnswer(order_requests[k], p))
    /\ UNCHANGED order_requests

\* Another connection holds the database for longer than busy_timeout: the
\* OperationalError is none of the errors the endpoint translates.
ReserveBusy(r, k, p) ==
    /\ Enter(r, k, p)
    /\ Finish(r, Say("InternalError"))
    /\ UNCHANGED order_requests
-----------------------------------------------------------------------------
(* The provider call: RazorpayAdapter.create_order, one POST, no retry.    *)

SendPost(r) ==
    /\ pc[r] = "reserved"
    /\ pc' = [pc EXCEPT ![r] = "waiting"]
    /\ post' = [post EXCEPT ![r] = "sent"]
    /\ UNCHANGED <<order_requests, args, order, answer>>

\* The provider acts on the POST whether or not anybody still waits for it.
ProviderCreates(r, o) ==
    /\ post[r] = "sent"
    /\ \A s \in Requests : order[s] # o
    /\ post' = [post EXCEPT ![r] = "created"]
    /\ order' = [order EXCEPT ![r] = o]
    /\ UNCHANGED <<order_requests, pc, args, answer>>

ProviderRefuses(r) ==
    /\ post[r] = "sent"
    /\ post' = [post EXCEPT ![r] = "refused"]
    /\ UNCHANGED <<order_requests, pc, args, order, answer>>

ReceiveOrder(r) ==
    /\ pc[r] = "waiting"
    /\ post[r] = "created"
    /\ pc' = [pc EXCEPT ![r] = "received"]
    /\ UNCHANGED <<order_requests, args, post, order, answer>>

\* Every RazorpayAdapterError: no connection, a timeout whatever the provider
\* does with the POST, an HTTP error, a body that is not a valid order.
AdapterError(r) ==
    /\ pc[r] \in {"reserved", "waiting"}
    /\ pc' = [pc EXCEPT ![r] = "failing"]
    /\ UNCHANGED <<order_requests, args, post, order, answer>>
-----------------------------------------------------------------------------
(* complete_order and fail_order, the second transaction of a request.     *)

MyRow(r) == order_requests[args[r].key]

\* Mutant of CompletedRow: the order id is not stored.
CompletedWithoutOrder(row, o) == [row EXCEPT !.status = "COMPLETED"]

\* The row as complete_order leaves it.
CompletedRow(row, o) == [row EXCEPT !.status = "COMPLETED", !.order_id = o]

\* complete_order refuses the row.
CompletionRefused(r) ==
    CASE MyRow(r).status = "ABSENT" -> Say("Unavailable")
      [] MyRow(r).status # "ABSENT" /\ MyRow(r).request_hash # args[r].payload -> Say("Conflict")
      [] MyRow(r).status = "COMPLETED" /\ MyRow(r).order_id # order[r] -> Say("Conflict")
      [] MyRow(r).status = "FAILED" -> Say("Unavailable")
      [] OTHER -> Say("none")

CompleteOrder(r) ==
    /\ pc[r] = "received"
    /\ IF CompletionRefused(r) # Say("none")
         THEN /\ Finish(r, CompletionRefused(r))
              /\ UNCHANGED order_requests
         ELSE /\ Finish(r, OrderResult("CREATED", order[r]))
              /\ order_requests' = [order_requests EXCEPT
                     ![args[r].key] = CompletedRow(MyRow(r), order[r])]
    /\ UNCHANGED <<args, post, order>>

\* fail_order refuses the row.
FailureRefused(r) ==
    CASE MyRow(r).status = "ABSENT" -> Say("Unavailable")
      [] MyRow(r).status # "ABSENT" /\ MyRow(r).request_hash # args[r].payload -> Say("Conflict")
      [] MyRow(r).status = "COMPLETED" -> Say("Unavailable")
      [] OTHER -> Say("none")

\* Mutant of FailOrder: a request whose provider call failed answers without
\* recording the failure.
FailOrderUnrecorded(r) ==
    /\ pc[r] = "failing"
    /\ Finish(r, Say("Unavailable"))
    /\ UNCHANGED <<order_requests, args, post, order>>

FailOrder(r) ==
    /\ pc[r] = "failing"
    /\ IF FailureRefused(r) # Say("none")
         THEN /\ Finish(r, FailureRefused(r))
              /\ UNCHANGED order_requests
         ELSE /\ Finish(r, Say("Unavailable"))
              /\ order_requests' = [order_requests EXCEPT ![args[r].key].status = "FAILED"]
    /\ UNCHANGED <<args, post, order>>

\* The second transaction cannot start: the client gets an internal error and
\* the row stays as it is.
SettleBusy(r) ==
    /\ pc[r] \in {"received", "failing"}
    /\ pc' = [pc EXCEPT ![r] = "unsettled"]
    /\ answer' = [answer EXCEPT ![r] = Say("InternalError")]
    /\ UNCHANGED <<order_requests, args, post, order>>

\* The process dies and is started again.
Crash ==
    /\ \E r \in Requests : pc[r] \in Serving
    /\ pc' = [r \in Requests |-> IF pc[r] \in Serving THEN "lost" ELSE pc[r]]
    /\ UNCHANGED <<order_requests, args, post, order, answer>>
-----------------------------------------------------------------------------
ThreadStep(r) ==
    \/ SendPost(r)
    \/ ReceiveOrder(r)
    \/ AdapterError(r)
    \/ CompleteOrder(r)
    \/ FailOrder(r)
    \/ SettleBusy(r)

RequestStep(r) ==
    \/ \E k \in Keys, p \in Payloads :
         Reserve(r, k, p) \/ AnswerFromRow(r, k, p) \/ ReserveBusy(r, k, p)
    \/ ThreadStep(r)
    \/ \E o \in Orders : ProviderCreates(r, o)
    \/ ProviderRefuses(r)

Next == (\E r \in Requests : RequestStep(r)) \/ Crash

\* A thread that serves a request goes on: the HTTP client and SQLite both
\* time out.  Clients, the provider and crashes are under no obligation.
Spec == Init /\ [][Next]_vars /\ \A r \in Requests : WF_vars(ThreadStep(r))
-----------------------------------------------------------------------------
(* Properties.                                                             *)

SameKey(r, s) == args[r].key = args[s].key

\* However often a key is used, retried, timed out or interrupted, the
\* provider creates at most one order for it (the purpose of the
\* reservation create_order makes before its POST).
AtMostOneOrderPerKey ==
    \A r, s \in Requests :
        order[r] # None /\ order[s] # None /\ SameKey(r, s) => r = s

\* A client is told that its key conflicts only if the row of the key really
\* belongs to another payload, then and ever after: nobody who repeats his
\* own request is refused as a conflict (reserve_order, complete_order and
\* fail_order all compare the request hash).
ConflictsAreReal ==
    \A r \in Requests :
        answer[r].kind = "Conflict" =>
            order_requests[args[r].key].request_hash # args[r].payload

\* Requests that hold a reservation and no longer work on it: they died, or
\* found the database locked when they came back to settle it.
Interrupted(r) == pc[r] \in {"lost", "unsettled"}

Creator(r, k) == args[r].key = k /\ pc[r] \in Serving

\* A reservation does not stay PENDING, unless the request that holds it was
\* interrupted: create_order settles it on every other path.
ReservationSettles ==
    \A k \in Keys :
        (order_requests[k].status = "PENDING") ~>
            \/ order_requests[k].status \in {"COMPLETED", "FAILED"}
            \/ \E r \in Requests : args[r].key = k /\ Interrupted(r)

\* What razorpay_service.py:305 tells the client, "Order creation is already
\* in progress.": a request that gets this answer has, at that moment, a
\* request at work on its key.
InProgressIsTrue ==
    [][\A r \in Requests :
         answer'[r].kind = "InProgress" /\ answer[r].kind # "InProgress" =>
             \E s \in Requests : Creator(s, args'[r].key)]_vars

\* The row a client was told about, if it was given a verdict on its key: its
\* order, or a failure that needs reconciliation.  Refusals and internal errors
\* are no verdict.
Verdict(r) ==
    LET settled(status) ==
          {<<args[r].key, [status |-> status, request_hash |-> args[r].payload,
                           order_id |-> answer[r].order_id]>>}
    IN  CASE answer[r].kind \in {"CREATED", "IDEMPOTENT_REPLAY"} -> settled("COMPLETED")
          [] answer[r].kind \in {"OperationFailed", "Unavailable"} -> settled("FAILED")
          [] OTHER -> {}

Decision(k) ==
    IF order_requests[k].status \in {"COMPLETED", "FAILED"} THEN order_requests[k] ELSE Absent

Ledger == INSTANCE OnceOnly WITH
    Key <- Keys,
    Outcome <- {row \in Row : row.status \in {"COMPLETED", "FAILED"}},
    Undecided <- Absent,
    outcome <- [k \in Keys |-> Decision(k)],
    told <- UNION {Verdict(r) : r \in Requests}

\* order_requests is a once-only ledger: the first request that settles a key
\* decides its payload and its order (or its failure) for good, and every
\* verdict any client ever gets about the key, replays included, is that one.
ImplementsLedger == Ledger!Spec
=============================================================================
