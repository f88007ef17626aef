-------------------------- MODULE RazorpayWebhooks --------------------------
(***************************************************************************)
(* Webhook ingestion: receive_razorpay_webhook and                         *)
(* RazorpayWebhookService.process over the webhook_events table.           *)
(*                                                                         *)
(* A worker is one server process.  The endpoint is a coroutine that, once *)
(* it has read the body, calls process without awaiting anything, so a     *)
(* worker handles one delivery at a time from the first transaction to the *)
(* answer; several workers share the database file.  A delivery touches    *)
(* the table in up to three separate transactions, and a worker may die or *)
(* find the database locked before any of them.                            *)
(*                                                                         *)
(* A body stands for the exact raw bytes of a delivery, hence also for     *)
(* their SHA-256 and for the event type inside them.                       *)
(***************************************************************************)
EXTENDS Naturals

CONSTANTS
    Workers,
    EventIds,           \* values of the X-Razorpay-Event-Id header
    IllFormedIds,       \* those EVENT_ID_PATTERN rejects
    ShortIds,           \* those it accepts and RazorpayVerifiedWebhook does not
    Bodies,
    Shape,              \* what each body parses to
    MaxInterruptions,   \* bound on crashes and lock timeouts
    None

Shapes == {"malformed", "supported", "unsupported"}

ASSUME IdsAssumption == IllFormedIds \subseteq EventIds /\ ShortIds \subseteq EventIds
ASSUME ShapeAssumption == Shape \in [Bodies -> Shapes]
ASSUME NoneAssumption == None \notin EventIds \cup Bodies
ASSUME BoundAssumption == MaxInterruptions \in Nat

VARIABLES
    webhook_events, \* the table: one row for each event id
    work,           \* the delivery each worker is handling
    acked,          \* <<event id, body>> answered with a 2xx
    fresh,          \* how many answers called an event new (duplicate = False)
    reply,          \* the latest answer
    interruptions

vars == <<webhook_events, work, acked, fresh, reply, interruptions>>

Row ==
    [status : {"ABSENT", "RECEIVED", "PROCESSED"}, content : Bodies \cup {None}]

Absent == [status |-> "ABSENT", content |-> None]

Steps == {"reserved", "known", "recovering"}

Job == [pc : Steps \cup {"idle"}, event : EventIds \cup {None}, body : Bodies \cup {None}]

Idle == [pc |-> "idle", event |-> None, body |-> None]

Accepted == {"PROCESSED", "IGNORED", "IDEMPOTENT_REPLAY"}

Replies == Accepted \cup {"none", "400", "401", "409", "500", "503"}

TypeOK ==
    /\ webhook_events \in [EventIds -> Row]
    /\ \A e \in EventIds :
         (webhook_events[e].content # None) <=> (webhook_events[e].status # "ABSENT")
    /\ work \in [Workers -> Job]
    /\ \A w \in Workers :
         work[w].pc # "idle" => work[w].event \in EventIds /\ work[w].body \in Bodies
    /\ acked \subseteq (EventIds \X Bodies)
    /\ fresh \in [EventIds -> Nat]
    /\ reply \in Replies
    /\ interruptions \in 0 .. MaxInterruptions

Init ==
    /\ webhook_events = [e \in EventIds |-> Absent]
    /\ work = [w \in Workers |-> Idle]
    /\ acked = {}
    /\ fresh = [e \in EventIds |-> 0]
    /\ reply = "none"
    /\ interruptions = 0
-----------------------------------------------------------------------------
(* parse_verified_webhook: the signature comes first, then the event id,   *)
(* then the document.                                                      *)

ParseVerdict(e, b, signed) ==
    CASE ~signed -> "401"
      [] signed /\ e \in IllFormedIds -> "400"
      [] signed /\ e \notin IllFormedIds /\ Shape[b] = "malformed" -> "400"
      [] signed /\ e \notin IllFormedIds /\ Shape[b] # "malformed" /\ e \in ShortIds -> "500"
      [] OTHER -> Shape[b]

Admitted(e, b, signed) == ParseVerdict(e, b, signed) \in {"supported", "unsupported"}

Answer(w, code) ==
    /\ work' = [work EXCEPT ![w] = Idle]
    /\ reply' = code

\* A delivery that fails verification or parsing is answered at once.
Reject(w, e, b, signed) ==
    /\ work[w] = Idle
    /\ ~Admitted(e, b, signed)
    /\ Answer(w, ParseVerdict(e, b, signed))
    /\ UNCHANGED <<webhook_events, acked, fresh, interruptions>>
-----------------------------------------------------------------------------
(* reserve_webhook_event, the first transaction.                           *)

Start(w, e, b, pc) ==
    /\ work' = [work EXCEPT ![w] = [pc |-> pc, event |-> e, body |-> b]]
    /\ UNCHANGED <<acked, fresh, reply, interruptions>>

\* Mutant of Conflicts: the content is compared once the event is processed.
ConflictsIfProcessed(e, b) ==
    webhook_events[e].status = "PROCESSED" /\ webhook_events[e].content # b

Conflicts(e, b) == webhook_events[e].status # "ABSENT" /\ webhook_events[e].content # b

\* Mutant of Known: an event counts as known once it is processed.
KnownIfProcessed(e) == webhook_events[e].status = "PROCESSED"

Known(e) == webhook_events[e].status # "ABSENT"

ReserveEvent(w, e, b, signed) ==
    /\ work[w] = Idle
    /\ Admitted(e, b, signed)
    /\ ~Known(e)
    /\ webhook_events' = [webhook_events EXCEPT ![e] = [status |-> "RECEIVED", content |-> b]]
    /\ Start(w, e, b, "reserved")

RecogniseEvent(w, e, b, signed) ==
    /\ work[w] = Idle
    /\ Admitted(e, b, signed)
    /\ Known(e)
    /\ ~Conflicts(e, b)
    /\ Start(w, e, b, "known")
    /\ UNCHANGED webhook_events

RefuseConflict(w, e, b, signed) ==
    /\ work[w] = Idle
    /\ Admitted(e, b, signed)
    /\ Conflicts(e, b)
    /\ Answer(w, "409")
    /\ UNCHANGED <<webhook_events, acked, fresh, interruptions>>

Receive(w, e, b, signed) ==
    \/ Reject(w, e, b, signed)
    \/ ReserveEvent(w, e, b, signed)
    \/ RecogniseEvent(w, e, b, signed)
    \/ RefuseConflict(w, e, b, signed)
-----------------------------------------------------------------------------
(* The rest of process.                                                    *)

Acknowledge(w, mode) ==
    /\ Answer(w, mode)
    /\ acked' = acked \cup {<<work[w].event, work[w].body>>}

\* Mutant of ReadStatus: every known event is taken for processed.
ReadStatusTrusting(w) ==
    /\ work[w].pc = "known"
    /\ Acknowledge(w, "IDEMPOTENT_REPLAY")
    /\ UNCHANGED <<webhook_events, fresh, interruptions>>

\* webhook_event_status: a processed event is a replay, a received one has
\* been left by a delivery that is still at work or was interrupted.  (Nothing
\* deletes rows, so that the status is always one of the two.)
ReadStatus(w) ==
    /\ work[w].pc = "known"
    /\ \/ /\ webhook_events[work[w].event].status = "PROCESSED"
          /\ Acknowledge(w, "IDEMPOTENT_REPLAY")
       \/ /\ webhook_events[work[w].event].status = "RECEIVED"
          /\ work' = [work EXCEPT ![w].pc = "recovering"]
          /\ UNCHANGED <<acked, reply>>
    /\ UNCHANGED <<webhook_events, fresh, interruptions>>

\* Mutant of ProcessedRow: the update changes nothing.
NotProcessedRow(row) == row

\* Mutant of ProcessedRow: the row is replaced instead of updated.
ReplacedRow(row) == [status |-> "PROCESSED", content |-> None]

ProcessedRow(row) == [row EXCEPT !.status = "PROCESSED"]

\* complete_webhook_event on behalf of the delivery that found it RECEIVED.
RecoverEvent(w) ==
    /\ work[w].pc = "recovering"
    /\ webhook_events' = [webhook_events EXCEPT ![work[w].event] = ProcessedRow(@)]
    /\ Acknowledge(w, "IDEMPOTENT_REPLAY")
    /\ UNCHANGED <<fresh, interruptions>>

\* complete_webhook_event on behalf of the delivery that reserved the event.
CompleteEvent(w) ==
    /\ work[w].pc = "reserved"
    /\ webhook_events' = [webhook_events EXCEPT ![work[w].event] = ProcessedRow(@)]
    /\ Acknowledge(w, IF Shape[work[w].body] = "supported" THEN "PROCESSED" ELSE "IGNORED")
    /\ fresh' = [fresh EXCEPT ![work[w].event] = @ + 1]
    /\ UNCHANGED interruptions
-----------------------------------------------------------------------------
(* Interruptions.                                                          *)

Interrupt(w) ==
    /\ interruptions < MaxInterruptions
    /\ work[w] # Idle
    /\ interruptions' = interruptions + 1
    /\ UNCHANGED <<webhook_events, acked, fresh>>

\* The worker dies and is started again; nobody is answered.
Crash(w) ==
    /\ Interrupt(w)
    /\ work' = [work EXCEPT ![w] = Idle]
    /\ UNCHANGED reply

\* The next transaction times out on the database lock: the OperationalError
\* is none of the errors the endpoint translates.
DatabaseBusy(w) ==
    /\ Interrupt(w)
    /\ Answer(w, "500")
-----------------------------------------------------------------------------
WorkerStep(w) == ReadStatus(w) \/ RecoverEvent(w) \/ CompleteEvent(w)

\* Whoever got no 2xx for the delivery behind a received event sends it again.
Redeliver(e) ==
    /\ webhook_events[e].status = "RECEIVED"
    /\ \E w \in Workers : Receive(w, e, webhook_events[e].content, TRUE)

Next ==
    \E w \in Workers :
        \/ \E e \in EventIds, b \in Bodies, signed \in BOOLEAN : Receive(w, e, b, signed)
        \/ WorkerStep(w)
        \/ Crash(w)
        \/ DatabaseBusy(w)

\* Workers go on with what they have begun.  Redelivery is the provider's part:
\* it repeats what was not acknowledged, and the server's accept queue gets to
\* it however busy the workers are in between.
Spec ==
    /\ Init /\ [][Next]_vars
    /\ \A w \in Workers : WF_vars(WorkerStep(w))
    /\ \A e \in EventIds : SF_vars(Redeliver(e))
-----------------------------------------------------------------------------
(* Properties.                                                             *)

\* A 2xx says stored_status = PROCESSED, for the very bytes of the delivery:
\* the row of the event is PROCESSED with that content, also when the delivery
\* was recognised while another worker was still between its transactions.
AckedIsProcessed ==
    \A eb \in acked : webhook_events[eb[1]] = [status |-> "PROCESSED", content |-> eb[2]]

\* At most one answer per event id calls the event new; all others are
\* duplicates, whoever recovers an interrupted delivery included.
NewOnlyOnce == \A e \in EventIds : fresh[e] <= 1

\* An event that was received does not stay RECEIVED: a redelivery completes
\* what a crash or a lock timeout left (test_received_event_can_recover_safely).
ReceivedIsProcessed ==
    \A e \in EventIds :
        (webhook_events[e].status = "RECEIVED") ~> (webhook_events[e].status = "PROCESSED")

\* docs/SECURITY.md:29, "unsupported signed events are recorded as ignored":
\* once such an event was acknowledged, its row is not that of a processed one.
UnsupportedIsRecordedAsIgnored ==
    \A eb \in acked :
        Shape[eb[2]] = "unsupported" => webhook_events[eb[1]].status # "PROCESSED"

Ledger == INSTANCE OnceOnly WITH
    Key <- EventIds,
    Outcome <- Bodies,
    Undecided <- None,
    outcome <- [e \in EventIds |-> webhook_events[e].content],
    told <- acked

\* The content of an event id is decided by the first delivery that reserves it
\* and never changes, and only deliveries of that content are acknowledged
\* (docs/SECURITY.md:29, a replay or a conflict).
FirstContentWins == Ledger!Spec
=============================================================================
