----------------------- MODULE RazorpayWebhooksProofs -----------------------
(***************************************************************************)
(* Theorems about RazorpayWebhooks, for any number of workers, events and  *)
(* bodies and any number of interruptions.                                 *)
(***************************************************************************)
EXTENDS RazorpayWebhooks, TLAPS

Status(e) == webhook_events[e].status
Content(e) == webhook_events[e].content

\* A worker that handles a delivery finds its content in the row of its event.
JobsHaveRows ==
    \A w \in Workers : work[w].pc # "idle" => Content(work[w].event) = work[w].body

\* A reservation belongs to one worker, which has not called the event new yet.
OneReserver ==
    \A w, x \in Workers :
        /\ work[w].pc = "reserved" => fresh[work[w].event] = 0
        /\ work[w].pc = "reserved" /\ work[x].pc = "reserved"
           /\ work[w].event = work[x].event => w = x

\* Nobody has called an unknown event new.
UnknownIsNotNew == \A e \in EventIds : Status(e) = "ABSENT" => fresh[e] = 0

WebhooksInv ==
    /\ TypeOK
    /\ JobsHaveRows
    /\ OneReserver
    /\ UnknownIsNotNew
    /\ NewOnlyOnce
    /\ AckedIsProcessed
-----------------------------------------------------------------------------

\* A delivery that is answered without touching the table.
LEMMA RefusalStep ==
    ASSUME WebhooksInv, NEW w \in Workers, NEW code \in Replies, Answer(w, code),
           UNCHANGED <<webhook_events, acked, fresh>>,
           interruptions' \in 0 .. MaxInterruptions
    PROVE  WebhooksInv'
<1> USE DEF WebhooksInv, Answer, Idle
<1>1. TypeOK'
  BY DEF TypeOK, Job
<1>2. JobsHaveRows'
  BY DEF TypeOK, JobsHaveRows, Content
<1>3. OneReserver'
  BY DEF TypeOK, OneReserver
<1>4. UnknownIsNotNew' /\ NewOnlyOnce' /\ AckedIsProcessed'
  BY DEF UnknownIsNotNew, Status, NewOnlyOnce, AckedIsProcessed
<1> QED BY <1>1, <1>2, <1>3, <1>4

LEMMA ReserveEventStep ==
    ASSUME WebhooksInv, NEW w \in Workers, NEW e \in EventIds, NEW b \in Bodies,
           NEW signed \in BOOLEAN, ReserveEvent(w, e, b, signed)
    PROVE  WebhooksInv'
<1> USE NoneAssumption DEF WebhooksInv, ReserveEvent, Start, Known
<1>1. TypeOK'
  BY DEF TypeOK, Job, Steps, Row
<1>2. \A x \in Workers : work[x].pc # "idle" => work[x].event # e
  BY DEF TypeOK, JobsHaveRows, Content
<1>3. JobsHaveRows'
  BY <1>2 DEF TypeOK, JobsHaveRows, Content, Job
<1>4. OneReserver'
  BY <1>2 DEF TypeOK, OneReserver, UnknownIsNotNew, Status
<1>5. UnknownIsNotNew' /\ NewOnlyOnce'
  BY DEF TypeOK, UnknownIsNotNew, Status, NewOnlyOnce
<1>6. AckedIsProcessed'
  <2> SUFFICES ASSUME NEW eb \in acked
               PROVE  webhook_events'[eb[1]] = webhook_events[eb[1]]
    BY DEF AckedIsProcessed
  <2>1. webhook_events[eb[1]] = [status |-> "PROCESSED", content |-> eb[2]]
    BY DEF AckedIsProcessed
  <2>2. eb[1] # e
    <3> HIDE DEF WebhooksInv
    <3> QED BY <2>1
  <2> QED BY <2>2 DEF TypeOK
<1> QED BY <1>1, <1>3, <1>4, <1>5, <1>6

LEMMA RecogniseEventStep ==
    ASSUME WebhooksInv, NEW w \in Workers, NEW e \in EventIds, NEW b \in Bodies,
           NEW signed \in BOOLEAN, RecogniseEvent(w, e, b, signed)
    PROVE  WebhooksInv'
<1> USE DEF WebhooksInv, RecogniseEvent, Start, Known, Conflicts
<1>1. TypeOK'
  BY DEF TypeOK, Job, Steps
<1>2. JobsHaveRows'
  BY DEF TypeOK, JobsHaveRows, Content
<1>3. OneReserver'
  BY DEF TypeOK, OneReserver
<1>4. UnknownIsNotNew' /\ NewOnlyOnce' /\ AckedIsProcessed'
  BY DEF UnknownIsNotNew, Status, NewOnlyOnce, AckedIsProcessed
<1> QED BY <1>1, <1>2, <1>3, <1>4

LEMMA ReadStatusStep ==
    ASSUME WebhooksInv, NEW w \in Workers, ReadStatus(w)
    PROVE  WebhooksInv'
<1> USE DEF WebhooksInv, ReadStatus
<1>1. CASE Status(work[w].event) = "PROCESSED" /\ Acknowledge(w, "IDEMPOTENT_REPLAY")
  <2> USE <1>1 DEF Acknowledge, Answer, Idle, Status
  <2>1. work[w].event \in EventIds /\ work[w].body \in Bodies
    BY DEF TypeOK
  <2>2. TypeOK'
    BY <2>1 DEF TypeOK, Job, Replies, Accepted
  <2>3. JobsHaveRows'
    BY DEF TypeOK, JobsHaveRows, Content
  <2>4. OneReserver'
    BY DEF TypeOK, OneReserver
  <2>5. UnknownIsNotNew' /\ NewOnlyOnce'
    BY DEF UnknownIsNotNew, NewOnlyOnce
  <2>6. webhook_events[work[w].event] = [status |-> "PROCESSED", content |-> work[w].body]
    BY <2>1 DEF TypeOK, JobsHaveRows, Content, Row
  <2>7. AckedIsProcessed'
    <3> SUFFICES ASSUME NEW eb \in acked'
                 PROVE  webhook_events[eb[1]] = [status |-> "PROCESSED", content |-> eb[2]]
      BY DEF AckedIsProcessed
    <3>1. CASE eb = <<work[w].event, work[w].body>>
      BY <2>6, <3>1
    <3>2. CASE eb \in acked
      BY <3>2 DEF AckedIsProcessed
    <3> QED BY <3>1, <3>2
  <2> QED BY <2>2, <2>3, <2>4, <2>5, <2>7
<1>2. CASE work' = [work EXCEPT ![w].pc = "recovering"] /\ UNCHANGED <<acked, reply>>
  <2>1. TypeOK'
    BY <1>2 DEF TypeOK, Job, Steps
  <2>2. JobsHaveRows'
    BY <1>2 DEF TypeOK, JobsHaveRows, Content, Job
  <2>3. OneReserver'
    BY <1>2 DEF TypeOK, OneReserver, Job
  <2>4. UnknownIsNotNew' /\ NewOnlyOnce' /\ AckedIsProcessed'
    BY <1>2 DEF UnknownIsNotNew, Status, NewOnlyOnce, AckedIsProcessed
  <2> QED BY <2>1, <2>2, <2>3, <2>4
<1> QED BY <1>1, <1>2 DEF Status

\* What complete_webhook_event does to the table, and to what is known of it.
LEMMA CompletionStep ==
    ASSUME WebhooksInv, NEW w \in Workers, NEW mode \in Accepted, work[w].pc # "idle",
           webhook_events' =
               [webhook_events EXCEPT ![work[w].event] = ProcessedRow(@)],
           Acknowledge(w, mode), UNCHANGED interruptions
    PROVE  /\ work[w].event \in EventIds
           /\ fresh' \in [EventIds -> Nat] => TypeOK'
           /\ JobsHaveRows'
           /\ AckedIsProcessed'
           /\ \A e \in EventIds : Status(e)' = "ABSENT" => Status(e) = "ABSENT"
<1> USE NoneAssumption DEF WebhooksInv, Acknowledge, Answer, Idle
<1>1. work[w].event \in EventIds /\ work[w].body \in Bodies
  BY DEF TypeOK
<1>2. \A e \in EventIds :
          webhook_events'[e] =
              IF e = work[w].event THEN [status |-> "PROCESSED", content |-> work[w].body]
                                   ELSE webhook_events[e]
  BY <1>1 DEF TypeOK, Row, ProcessedRow, JobsHaveRows, Content
<1>3. webhook_events' \in [EventIds -> Row]
  BY <1>1 DEF TypeOK, Row, ProcessedRow
<1>4. fresh' \in [EventIds -> Nat] => TypeOK'
  BY <1>1, <1>2, <1>3 DEF TypeOK, Job, Replies
<1>5. JobsHaveRows'
  BY <1>2 DEF TypeOK, JobsHaveRows, Content
<1>6. AckedIsProcessed'
  <2> SUFFICES ASSUME NEW eb \in acked'
               PROVE  webhook_events'[eb[1]] = [status |-> "PROCESSED", content |-> eb[2]]
    BY DEF AckedIsProcessed, TypeOK
  <2>1. CASE eb = <<work[w].event, work[w].body>>
    BY <1>1, <1>2, <2>1
  <2>2. CASE eb \in acked
    <3>1. /\ eb[1] \in EventIds
          /\ webhook_events[eb[1]] = [status |-> "PROCESSED", content |-> eb[2]]
      BY <2>2 DEF TypeOK, AckedIsProcessed
    <3>2. CASE eb[1] = work[w].event
      <4>1. eb[2] = work[w].body
        BY <3>1, <3>2 DEF JobsHaveRows, Content
      <4> QED BY <1>2, <3>1, <3>2, <4>1
    <3> QED BY <1>2, <3>1, <3>2
  <2> QED BY <2>1, <2>2
<1>7. \A e \in EventIds : Status(e)' = "ABSENT" => Status(e) = "ABSENT"
  BY <1>2 DEF Status
<1> QED BY <1>1, <1>4, <1>5, <1>6, <1>7

LEMMA RecoverEventStep ==
    ASSUME WebhooksInv, NEW w \in Workers, RecoverEvent(w)
    PROVE  WebhooksInv'
<1> USE DEF RecoverEvent
<1>1. /\ fresh' \in [EventIds -> Nat] => TypeOK'
      /\ JobsHaveRows'
      /\ AckedIsProcessed'
      /\ \A e \in EventIds : Status(e)' = "ABSENT" => Status(e) = "ABSENT"
  BY CompletionStep DEF Accepted
<1>2. OneReserver'
  BY DEF WebhooksInv, OneReserver, TypeOK, Acknowledge, Answer, Idle
<1> QED BY <1>1, <1>2 DEF WebhooksInv, TypeOK, UnknownIsNotNew, NewOnlyOnce

LEMMA CompleteEventStep ==
    ASSUME WebhooksInv, NEW w \in Workers, CompleteEvent(w)
    PROVE  WebhooksInv'
<1> USE DEF CompleteEvent
<1>1. /\ work[w].event \in EventIds
      /\ fresh' \in [EventIds -> Nat] => TypeOK'
      /\ JobsHaveRows'
      /\ AckedIsProcessed'
      /\ \A e \in EventIds : Status(e)' = "ABSENT" => Status(e) = "ABSENT"
  BY CompletionStep DEF Accepted
<1>2. /\ fresh' \in [EventIds -> Nat]
      /\ \A e \in EventIds : fresh'[e] = IF e = work[w].event THEN 1 ELSE fresh[e]
  BY <1>1 DEF WebhooksInv, TypeOK, OneReserver
<1>3. webhook_events'[work[w].event].status = "PROCESSED"
  <2>1. webhook_events'[work[w].event] = ProcessedRow(webhook_events[work[w].event])
    BY <1>1 DEF WebhooksInv, TypeOK
  <2>2. webhook_events[work[w].event] \in Row
    BY <1>1 DEF WebhooksInv, TypeOK
  <2> QED BY <2>1, <2>2 DEF ProcessedRow, Row
<1>4. OneReserver'
  BY <1>2 DEF WebhooksInv, OneReserver, TypeOK, Acknowledge, Answer, Idle
<1>5. UnknownIsNotNew'
  <2> SUFFICES ASSUME NEW e \in EventIds, Status(e)' = "ABSENT" PROVE fresh'[e] = 0
    BY DEF UnknownIsNotNew
  <2>1. e # work[w].event
    BY <1>3 DEF Status
  <2>2. Status(e) = "ABSENT"
    BY <1>1
  <2> QED BY <1>2, <2>1, <2>2 DEF WebhooksInv, UnknownIsNotNew
<1>6. NewOnlyOnce'
  BY <1>2 DEF WebhooksInv, NewOnlyOnce
<1> QED BY <1>1, <1>2, <1>4, <1>5, <1>6 DEF WebhooksInv

LEMMA CrashStep ==
    ASSUME WebhooksInv, NEW w \in Workers, Crash(w)
    PROVE  WebhooksInv'
<1> USE BoundAssumption DEF WebhooksInv, Crash, Interrupt, Idle
<1>1. TypeOK'
  BY DEF TypeOK, Job
<1>2. JobsHaveRows'
  BY DEF TypeOK, JobsHaveRows, Content
<1>3. OneReserver'
  BY DEF TypeOK, OneReserver
<1>4. UnknownIsNotNew' /\ NewOnlyOnce' /\ AckedIsProcessed'
  BY DEF UnknownIsNotNew, Status, NewOnlyOnce, AckedIsProcessed
<1> QED BY <1>1, <1>2, <1>3, <1>4

LEMMA ReceiveStep ==
    ASSUME WebhooksInv, NEW w \in Workers, NEW e \in EventIds, NEW b \in Bodies,
           NEW signed \in BOOLEAN, Receive(w, e, b, signed)
    PROVE  WebhooksInv'
<1>1. CASE Reject(w, e, b, signed)
  <2>1. ParseVerdict(e, b, signed) \in Replies
    BY <1>1, ShapeAssumption DEF Reject, Admitted, ParseVerdict, Replies, Shapes
  <2> QED BY <1>1, <2>1, RefusalStep DEF Reject, WebhooksInv, TypeOK
<1>2. CASE RefuseConflict(w, e, b, signed)
  BY <1>2, RefusalStep DEF RefuseConflict, Replies, WebhooksInv, TypeOK
<1> QED BY <1>1, <1>2, ReserveEventStep, RecogniseEventStep DEF Receive

\* The inductive invariant holds in every reachable state.
THEOREM WebhooksInvariance == Spec => []WebhooksInv
<1>1. Init => WebhooksInv
  BY NoneAssumption, BoundAssumption
     DEF Init, WebhooksInv, TypeOK, Row, Absent, Job, Idle, Replies, JobsHaveRows,
         OneReserver, UnknownIsNotNew, NewOnlyOnce, AckedIsProcessed
<1>2. WebhooksInv /\ [Next]_vars => WebhooksInv'
  <2> SUFFICES ASSUME WebhooksInv, [Next]_vars PROVE WebhooksInv'
    OBVIOUS
  <2>1. CASE UNCHANGED vars
    BY <2>1 DEF vars, WebhooksInv, TypeOK, JobsHaveRows, Content, OneReserver,
                UnknownIsNotNew, Status, NewOnlyOnce, AckedIsProcessed
  <2>2. ASSUME NEW w \in Workers, NEW e \in EventIds, NEW b \in Bodies,
               NEW signed \in BOOLEAN, Receive(w, e, b, signed)
        PROVE  WebhooksInv'
    BY <2>2, ReceiveStep
  <2>3. ASSUME NEW w \in Workers, WorkerStep(w) PROVE WebhooksInv'
    BY <2>3, ReadStatusStep, RecoverEventStep, CompleteEventStep DEF WorkerStep
  <2>4. ASSUME NEW w \in Workers, DatabaseBusy(w) PROVE WebhooksInv'
    BY <2>4, RefusalStep, BoundAssumption
       DEF DatabaseBusy, Interrupt, Replies, WebhooksInv, TypeOK
  <2> QED BY <2>1, <2>2, <2>3, <2>4, CrashStep DEF Next
<1> QED BY <1>1, <1>2, PTL DEF Spec

\* Types, and a row has content exactly when it is there.
THEOREM TypeCorrect == Spec => []TypeOK
<1>1. WebhooksInv => TypeOK
  BY DEF WebhooksInv
<1> QED BY <1>1, WebhooksInvariance, PTL

\* An acknowledged event is processed, with the bytes that were acknowledged.
THEOREM AcknowledgedIsProcessed == Spec => []AckedIsProcessed
<1>1. WebhooksInv => AckedIsProcessed
  BY DEF WebhooksInv
<1> QED BY <1>1, WebhooksInvariance, PTL

\* An event is called new at most once.
THEOREM CalledNewOnce == Spec => []NewOnlyOnce
<1>1. WebhooksInv => NewOnlyOnce
  BY DEF WebhooksInv
<1> QED BY <1>1, WebhooksInvariance, PTL
-----------------------------------------------------------------------------
(* webhook_events is a once-only ledger of contents: a reservation decides, *)
(* an acknowledgement tells.                                               *)

LEMMA AcknowledgeTells ==
    ASSUME WebhooksInv, NEW w \in Workers, NEW mode \in Accepted, work[w].pc # "idle",
           Acknowledge(w, mode),
           \/ webhook_events' = webhook_events
           \/ webhook_events' =
                  [webhook_events EXCEPT ![work[w].event] = ProcessedRow(@)]
    PROVE  [Ledger!Next]_(Ledger!vars)
<1>1. /\ work[w].event \in EventIds
      /\ work[w].body \in Bodies
      /\ Content(work[w].event) = work[w].body
  BY DEF WebhooksInv, TypeOK, JobsHaveRows
<1>2. \A e \in EventIds : Content(e)' = Content(e)
  BY <1>1 DEF WebhooksInv, TypeOK, Row, ProcessedRow, Content
<1>3. acked' = acked \cup {<<work[w].event, work[w].body>>}
  BY DEF Acknowledge
<1>4. Ledger!Tell(work[w].event)
  BY <1>1, <1>2, <1>3, NoneAssumption DEF Ledger!Tell, Content
<1> QED BY <1>1, <1>4 DEF Ledger!Next

LEMMA LedgerStep == WebhooksInv /\ [Next]_vars => [Ledger!Next]_(Ledger!vars)
<1> SUFFICES ASSUME WebhooksInv, [Next]_vars PROVE [Ledger!Next]_(Ledger!vars)
  OBVIOUS
<1>1. ASSUME NEW w \in Workers, NEW e \in EventIds, NEW b \in Bodies,
             NEW signed \in BOOLEAN, ReserveEvent(w, e, b, signed)
      PROVE  [Ledger!Next]_(Ledger!vars)
  <2>1. Content(e) = None /\ acked' = acked
    BY <1>1 DEF ReserveEvent, Start, Known, WebhooksInv, TypeOK, Content
  <2>2. \A f \in EventIds : Content(f)' = IF f = e THEN b ELSE Content(f)
    BY <1>1 DEF ReserveEvent, WebhooksInv, TypeOK, Content
  <2>3. Ledger!Decide(e, b)
    BY <2>1, <2>2 DEF Ledger!Decide, Content
  <2> QED BY <2>3 DEF Ledger!Next
<1>2. ASSUME NEW w \in Workers, WorkerStep(w) PROVE [Ledger!Next]_(Ledger!vars)
  <2>1. CASE work[w].pc = "known" /\ UNCHANGED <<webhook_events, acked>>
    BY <2>1 DEF Ledger!vars
  <2>2. CASE Acknowledge(w, "IDEMPOTENT_REPLAY") /\ ReadStatus(w)
    BY <2>2, AcknowledgeTells DEF ReadStatus, Accepted
  <2>3. CASE RecoverEvent(w)
    BY <2>3, AcknowledgeTells DEF RecoverEvent, Accepted
  <2>4. CASE CompleteEvent(w)
    BY <2>4, AcknowledgeTells DEF CompleteEvent, Accepted
  <2> QED BY <1>2, <2>1, <2>2, <2>3, <2>4 DEF WorkerStep, ReadStatus
<1>3. CASE UNCHANGED <<webhook_events, acked>>
  BY <1>3 DEF Ledger!vars
<1> QED BY <1>1, <1>2, <1>3 DEF Next, vars, Receive, Reject, RecogniseEvent, RefuseConflict, Start,
                                Crash, DatabaseBusy, Interrupt

\* The first content of an event id is final, and the only one acknowledged.
THEOREM ContentRefinement == Spec => FirstContentWins
<1>1. Init => Ledger!Init
  BY DEF Init, Absent, Ledger!Init
<1>2. WebhooksInv /\ [Next]_vars => [Ledger!Next]_(Ledger!vars)
  BY LedgerStep
<1> QED BY <1>1, <1>2, WebhooksInvariance, PTL DEF Spec, FirstContentWins, Ledger!Spec
-----------------------------------------------------------------------------
(* What the ledger promises, therefore, to the senders of webhooks.        *)

\* An acknowledged pair is an event id with the content of its row.
LEMMA AcknowledgedContent ==
    ASSUME WebhooksInv, NEW eb \in acked
    PROVE  eb[1] \in EventIds /\ webhook_events[eb[1]].content = eb[2]
<1>1. eb[1] \in EventIds
  BY DEF WebhooksInv, TypeOK
<1>2. webhook_events[eb[1]] = [status |-> "PROCESSED", content |-> eb[2]]
  BY DEF WebhooksInv, AckedIsProcessed
<1> QED BY <1>1, <1>2

\* Only the content in the row of an event is acknowledged.
THEOREM AcknowledgedIsReserved == Spec => []Ledger!ToldIsDecided
<1>1. WebhooksInv => Ledger!ToldIsDecided
  BY AcknowledgedContent DEF Ledger!ToldIsDecided
<1> QED BY <1>1, WebhooksInvariance, PTL

\* No two contents of an event id are ever acknowledged.
THEOREM OneContentAcknowledged == Spec => []Ledger!ClientsAgree
<1>1. WebhooksInv => Ledger!ClientsAgree
  BY AcknowledgedContent DEF Ledger!ClientsAgree
<1> QED BY <1>1, WebhooksInvariance, PTL

\* The content of an event id is never replaced.
THEOREM ContentsAreFinal == Spec => Ledger!DecisionsAreFinal
<1>1. WebhooksInv /\ [Next]_vars => [Ledger!KeepsDecisions]_(Ledger!vars)
  BY LedgerStep
     DEF Ledger!Next, Ledger!Decide, Ledger!Tell, Ledger!vars, Ledger!KeepsDecisions
<1> QED BY <1>1, WebhooksInvariance, PTL DEF Spec, Ledger!DecisionsAreFinal
-----------------------------------------------------------------------------
(* The safety part of ReceivedIsProcessed.                                 *)

\* What is in the table was admitted, and is again when it is delivered again.
RowsAreAdmitted ==
    \A e \in EventIds : Status(e) # "ABSENT" => Admitted(e, Content(e), TRUE)

\* A redelivery of a received event is recognised, and a worker that handles one
\* is always at a step it can take.
RecoveryIsOpen ==
    /\ \A e \in EventIds, w \in Workers :
          Status(e) = "RECEIVED" /\ work[w] = Idle =>
              Admitted(e, Content(e), TRUE) /\ Known(e) /\ ~Conflicts(e, Content(e))
    /\ \A w \in Workers : work[w].pc = "known" =>
          Status(work[w].event) \in {"RECEIVED", "PROCESSED"}

\* A processed event stays processed, also when a slow worker comes late.
ProcessedStays ==
    [][\A e \in EventIds : Status(e) = "PROCESSED" => Status(e)' = "PROCESSED"]_vars

\* The table has only what was admitted.
LEMMA AdmittedRows == Spec => []RowsAreAdmitted
<1>1. Init => RowsAreAdmitted
  BY DEF Init, RowsAreAdmitted, Status, Absent
<1>2. ASSUME WebhooksInv, RowsAreAdmitted, [Next]_vars PROVE RowsAreAdmitted'
  <2>1. CASE UNCHANGED webhook_events
    BY <1>2, <2>1 DEF RowsAreAdmitted, Status, Content, Admitted, ParseVerdict
  <2>2. ASSUME NEW w \in Workers, NEW e \in EventIds, NEW b \in Bodies,
               NEW signed \in BOOLEAN, ReserveEvent(w, e, b, signed)
        PROVE  RowsAreAdmitted'
    <3>1. Admitted(e, b, TRUE)
      BY <2>2 DEF ReserveEvent, Admitted, ParseVerdict
    <3> QED BY <1>2, <2>2, <3>1 DEF ReserveEvent, RowsAreAdmitted, Status, Content,
               Admitted, ParseVerdict, WebhooksInv, TypeOK
  <2>3. ASSUME NEW w \in Workers, RecoverEvent(w) \/ CompleteEvent(w) PROVE RowsAreAdmitted'
    <3>1. PICK e \in EventIds :
              /\ Status(e) # "ABSENT"
              /\ webhook_events' = [webhook_events EXCEPT ![e] = ProcessedRow(@)]
      BY <1>2, <2>3, NoneAssumption DEF RecoverEvent, CompleteEvent, WebhooksInv, TypeOK,
         JobsHaveRows, Status, Content
    <3>2. \A d \in EventIds : Content(d)' = Content(d) /\ (Status(d)' # "ABSENT" => Status(d) # "ABSENT")
      BY <1>2, <3>1 DEF WebhooksInv, TypeOK, Row, ProcessedRow, Status, Content
    <3> QED BY <1>2, <3>2 DEF RowsAreAdmitted, Admitted, ParseVerdict
  <2> QED BY <1>2, <2>1, <2>2, <2>3 DEF Next, vars, Receive, Reject, RecogniseEvent,
             RefuseConflict, WorkerStep, ReadStatus, Crash, DatabaseBusy, Interrupt
<1> QED BY <1>1, <1>2, WebhooksInvariance, PTL DEF Spec

\* What was interrupted can be recovered at any time, and nothing that handles it
\* is stuck: what is left of ReceivedIsProcessed is fairness.
THEOREM RecoveryStaysOpen == Spec => []RecoveryIsOpen
<1>1. WebhooksInv /\ RowsAreAdmitted => RecoveryIsOpen
  BY NoneAssumption DEF WebhooksInv, TypeOK, Row, JobsHaveRows, RowsAreAdmitted, RecoveryIsOpen,
     Status, Content, Known, Conflicts
<1> QED BY <1>1, WebhooksInvariance, AdmittedRows, PTL

\* Completing an event twice, by its own worker and by one that recovered it,
\* takes nothing back.
THEOREM ProcessedIsFinal == Spec => ProcessedStays
<1>1. ASSUME WebhooksInv, [Next]_vars, NEW e \in EventIds, Status(e) = "PROCESSED"
      PROVE  Status(e)' = "PROCESSED"
  <2>1. CASE UNCHANGED webhook_events
    BY <1>1, <2>1 DEF Status
  <2>2. ASSUME NEW w \in Workers, NEW d \in EventIds, NEW b \in Bodies,
               NEW signed \in BOOLEAN, ReserveEvent(w, d, b, signed)
        PROVE  Status(e)' = "PROCESSED"
    BY <1>1, <2>2 DEF ReserveEvent, Known, Status, WebhooksInv, TypeOK
  <2>3. ASSUME NEW w \in Workers, RecoverEvent(w) \/ CompleteEvent(w)
        PROVE  Status(e)' = "PROCESSED"
    BY <1>1, <2>3 DEF RecoverEvent, CompleteEvent, ProcessedRow, Status, WebhooksInv,
       TypeOK, Row
  <2> QED BY <1>1, <2>1, <2>2, <2>3 DEF Next, vars, Receive, Reject, RecogniseEvent,
             RefuseConflict, WorkerStep, ReadStatus, Crash, DatabaseBusy, Interrupt
<1>2. WebhooksInv /\ [Next]_vars =>
          [\A e \in EventIds : Status(e) = "PROCESSED" => Status(e)' = "PROCESSED"]_vars
  BY <1>1
<1> QED BY <1>2, WebhooksInvariance, PTL DEF Spec, ProcessedStays
=============================================================================
