------------------------------ MODULE SupportText ------------------------------
(***************************************************************************)
(* The text a payment's support events become before a model sees it:      *)
(* compile_support_text, sanitize_support_text and the boundary check      *)
(* validate_model_boundary.                                                *)
(*                                                                         *)
(* A text is what its readers can tell apart: what it says, whether it     *)
(* matches a prompt-injection pattern, whether it holds personal data, and *)
(* whether it is blank.  Which signals a row of texts gives is a constant, *)
(* as a pattern may begin in one text and end in the next.  An event is a  *)
(* row of the support event table.  The hash of a payload stands for the   *)
(* payload, which has neither payment ids nor times.                       *)
(***************************************************************************)
EXTENDS Naturals, Sequences, FiniteSets

CONSTANTS
    MaxEvents,  \* MAX_EVENTS_PER_MODEL_REQUEST
    Matched(_)  \* the signals that match somewhere in texts joined by blanks

ASSUME MaxEventsAssumption == MaxEvents \in Nat \ {0}

\* Mutant of Sanitised: a kind of personal data is not redacted.
Unredacted(text) == text

\* sanitize_support_text redacts cards, addresses, phone numbers and ids.
Sanitised(text) == [text EXCEPT !.private = FALSE]

Injected(text) == text.injected

Private(text) == text.private

SelectedEvents(payment, events) == {e \in events : e.payment = payment}

Future(e, scoring_at) == e.at > scoring_at

\* The events that are neither in the future nor injected.
SafeEvents(payment, scoring_at, events) ==
    {e \in SelectedEvents(payment, events) : ~Future(e, scoring_at) /\ ~Injected(e.text)}

\* sanitize_support_text raises on a blank text, and the payment is not
\* compiled.
CanCompile(payment, scoring_at, events) ==
    \A e \in SafeEvents(payment, scoring_at, events) : ~e.text.blank

\* By time, then by id.
Earlier(d, e) == d.at < e.at \/ (d.at = e.at /\ d.id < e.id)

\* The events as they are sorted: no two have one id.
InOrder(events) ==
    CHOOSE s \in [1 .. Cardinality(events) -> events] :
        \A i, j \in DOMAIN s : i < j => Earlier(s[i], s[j])

\* The newest events are kept.
LastEvents(s) == SubSeq(s, IF Len(s) <= MaxEvents THEN 1 ELSE Len(s) - MaxEvents + 1, Len(s))

Overflow(n) == IF n > MaxEvents THEN n - MaxEvents ELSE 0

\* The sanitised events of a payment, as [at, channel, text].
Compiled(payment, scoring_at, events) ==
    LET chosen == SafeEvents(payment, scoring_at, events)
        sorted == LastEvents(InOrder(chosen))
        source == SelectedEvents(payment, events)
    IN  [payment   |-> payment,
         scoring_at |-> scoring_at,
         events    |-> [i \in DOMAIN sorted |->
                           [at |-> sorted[i].at, channel |-> sorted[i].channel,
                            text |-> Sanitised(sorted[i].text)]],
         source    |-> Cardinality(source),
         future    |-> Cardinality({e \in source : Future(e, scoring_at)}),
         injection |-> Cardinality({e \in source :
                           ~Future(e, scoring_at) /\ Injected(e.text)}),
         overflow  |-> Overflow(Cardinality(chosen))]

\* model_payload; its hash is the input hash.
Payload(compiled) ==
    [i \in DOMAIN compiled.events |->
        [channel |-> compiled.events[i].channel, text |-> compiled.events[i].text]]

\* validate_model_boundary lets these pass, and raises otherwise.
PassesBoundary(compiled) ==
    \A i \in DOMAIN compiled.events :
        LET e == compiled.events[i]
        IN  /\ e.at <= compiled.scoring_at
            /\ ~Injected(e.text)
            /\ Sanitised(e.text) = e.text

\* Mutant of Extracted: every text is matched by itself.
ExtractedApart(payload) == UNION {Matched(<<payload[i].text>>) : i \in DOMAIN payload}

\* deterministic_extract_support_signals: the texts are joined in their order,
\* and the patterns are matched on the whole.
Extracted(payload) == Matched([i \in DOMAIN payload |-> payload[i].text])
=============================================================================
