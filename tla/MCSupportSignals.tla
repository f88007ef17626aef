--------------------------- MODULE MCSupportSignals ---------------------------
(* A small instance of SupportSignals.                                     *)
EXTENDS SupportSignals, SequencesExt

\* A text says some words, and a signal has a phrase that shows it.
Phrase ==
    [intent_to_cancel |-> <<"cancel">>, non_receipt_complaint |-> <<"not", "arrived">>,
     dissatisfaction |-> <<"unhappy">>]

MCMatched(texts) ==
    LET said == FlattenSeq([i \in DOMAIN texts |-> texts[i].says])
    IN  {signal \in DOMAIN Phrase :
            \E i, j \in DOMAIN said : SubSeq(said, i, j) = Phrase[signal]}

Text(words) == [says |-> words, injected |-> FALSE, private |-> FALSE, blank |-> FALSE]

Cancel == Text(<<"cancel">>)

Event(id, payment, at, text) ==
    [id |-> id, payment |-> payment, at |-> at, channel |-> "chat", text |-> text]

Scoring(payments) == [i \in DOMAIN payments |-> [payment |-> payments[i], at |-> 2]]

\* Two payments with one text between them once future, injected and personal
\* text is taken out; payments without any text, and with a blank one; and one
\* with more texts than a model is given, the newest of which, written at one
\* time, show a signal that neither shows alone, and none the other way round.
MCDatasets ==
    {[scoring |-> Scoring(<<"p1", "p2">>),
      events  |-> {Event(1, "p1", 1, Cancel),
                   Event(2, "p1", 3, Text(<<"unhappy">>)),
                   Event(3, "p2", 2, [Cancel EXCEPT !.private = TRUE]),
                   Event(4, "p2", 1, [Cancel EXCEPT !.injected = TRUE])}],
     [scoring |-> Scoring(<<"p1", "p2">>),
      events  |-> {Event(1, "p2", 1, [Cancel EXCEPT !.blank = TRUE])}],
     [scoring |-> Scoring(<<"p1">>),
      events  |-> {Event(1, "p1", 2, Text(<<"not">>)),
                   Event(2, "p1", 2, Text(<<"arrived">>)),
                   Event(3, "p1", 0, Text(<<"unhappy">>))}]}

\* What the model says differs from what the fallback finds.
MCAnswers == {{"dissatisfaction"}}
=============================================================================
