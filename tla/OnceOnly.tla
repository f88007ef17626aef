------------------------------ MODULE OnceOnly ------------------------------
(***************************************************************************)
(* What an idempotency table promises its clients, for any kind of key:    *)
(* the outcome of a key is decided at most once, and whatever any client   *)
(* is ever told about a key is that one outcome.  RazorpayStore keeps      *)
(* three such tables (order_requests, payment_scores, webhook_events);     *)
(* the modules of the services that use them implement this specification. *)
(***************************************************************************)
CONSTANTS
    Key,        \* the idempotency keys, payment ids or event ids
    Outcome,    \* what a key can be decided to
    Undecided   \* the outcome of a key nothing has been decided about

VARIABLES
    outcome,    \* the decision of each key
    told        \* the pairs <<key, outcome>> given to clients so far

vars == <<outcome, told>>

TypeOK ==
    /\ outcome \in [Key -> Outcome \cup {Undecided}]
    /\ told \subseteq (Key \X Outcome)

Init ==
    /\ outcome = [k \in Key |-> Undecided]
    /\ told = {}

\* The first decision of a key, which the client that caused it may learn in
\* the same step.
Decide(k, v) ==
    /\ outcome[k] = Undecided
    /\ outcome' = [outcome EXCEPT ![k] = v]
    /\ told' \in {told, told \cup {<<k, v>>}}

\* A client learns the outcome of a key decided earlier.
Tell(k) ==
    /\ outcome[k] # Undecided
    /\ told' = told \cup {<<k, outcome[k]>>}
    /\ UNCHANGED outcome

Next ==
    \E k \in Key : (\E v \in Outcome : Decide(k, v)) \/ Tell(k)

Spec == Init /\ [][Next]_vars
-----------------------------------------------------------------------------
(* Nobody is told anything but the decision of the key.                    *)
ToldIsDecided == \A kv \in told : outcome[kv[1]] = kv[2]

(* No two clients are ever told different things about one key.            *)
ClientsAgree == \A a, b \in told : a[1] = b[1] => a[2] = b[2]

(* A decision never changes.                                               *)
KeepsDecisions == \A k \in Key : outcome[k] # Undecided => outcome'[k] = outcome[k]
DecisionsAreFinal == [][KeepsDecisions]_vars
=============================================================================
