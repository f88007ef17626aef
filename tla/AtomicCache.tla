------------------------------ MODULE AtomicCache ------------------------------
(***************************************************************************)
(* What a cache of files promises its readers: under a key there is either *)
(* nothing or one value that somebody put there, as a whole, and what is   *)
(* there changes, or is lost, only while a put of that key is under way.   *)
(***************************************************************************)
CONSTANTS Keys, Nothing

VARIABLES
    entries,    \* what a reader finds under each key
    offered,    \* the values that were ever put, as [key, value]
    busy        \* the keys with a put under way

vars == <<entries, offered, busy>>

Init ==
    /\ entries = [k \in Keys |-> Nothing]
    /\ offered = {}
    /\ busy = {}

BeginPut(k, v) ==
    /\ offered' = offered \cup {[key |-> k, value |-> v]}
    /\ busy' = busy \cup {k}
    /\ UNCHANGED entries

\* A put takes effect, or spoils the entry.  It may be the last of its key.
Settle(k) ==
    /\ k \in busy
    /\ \E v \in {o.value : o \in {p \in offered : p.key = k}} \cup {Nothing} :
          entries' = [entries EXCEPT ![k] = v]
    /\ busy' \in {busy, busy \ {k}}
    /\ UNCHANGED offered

\* Puts end, or die with their process.
EndPuts ==
    /\ busy' \in SUBSET busy
    /\ UNCHANGED <<entries, offered>>

Next ==
    \/ \E k \in Keys : Settle(k)
    \/ \E o \in offered' : BeginPut(o.key, o.value)
    \/ EndPuts

Spec == Init /\ [][Next]_vars
=============================================================================
