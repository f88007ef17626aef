-------------------------- MODULE MCRazorpayScoring --------------------------
(* A small instance of RazorpayScoring: card is a card payment of order o1 *)
(* for its amount, partial another one for another amount, and netbanking a *)
(* payment of order o2 by another method.                                  *)
EXTENDS RazorpayScoring, TLC

CONSTANTS card, partial, netbanking, o1, o2

MCPayments == {card, partial, netbanking}

MCOrderOf == [p \in MCPayments |-> IF p = netbanking THEN o2 ELSE o1]

MCSymmetry == Permutations(Requests) \cup Permutations(Models)
=============================================================================
