------------------------- MODULE MCRazorpayWebhooks -------------------------
(* A small instance of RazorpayWebhooks: two workers, two usable event ids, *)
(* one the header pattern rejects and one it should have, and three bodies, *)
(* one for each thing a body can parse to.                                 *)
EXTENDS RazorpayWebhooks

CONSTANTS supported, unsupported, malformed

MCBodies == {supported, unsupported, malformed}

MCShape ==
    [b \in MCBodies |-> CASE b = supported   -> "supported"
                          [] b = unsupported -> "unsupported"
                          [] b = malformed   -> "malformed"]
=============================================================================
