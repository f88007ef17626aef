-------------------------- MODULE MCPaymentDecisions --------------------------
(* A small instance of PaymentDecisions.                                   *)
EXTENDS PaymentDecisions

\* An ordinary shipment from a known device.
Goods ==
    [probability |-> 1, amount |-> 5000, account_age_days |-> 400, is_digital_good |-> FALSE,
     product_category |-> "fashion", card_network |-> "Visa",
     phone_verified |-> TRUE, email_verified |-> TRUE, cvv_result |-> "match", threeds_status |-> "authenticated",
     threeds_liability_shift |-> TRUE, device_is_new |-> FALSE,
     ip_country_matches_billing |-> TRUE, ip_is_proxy_or_vpn |-> FALSE,
     billing_shipping_distance_km |-> 10, descriptor_clarity_score |-> 90,
     is_duplicate_payment |-> FALSE, cancelled_subscription_billed |-> FALSE]

\* A dear digital good, for a new account, under a name nobody recognises.
Download ==
    [Goods EXCEPT !.amount = 10000, !.account_age_days = 7, !.is_digital_good = TRUE,
                  !.cvv_result = "no_match", !.descriptor_clarity_score = 20]

\* A charge that should not have been made, with every sign of fraud.
Duplicate ==
    [Goods EXCEPT !.probability = 0, !.amount = 500,
                  !.threeds_status = "not_authenticated",
                  !.threeds_liability_shift = FALSE, !.device_is_new = TRUE,
                  !.ip_is_proxy_or_vpn = TRUE, !.billing_shipping_distance_km = 1000,
                  !.is_duplicate_payment = TRUE]

MCSymmetry == Permutations(Customers)

MCProfiles == {Goods, Download, Duplicate}
=============================================================================
