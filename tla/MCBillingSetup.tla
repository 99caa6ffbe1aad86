---------------------------- MODULE MCBillingSetup ----------------------------
(* BillingSetup with the create request and two CheckPaymentEnabled        *)
(* requests, enough for two requests to set up billing at the same time    *)
(* after a failed create; three Stripe customers and two credit grants     *)
(* bound the counters above the one each should reach.                     *)
EXTENDS BillingSetup
=============================================================================
