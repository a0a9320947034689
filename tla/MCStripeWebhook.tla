---------------------------- MODULE MCStripeWebhook ----------------------------
(* Three deliveries of a checkout, one of an event without effect.            *)
EXTENDS StripeWebhook, TLC

CONSTANTS p1, p2, d1, d2, d3, d4

MCEventOf == (d1 :> p1) @@ (d2 :> p1) @@ (d3 :> p1) @@ (d4 :> p2)
=============================================================================
