----------------------------- MODULE MCSettlement -----------------------------
(* Three calls for one payment and one call for another.                     *)
EXTENDS Settlement, TLC

CONSTANTS p1, p2, c1, c2, c3, c4

MCPaymentOf == (c1 :> p1) @@ (c2 :> p1) @@ (c3 :> p1) @@ (c4 :> p2)
=============================================================================
