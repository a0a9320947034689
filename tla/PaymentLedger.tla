---------------------------- MODULE PaymentLedger ----------------------------
(***************************************************************************)
(* What the saga of lib/financial-settlement.ts promises of its durable     *)
(* stores, whatever calls, retries and crashes produce them: a payment is   *)
(* credited at most once, posted to BookPI at most once and only after its  *)
(* credit ("nunca asentar sin evento"), and reversed at most once and only  *)
(* after its credit; nothing is ever deleted.                               *)
(***************************************************************************)
EXTENDS Naturals

CONSTANTS
  Payments

VARIABLES
  credited,    \* payments with their economic event
  posted,      \* number of BookPI blocks of a payment
  reversed     \* payments with a reversal event

Init ==
  /\ credited = {}
  /\ posted = [p \in Payments |-> 0]
  /\ reversed = {}

Credit(p) ==
  /\ p \notin credited
  /\ credited' = credited \cup {p}
  /\ UNCHANGED <<posted, reversed>>

Post(p) ==
  /\ p \in credited /\ posted[p] = 0
  /\ posted' = [posted EXCEPT ![p] = 1]
  /\ UNCHANGED <<credited, reversed>>

Reverse(p) ==
  /\ p \in credited \ reversed
  /\ reversed' = reversed \cup {p}
  /\ UNCHANGED <<credited, posted>>

Next == \E p \in Payments : Credit(p) \/ Post(p) \/ Reverse(p)

Spec == Init /\ [][Next]_<<credited, posted, reversed>>
=============================================================================
