---------------------------------- MODULE Funds ----------------------------------
(***************************************************************************)
(* What the money modules promise of the funds they keep for an owner: an   *)
(* amount is received, pending or available, may mature from the one to the *)
(* other, and leaves only out of what is available, either at once or after *)
(* it was held for a delivery that may fail.  What is gone does not return.  *)
(* A step moves one amount of one owner.  Maturing is not bounded by what is *)
(* pending: a module may post it without a comparison.                     *)
(***************************************************************************)
EXTENDS Integers

CONSTANT Owners
VARIABLES
  received,            \* all that an owner was credited
  pending, available,  \* what the owner has
  held,                \* requested payouts that have not ended
  gone                 \* what left for good

vars == <<received, pending, available, held, gone>>

Zero == [o \in Owners |-> 0]
Init == received = Zero /\ pending = Zero /\ available = Zero /\ held = Zero /\ gone = Zero

Add(f, o, n) == [f EXCEPT ![o] = @ + n]

\* The amount of a step is the difference it makes.
Receive(o) ==
  LET n == received'[o] - received[o] IN
  /\ n >= 0
  /\ received' = Add(received, o, n)
  /\ \/ pending' = Add(pending, o, n) /\ UNCHANGED available
     \/ available' = Add(available, o, n) /\ UNCHANGED pending
  /\ UNCHANGED <<held, gone>>

Mature(o) ==
  LET n == available'[o] - available[o] IN
  /\ n >= 0
  /\ pending' = Add(pending, o, -n) /\ available' = Add(available, o, n)
  /\ UNCHANGED <<received, held, gone>>

Spend(o) ==
  LET n == gone'[o] - gone[o] IN
  /\ n >= 0 /\ n <= available[o]
  /\ available' = Add(available, o, -n) /\ gone' = Add(gone, o, n)
  /\ UNCHANGED <<received, pending, held>>

Hold(o) ==
  LET n == held'[o] - held[o] IN
  /\ n >= 0 /\ n <= available[o]
  /\ available' = Add(available, o, -n) /\ held' = Add(held, o, n)
  /\ UNCHANGED <<received, pending, gone>>

Deliver(o) ==
  LET n == gone'[o] - gone[o] IN
  /\ n >= 0 /\ n <= held[o]
  /\ held' = Add(held, o, -n) /\ gone' = Add(gone, o, n)
  /\ UNCHANGED <<received, pending, available>>

Refund(o) ==
  LET n == available'[o] - available[o] IN
  /\ n >= 0 /\ n <= held[o]
  /\ held' = Add(held, o, -n) /\ available' = Add(available, o, n)
  /\ UNCHANGED <<received, pending, gone>>

Next == \E o \in Owners :
  Receive(o) \/ Mature(o) \/ Spend(o) \/ Hold(o) \/ Deliver(o) \/ Refund(o)

Spec == Init /\ [][Next]_vars
=============================================================================
