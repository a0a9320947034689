-------------------------------- MODULE MCBookPi --------------------------------
(***************************************************************************)
(* Instances of BookPi: a batch of two appends and a single append of one   *)
(* tenant, a refund of its first block, and another tenant's append.  The   *)
(* content "ms" stands for an instant with milliseconds or a cost of more   *)
(* than six decimals, which the row does not give back.                     *)
(***************************************************************************)
EXTENDS BookPi

CONSTANTS a1, a2, a3, r1, r2, b1, none

MCTenantOf == [c \in Calls |-> IF c = b1 THEN "t2" ELSE "t1"]
MCLockOf   == [t \in Tenants |-> t]
MCReadBack == [x \in Contents |-> IF x = "ms" THEN "whole" ELSE x]
MCRefundOf == [c \in Calls |-> IF c \in {r1, r2} THEN 0 ELSE NoIndex]
MCAfter    == [c \in Calls |-> IF c = a2 THEN a1 ELSE NoCall]
=============================================================================
