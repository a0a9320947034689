------------------------------ MODULE MCEconomy ------------------------------
(* A tenant with a colon in its id and one without; a day of two hours; one  *)
(* amount over the single limit, and limits that two sales reach.           *)
EXTENDS Economy

CONSTANTS rdm, norte, ana, bruno, t1

MCUsers == {[tenant |-> <<rdm, norte>>, principal |-> <<ana>>],
            [tenant |-> <<rdm>>, principal |-> <<bruno>>]}
=============================================================================
