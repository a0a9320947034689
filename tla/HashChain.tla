------------------------------- MODULE HashChain -------------------------------
(***************************************************************************)
(* What an append-only ledger of hash-linked blocks promises of its table:  *)
(* a step appends one block after the last block of its tenant, linked to   *)
(* it, and nothing else ever changes.  A hash is abstracted by the call     *)
(* that produced the block, which its random nonce makes unique.            *)
(***************************************************************************)
EXTENDS Naturals

CONSTANT Genesis       \* previous_hash of a first block
VARIABLE rows          \* the committed rows

Of(t) == {b \in rows : b.tenant = t}
IsLast(l, t) == l \in Of(t) /\ \A b \in Of(t) : b.index <= l.index

Init == rows = {}

\* The block that may follow: the first one, or the next after the last.
Follows(b) ==
  \/ Of(b.tenant) = {} /\ b.index = 0 /\ b.prev = Genesis
  \/ \E l \in Of(b.tenant) :
       IsLast(l, b.tenant) /\ b.index = l.index + 1 /\ b.prev = l.call

Append == \E b \in rows' : Follows(b) /\ rows' = rows \cup {b}

Spec == Init /\ [][Append]_rows
=============================================================================
