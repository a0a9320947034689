---------------------------- MODULE WebhookEvents ----------------------------
(***************************************************************************)
(* The table webhook_events and the three functions of                     *)
(* lib/economic-events.ts that change it.  claimWebhookEvent() is one       *)
(* transaction that locks the row, so a claim is one step; it is an         *)
(* operator with the answer as its second argument, used by the modules of  *)
(* the two callers (StripeWebhook and Settlement).                          *)
(***************************************************************************)
EXTENDS Naturals, FiniteSets

CONSTANTS
  Payments       \* provider events, by (provider, provider_event_id)

VARIABLES
  status,        \* column status of the row of a provider event
  stale          \* received_at is at least staleAfterMs (5 minutes) ago

claims == <<status, stale>>

ClaimStatus == {"absent", "received", "processed", "failed"}
ClaimAnswer == {"claimed", "duplicate", "in_progress", "error"}

ClaimsInit ==
  /\ status = [p \in Payments |-> "absent"]
  /\ stale = [p \in Payments |-> FALSE]

\* A row can be taken when there is none, its processing failed or it is old.
\* Mutant: the age of the row is not looked at.
MutClaimable(p) == status[p] # "processed"
Claimable(p) == status[p] \in {"absent", "failed"} \/ (status[p] = "received" /\ stale[p])

TakeRow(p) ==
  /\ Claimable(p)
  /\ status' = [status EXCEPT ![p] = "received"]
  /\ stale' = [stale EXCEPT ![p] = FALSE]

\* claimWebhookEvent().  On an error the transaction was rolled back, or it was
\* committed and the connection lost before the answer.
Claim(p, answer) ==
  \/ answer = "claimed" /\ TakeRow(p)
  \/ answer = "duplicate" /\ status[p] = "processed" /\ UNCHANGED claims
  \/ answer = "in_progress" /\ status[p] = "received" /\ ~stale[p] /\ UNCHANGED claims
  \/ answer = "error" /\ (UNCHANGED claims \/ TakeRow(p))

\* markWebhookProcessed() and markWebhookFailed().
MarkProcessed(p) ==
  /\ status' = [status EXCEPT ![p] = "processed"]
  /\ UNCHANGED stale

\* Mutant: the UPDATE has lost its condition on the status.
MutMarkFailed(p) ==
  /\ status' = [status EXCEPT ![p] = "failed"]
  /\ UNCHANGED stale
MarkFailed(p) ==
  /\ status' = [status EXCEPT ![p] = IF @ = "processed" THEN @ ELSE "failed"]
  /\ UNCHANGED stale

\* Time passes: the claim of p gets old.
GrowStale(p) ==
  /\ status[p] # "absent" /\ ~stale[p]
  /\ stale' = [stale EXCEPT ![p] = TRUE]
  /\ UNCHANGED status

ClaimsType ==
  /\ status \in [Payments -> ClaimStatus]
  /\ stale \in [Payments -> BOOLEAN]
=============================================================================
