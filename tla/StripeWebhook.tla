----------------------------- MODULE StripeWebhook -----------------------------
(***************************************************************************)
(* handleStripeWebhook() of lib/billing/stripe.ts and its route in          *)
(* server.ts.  Stripe delivers an event at least until it is answered 200,  *)
(* and deliveries overlap; each runs the handler, which claims the event,   *)
(* saves the plan of a completed checkout and marks the row.  Statements    *)
(* can fail, also after their commit, and the process can die.              *)
(***************************************************************************)
EXTENDS WebhookEvents

CONSTANTS
  Deliveries,    \* HTTP requests with a valid signature
  EventOf,       \* the provider event a request carries
  Checkouts,     \* events that are completed checkouts of a paid plan
  MaxCrashes     \* bound of the model: process crashes per behaviour

ASSUME DeliveryAssumption == /\ EventOf \in [Deliveries -> Payments]
                             /\ Checkouts \subseteq Payments
                             /\ MaxCrashes \in Nat

VARIABLES
  pc,            \* step of a delivery, or its answer
  saved,         \* checkouts whose plan the subscription store has
  acked,         \* events answered 200: Stripe need not send them again
  overtaken,     \* history: events whose claim got old under a delivery
  crashes        \* history: crashes so far

vars == <<status, stale, pc, saved, acked, overtaken, crashes>>

Steps   == {"save", "mark", "unmark"}
Answers == {"ok", "refused", "dead"}

Init ==
  /\ ClaimsInit
  /\ pc = [d \in Deliveries |-> "idle"]
  /\ saved = {}
  /\ acked = {}
  /\ overtaken = {}
  /\ crashes = 0

Goto(d, step) == pc' = [pc EXCEPT ![d] = step]
\* Mutant: the request is remembered, not its event.
MutAcknowledge(d) == Goto(d, "ok") /\ acked' = acked \cup {d}
Acknowledge(d) == Goto(d, "ok") /\ acked' = acked \cup {EventOf[d]}

\* The request arrives and claims its event; without a claim it is answered,
\* an event in progress like a duplicate.
Receive(d) ==
  /\ pc[d] = "idle"
  /\ \/ /\ Claim(EventOf[d], "claimed")
        /\ Goto(d, IF EventOf[d] \in Checkouts THEN "save" ELSE "mark")
        /\ UNCHANGED acked
     \/ /\ Claim(EventOf[d], "duplicate") \/ Claim(EventOf[d], "in_progress")
        /\ Acknowledge(d)
     \/ /\ Claim(EventOf[d], "error")
        /\ Goto(d, "refused")
        /\ UNCHANGED acked
  /\ UNCHANGED <<saved, overtaken, crashes>>

\* Mutant: an error of the subscription store goes unnoticed.
MutSavePlan(d) ==
  /\ pc[d] = "save"
  /\ saved' \in {saved, saved \cup {EventOf[d]}}
  /\ Goto(d, "mark")
  /\ UNCHANGED <<claims, acked, overtaken, crashes>>
\* await saveSubscriptionPlan(userId, planId).
SavePlan(d) ==
  /\ pc[d] = "save"
  /\ \/ saved' = saved \cup {EventOf[d]} /\ Goto(d, "mark")
     \/ saved' \in {saved, saved \cup {EventOf[d]}} /\ Goto(d, "unmark")
  /\ UNCHANGED <<claims, acked, overtaken, crashes>>

\* await markWebhookProcessed(claim.id) and the answer.
Mark(d) ==
  /\ pc[d] = "mark"
  /\ \/ MarkProcessed(EventOf[d]) /\ Acknowledge(d)
     \/ (MarkProcessed(EventOf[d]) \/ UNCHANGED claims) /\ Goto(d, "unmark")
          /\ UNCHANGED acked
  /\ UNCHANGED <<saved, overtaken, crashes>>

\* The catch: markWebhookFailed(), whose own failure is ignored.
Unmark(d) ==
  /\ pc[d] = "unmark"
  /\ MarkFailed(EventOf[d]) \/ UNCHANGED claims
  /\ Goto(d, "refused")
  /\ UNCHANGED <<saved, acked, overtaken, crashes>>

Crash ==
  /\ crashes < MaxCrashes
  /\ crashes' = crashes + 1
  /\ pc' = [d \in Deliveries |-> IF pc[d] \in Steps THEN "dead" ELSE pc[d]]
  /\ UNCHANGED <<claims, saved, acked, overtaken>>

AtWork(d, p) == pc[d] \in Steps /\ EventOf[d] = p

TimePasses(p) ==
  /\ GrowStale(p)
  /\ overtaken' = IF \E d \in Deliveries : AtWork(d, p)
                    THEN overtaken \cup {p} ELSE overtaken
  /\ UNCHANGED <<pc, saved, acked, crashes>>

Next ==
  \/ \E d \in Deliveries : Receive(d) \/ SavePlan(d) \/ Mark(d) \/ Unmark(d)
  \/ \E p \in Payments : TimePasses(p)
  \/ Crash

Spec == Init /\ [][Next]_vars

-----------------------------------------------------------------------------
\* Every variable has the shape of the table or local state it stands for.
TypeOK ==
  /\ ClaimsType
  /\ pc \in [Deliveries -> {"idle"} \cup Steps \cup Answers]
  /\ saved \subseteq Checkouts
  /\ acked \subseteq Payments
  /\ overtaken \subseteq Payments
  /\ crashes \in Nat

\* "Processing must call markWebhookProcessed only after every durable side
\* effect has succeeded": no processed checkout lacks its plan, through
\* crashes, reclaims and deliveries that run at the same time.
ProcessedIsSaved == \A p \in Checkouts : status[p] = "processed" => p \in saved

\* What is processed stays so: neither a late failure of another delivery nor a
\* reclaim puts the event back to work.
ProcessedIsFinal ==
  [][\A p \in Payments : status[p] = "processed" => status'[p] = "processed"]_vars

\* "A concurrent delivery is reported as in_progress": as long as the claim of
\* an event has not got old under a delivery, one at a time works on the event.
OneWorker ==
  \A c, d \in Deliveries :
    AtWork(c, EventOf[c]) /\ AtWork(d, EventOf[c]) /\ EventOf[c] \notin overtaken
      => c = d

\* "A Stripe retry may safely reclaim a stale received/failed record": an event
\* that Stripe need not send again, and nobody works on, has been processed.
AckedIsProcessed ==
  \A p \in acked : (\A d \in Deliveries : ~AtWork(d, p)) => status[p] = "processed"
=============================================================================
