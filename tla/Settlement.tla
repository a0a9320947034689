------------------------------ MODULE Settlement ------------------------------
(***************************************************************************)
(* The saga settlePayment() of lib/financial-settlement.ts over its          *)
(* productive steps: the webhook claim and recordEconomicEvent() of          *)
(* lib/economic-events.ts, append() of the PostgreSQL BookPI, the journal    *)
(* entry (always deferred: the saga passes no lines) and the audit record.   *)
(* A call is one execution of settlePayment(); calls for the same payment    *)
(* (concurrent deliveries, retries after a failure or a crash) interleave at *)
(* every await.  A statement that answers with an error may have been        *)
(* executed: the connection can be lost after the commit.                    *)
(***************************************************************************)
EXTENDS WebhookEvents

CONSTANTS
  Calls,         \* executions of settlePayment()
  PaymentOf,     \* the payment (provider event and idempotency key) of a call
  MaxCrashes     \* bound of the model: process crashes per behaviour

ASSUME CallAssumption == /\ Calls # {}
                         /\ PaymentOf \in [Calls -> Payments]
                         /\ MaxCrashes \in Nat

VARIABLES
  credited,      \* payments with a SETTLEMENT row in economic_events
  reversed,      \* payments with a REVERSAL row in economic_events
  blocks,        \* BookPI blocks of a payment
  pc,            \* step of a call, or its receipt
  crashes        \* history: crashes so far

stores == <<credited, reversed, blocks>>
vars   == <<status, stale, credited, reversed, blocks, pc, crashes>>

Steps    == {"record", "ledger", "compensate", "abort", "account", "deferred", "posted"}
Receipts == {"settled", "duplicate", "aborted", "rejected", "dead"}

Init ==
  /\ ClaimsInit
  /\ credited = {}
  /\ reversed = {}
  /\ blocks = [p \in Payments |-> 0]
  /\ pc = [c \in Calls |-> "idle"]
  /\ crashes = 0

Goto(c, step) == pc' = [pc EXCEPT ![c] = step]

\* Mutant: the caller gets the answer of the claim.
MutAfterClaim(answer) == IF answer = "claimed" THEN "record" ELSE answer
\* Step 1.  Only "duplicate" and "error" end the saga.
AfterClaim(answer) ==
  CASE answer = "duplicate" -> "duplicate"
    [] answer = "error" -> "abort"
    [] OTHER -> "record"

ClaimStep(c) ==
  /\ pc[c] = "idle"
  /\ \E answer \in ClaimAnswer :
       Claim(PaymentOf[c], answer) /\ Goto(c, AfterClaim(answer))
  /\ UNCHANGED <<stores, crashes>>

\* Step 2, recordEconomicEvent(): unique by (tenant_id, idempotency_key).
Insert(p) == p \notin credited /\ credited' = credited \cup {p}

\* Mutant: a conflicting insert counts as success.
MutRecord(c) ==
  /\ pc[c] = "record"
  /\ \/ Insert(PaymentOf[c]) /\ Goto(c, "ledger")
     \/ PaymentOf[c] \in credited /\ UNCHANGED credited /\ Goto(c, "ledger")
     \/ (Insert(PaymentOf[c]) \/ UNCHANGED credited) /\ Goto(c, "abort")
  /\ UNCHANGED <<claims, reversed, blocks, crashes>>
Record(c) ==
  /\ pc[c] = "record"
  /\ \/ Insert(PaymentOf[c]) /\ Goto(c, "ledger")
     \/ PaymentOf[c] \in credited /\ UNCHANGED credited /\ Goto(c, "duplicate")
     \/ (Insert(PaymentOf[c]) \/ UNCHANGED credited) /\ Goto(c, "abort")
  /\ UNCHANGED <<claims, reversed, blocks, crashes>>

\* Step 3, bookpi.append(): a new block of the tenant's chain, no key.
Post(p) == blocks' = [blocks EXCEPT ![p] = @ + 1]

\* Mutant: a failed append is tried once more before compensating.
MutAppendLedger(c) ==
  /\ pc[c] = "ledger"
  /\ \/ Post(PaymentOf[c]) /\ Goto(c, "account")
     \/ (Post(PaymentOf[c]) \/ UNCHANGED blocks) /\ Goto(c, "ledger")
  /\ UNCHANGED <<claims, credited, reversed, crashes>>
AppendLedger(c) ==
  /\ pc[c] = "ledger"
  /\ \/ Post(PaymentOf[c]) /\ Goto(c, "account")
     \/ (Post(PaymentOf[c]) \/ UNCHANGED blocks) /\ Goto(c, "compensate")
  /\ UNCHANGED <<claims, credited, reversed, crashes>>

\* compensate(): recordEconomicEvent() again, its answer ignored.
Compensate(c) ==
  /\ pc[c] = "compensate"
  /\ reversed' \in {reversed, reversed \cup {PaymentOf[c]}}
  /\ Goto(c, "abort")
  /\ UNCHANGED <<claims, credited, blocks, crashes>>

\* An audit record that cannot be written rejects the call.
AuditAbort(c) ==
  /\ pc[c] = "abort"
  /\ Goto(c, "aborted") \/ Goto(c, "rejected")
  /\ UNCHANGED <<claims, stores, crashes>>

\* Step 4: with fewer than two lines the entry is deferred, which is audited.
Account(c) ==
  /\ pc[c] = "account"
  /\ Goto(c, "deferred")
  /\ UNCHANGED <<claims, stores, crashes>>

AuditDeferred(c) ==
  /\ pc[c] = "deferred"
  /\ Goto(c, "posted") \/ Goto(c, "rejected")
  /\ UNCHANGED <<claims, stores, crashes>>

AuditSettled(c) ==
  /\ pc[c] = "posted"
  /\ Goto(c, "settled") \/ Goto(c, "rejected")
  /\ UNCHANGED <<claims, stores, crashes>>

\* The process dies: its calls are gone, the tables stay.
Crash ==
  /\ crashes < MaxCrashes
  /\ crashes' = crashes + 1
  /\ pc' = [c \in Calls |-> IF pc[c] \in Steps THEN "dead" ELSE pc[c]]
  /\ UNCHANGED <<claims, stores>>

TimePasses(p) == GrowStale(p) /\ UNCHANGED <<stores, pc, crashes>>

SagaStep(c) ==
  \/ ClaimStep(c) \/ Record(c) \/ AppendLedger(c) \/ Compensate(c) \/ AuditAbort(c)
  \/ Account(c) \/ AuditDeferred(c) \/ AuditSettled(c)

Next ==
  \/ \E c \in Calls : SagaStep(c)
  \/ \E p \in Payments : TimePasses(p)
  \/ Crash

Spec == Init /\ [][Next]_vars

-----------------------------------------------------------------------------
\* Every variable has the shape of the table or local state it stands for.
TypeOK ==
  /\ ClaimsType
  /\ credited \subseteq Payments
  /\ reversed \subseteq Payments
  /\ blocks \in [Payments -> Nat]
  /\ pc \in [Calls -> {"idle"} \cup Steps \cup Receipts]
  /\ crashes \in Nat

\* "Nunca asentar sin evento" and no double posting: although the claim lets
\* concurrent calls through (in_progress is not an end of the saga) and errors
\* hide executed statements, the stores evolve as PaymentLedger says.
Ledger == INSTANCE PaymentLedger WITH posted <- blocks
LedgerDiscipline == Ledger!Spec

\* Between the credit of a payment and its block only the call that inserted
\* the credit works on it: no other call is about to post or to reverse it.
SoleOwner ==
  \A c, d \in Calls :
    /\ PaymentOf[c] = PaymentOf[d]
    /\ pc[c] \in {"ledger", "compensate", "account"}
    /\ pc[d] \in {"ledger", "compensate", "account"}
    => c = d

\* A "settled" receipt tells the truth and is given once: the payment has its
\* credit and its one block, no reversal, and no other call got the receipt.
SettledIsTrue ==
  \A c \in Calls : pc[c] = "settled" =>
    /\ PaymentOf[c] \in credited \ reversed
    /\ blocks[PaymentOf[c]] = 1
    /\ \A d \in Calls \ {c} : PaymentOf[d] = PaymentOf[c] => pc[d] # "settled"

\* "Idempotencia en cada paso (reintentos seguros ante fallo parcial)": when a
\* call is told that its payment is a duplicate and no other call is at work on
\* it, the payment has been posted or reversed.
DuplicateIsFinished ==
  [][\A c \in Calls :
       /\ pc[c] # "duplicate" /\ pc'[c] = "duplicate"
       /\ \A d \in Calls \ {c} : PaymentOf[d] = PaymentOf[c] => pc[d] \notin Steps
       => blocks[PaymentOf[c]] > 0 \/ PaymentOf[c] \in reversed]_vars
=============================================================================
