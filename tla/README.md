# Isabella AI: specifications and proofs

TLA+ models of the parts of Isabella whose correctness depends on order, concurrency, failure or
money. Each module is translated from the TypeScript under `src/`, model-checked with TLC on small
instances, and its central invariants are proved with TLAPS for every value of the constants.

## The system

Isabella is a governed AI orchestrator: a Node process (`src/src/server.ts` and the routes in
`src/src/lib/express-routes.ts` and `src/src/server-routes/`) with PostgreSQL behind it, several of
which can run at once. Its rule is CAPABILITY ≠ AUTHORITY ≠ EXECUTION ≠ EVIDENCE: what a tool can do,
who may ask for it, that it ran, and the proof that it ran are kept apart. Paths below are relative to
`src/src/`.

| Part | State | Operations | What is hard | What makes it correct | Here |
|---|---|---|---|---|---|
| Event bus (`lib/eventbus.server.ts`, `lib/durable-json.server.ts`) | arrays outbox, processed, dlq, mirrored to JSON files | publish, subscribe, deliver, drainOutbox, replay | every publish drains the same array while others are suspended in handlers; retries; trims; restarts | no accepted event lost, none revived, deliveries bounded by attempts | `EventBus` |
| Webhook claims (`lib/economic-events.ts`) | table webhook_events | claim, mark processed, mark failed | lost answers, claims that get old under a running handler | a processed event stays processed | `WebhookEvents` |
| Settlement saga (`lib/financial-settlement.ts`) | claims, economic_events, BookPI | claim, record, append, compensate, account, audit | concurrent deliveries, crashes between two stores | one credit, at most one block after it, one true receipt | `Settlement`, `PaymentLedger` |
| Stripe webhook (`lib/billing/stripe.ts`) | claims, subscriptions, what Stripe was told | handleStripeWebhook | overlapping deliveries, failures after the commit | processed means saved | `StripeWebhook` |
| BookPI ledger (`lib/repositories/bookpi-postgres-runtime.ts`) | table bookpi_ledger, a hash chain per tenant | append, batchAppend, refund, verifyLedger | concurrent transactions, lost commits | one chain, no fork, no lost or repeated index | `BookPi`, `HashChain` |
| Wallet and governance (`domains/economy/`, routes in `src/server.ts`) | revenue events, volumes and counts, wallets, payouts, profiles | sale, treasury credit, debit, settle, payout, complete, fail | one event id space for all wallets, counters over days and hours, a failed payout whose wallet is re-parsed from its key | balance and payouts add up to what was earned, limits hold, an approved sale is paid once | `Economy`, `Funds` |
| Creator economy (`lib/creator-economy/`) | entitlements, ledger, offers, KYC, payouts | plan, skill run, refill, top-up, gift, offer, mature, payout | a refund after an await, retried keys, keys of one operation that meet those of another, unchecked maturings | credits and money conserved, one payout per key | `CreatorEconomy`, `Funds` |
| Rate limiter (`middleware/rateLimit.ts`) | a key in Redis, buckets in memory | INCR, EXPIRE, TTL, decide | three awaited commands of several replicas, failures, answers without a result, crashes | no place let through twice, every dated window ends | `RateLimiter` |
| Decision ledger (`lib/governance/decision-ledger.ts`, `lib/repositories/decision-repository.ts`) | hash chain of decisions | recordDecision, append, verifyChain | last hash read before the await, snapshot older than the lock | one chain, no fork | hazard listed |
| Kill switch (`lib/kill-switch.ts`) | events in memory, capability rows | engage, release, step, resolve | an event is read before an await and written after; resolving one of two events of a capability releases it; without a database every call has a store of its own | a capability under an active event is not released | hazard listed |
| Execution authority (`lib/execution-authority.ts`, `lib/governance/human-approval.ts`) | grants, tokens, kill switches, decisions | execute, grant, consume | every check is awaited before the tool runs; the audit repository is looked for after it ran | no sensitive execution without its own grant and record | hazard listed |
| Connector webhook queue (`lib/connectors/webhook-event-store.ts`) | rows with status and attempts | claim, takePending, markStatus, process | worker crash leaves rows in processing, lost mark after the handler | no event lost or handled twice | not modelled |
| API keys (`lib/api-key-service.ts`) | key rows | create, verify, revoke, rotate, delete | read then update; revoke then create | a revoked key is never accepted again, a rotation has one successor | hazard listed |
| Circuit breaker (`infrastructure/circuit-breaker/index.ts`) | state, counters | execute, reset | late results of calls begun in an older state | opens on failures, recovers | not modelled: no importer |
| Atlas kernel (`lib/atlas-kernel.server.ts`) | audit array with hashes | recordAudit, verifyAuditChain | verification starts at GENESIS although the head is trimmed | the chain verifies | not modelled |

How they interact: the HTTP routes call one component each. `handleStripeWebhook` claims its event in
webhook_events, saves the plan and marks the row. `settlePayment` claims in the same table, then
writes economic_events, then appends to BookPI, and compensates in economic_events when the append
fails. Every component that wants evidence calls `recordAudit` of the Atlas kernel or appends to BookPI.
The event bus is in the process; DAO, documents, federation anchor and the bus itself mirror their
arrays to JSON files through `durable-json.server.ts`. The execution authority reads approvals,
capability tokens and the kill switch, runs the tool and writes the decision ledger and the audit. The
sale route passes the revenue event through governance to the creator's profile and the wallet in one
synchronous handler; the creator economy has entitlements, a ledger and payouts of its own. The rate
limiter stands before nearly every route.

What is not modelled at all, with the reason for each part, is in `PROJECT.json` under `components`:
text generation and scoring (inference engine, gateways, Crown, cognition, native ML, NCUA), stateless
authorization, adapters around external services, scanners and scripts, the user interface, and the
separate Python and Java programs.

## The modules

### EventBus: `lib/eventbus.server.ts`

The asynchronous tasks are the publish() calls, one per event, and the replay() calls. Node runs a task
until its next await, so `turn` is the task that holds the thread and `NoTask` means that all are
suspended. `pc`, `pos`, `cur`, `hnd` are a task's position in drainOutbox(), its loop index over
`outbox`, the row it delivers and its loop index over the handlers. `for (const row of outbox)` is an
index into a live array, so the head trims of other publishes shift it (`NextPending`). `rows` holds
the row objects, which outlive their place in the array; `disk` is the three files, which each save
replaces. `Restart` reads the files back and drops every task.

| Code | Actions |
|---|---|
| publish() and its drain | `Publish`, `DrainRow`, `MarkPublished`, `ParkOrKeep`, `DrainEnd`, `RecordAudit` |
| deliver() | `Invoke`, `HandlerOk`, `HandlerThrows`, `DeliverEnd` |
| replay() | `Replay`, `ReplayRow`, `ReplayResume`, `ReplayEnd` |
| subscribe(), module initialisers | `Subscribe`, `Restart` |

Signing, schema checks, topic strings and read-only views are left out. Not modelled: a write of a file
that fails, and a function subscribed twice. No production code calls subscribe() at this commit; the
handlers are whatever its contract allows, so they may succeed or throw at any time.

### WebhookEvents, Settlement, PaymentLedger: `lib/economic-events.ts`, `lib/financial-settlement.ts`

claimWebhookEvent() is one transaction on a locked row, hence one step with its answer as an argument.
`stale` says that the five minutes have passed. A statement that answers with an error may have been
executed (`error` in `Claim`, the second disjuncts of `Record` and `AppendLedger`). A call of
settlePayment() is one value of `Calls`, its `pc` the next step of the saga or the receipt; calls for
one payment are concurrent deliveries or retries. `Crash` kills the calls and keeps the tables.
`PaymentLedger` says what the stores promise of each other without mentioning any call: credit once,
post once and after the credit, reverse once and after the credit. `LedgerDiscipline` is the
refinement, with `posted <- blocks`. The append to BookPI is the contract `BookPi` implements: it may
have happened although it answered a failure.

### StripeWebhook: `lib/billing/stripe.ts` and its route

A delivery claims, saves the plan of a completed checkout, marks the row, or unmarks it in the catch.
Deliveries of one event overlap freely. `acked` is what Stripe was answered 200 for. `overtaken`, a
history variable, remembers the events whose claim got old while a delivery worked on them: only for
those may two deliveries work at once. saveSubscriptionPlan() is imported from
`lib/persistence/subscription-store.ts`, which does not define it, and is modelled from its call: it
saves, or throws before or after having saved.

### BookPi, HashChain: `lib/repositories/bookpi-postgres-runtime.ts`

Each statement of the append transaction is a step: connection and BEGIN (`Begin`), the wait for
pg_advisory_xact_lock (`Lock`), SELECT of the last block (`ReadLatest`), INSERT (`Insert`, which the
primary key can refuse), COMMIT with the answer or without it (`Commit`), a failure or death anywhere
(`Fail`). A batch is a chain of calls by `After`, refund() starts with its two SELECTs outside the
transaction (`FindTarget`). The lock id is a parameter, because tenants share one when the first 32
bits of their hashes agree. A hash is abstracted by the call that wrote the block; what it covers
besides the link is `content`, and `ReadBack` is what mapRow() makes of the stored content.
`HashChain` is an append-only chain per tenant that knows nothing of transactions.

### Economy: `domains/economy/` and the money routes of `src/server.ts`

Every operation is synchronous, so each is one step, and `Sale` is the whole route: revenue event
(`events`, whose ids are its positions), the rules in their order, profile, wallet. `Verdict` is the
rule that stops a sale and `EvaluatePolicy` what the rules counted until then: a rule counts before it
judges, the rules after the one that stops a sale count nothing. `ledger` holds the entries of all
wallets, because `ledgerByEvent` is one map for all: `Credit` looks an id up across wallets. `hour` is the
clock; `granted`, a history variable, sums what was approved on this day and in this hour, independent
of the counters. The operations of the wallet no route calls (debit, settlements, the ends of a payout)
are steps of `WalletStep` and `Next` with any arguments. Amounts are cents; currencies, provenance and
digests are left out, and so is `profile.wallet`, a second balance that recordTransaction() adds sales to
(`creators/creator-profile.ts:111-113`) and no payout or debit reduces.

A wallet's key is `tenant:principal`, and failPayout() takes the tenant back out of it with
`split(":")[0]` (`wallet.ts:204`). Nothing forbids a colon in a tenant id, so an id is the sequence of its
parts between colons, `WalletKey` their concatenation and `ReturnKey` the wallet failPayout() credits:
the same for a tenant without a colon, another one otherwise. `Conservation` holds of all wallets: the
money of a failed payout is in one balance, once, and is subtracted from the `paidOut` of the wallet that
got it. `FundsDiscipline` is said of the wallets in `Settled`, which get their own failed payouts back and
no others'; of the rest it is false, see the known deviations.

### CreatorEconomy: `lib/creator-economy/`

Only executeSkill() awaits: `StartRun` is the part up to the inference, `CompleteRun` and `RefundRun` what
follows it, and any other operation may come between. `run` is the state of an execution, `left` its
remainingCredits. `issued`, a history variable, is what a creator was given, less what a plan
assignment or a refill replaced. Of a double-entry transaction the model keeps the creator's lines;
`Balanced` is the check that refuses the others: for prices below the fees the positive lines do not
balance and the sale throws. The split is computed with the program's rounding, in cents. `posted` is
the set of idempotency keys with what they posted, `payouts` the requests by key. The refusals of a
route, whose only effect is an entitlement created on the way, are `Visit`.

Keys of sales are strings of the clients (`routes.ts:287`, `:313`), those of maturings and payouts of their
callers, and the ledger keeps them all in one set; a payout posts under `payout-ledger:<key>`, which is
`LedgerKey`. No key is assumed to differ from another, so a sale may hold a payout's ledger key. Then the
posting answers alreadyExisted, no payout is found, and `RequestPayout` inserts one without a debit, as
`payouts.ts:147-150` falls through. `Taken` names that case: `PayoutsBacked` says that it is the only one in
which a payout has no transaction of its own, and `FundsConserved` and `FundsDiscipline` that it leaves the
balances as they are, its amount not being counted as paid. `Threshold` is per currency; the balance it is
compared beside is not, since getAccountBalance() adds up the lines of all currencies.

### Funds, Sums: what both money modules promise

`Funds` is an owner's money without wallets, sales, keys or ledgers: an amount is received, matures, is
spent, or is held for a delivery that succeeds or fails. Nothing leaves but out of what is available,
and what is gone does not return. Both money modules implement it, by their property `FundsDiscipline`:

| Funds | Economy, per wallet in `Settled` | CreatorEconomy, per tenant |
|---|---|---|
| `received` | what was earned, settled or still pending | the sales in the ledger |
| `pending`, `available` | `pending`, `balance` of the wallet | the accounts of those names |
| `held` | the payouts that are pending | always 0: a requested payout leaves the books at once |
| `gone` | completed payouts and debits | the requested payouts with a transaction of their own, also those marked failed later |

So a failed payout of a wallet is a `Refund`, while one of the creator economy returns nothing. `Mature`
has no bound by what is pending, since maturePendingBalances() posts any amount. `Sums` is the sum of
amounts over a set of records that the conservation properties speak of.

### RateLimiter: `middleware/rateLimit.ts`

A request is at the command it is about to send (`step`) with what INCR answered (`place`). Each command
is executed and answered, executed with its answer lost, or not executed (`Fail`). Upstash may also answer
OK without a result: to INCR (`BlankIncr`), which counts as place 1 and sets no expiry (`rateLimit.ts:125`,
`:132`), and to EXPIRE (`BlankExpire`), whose result is not read. A replica may die with
its requests and its memory (`Crash`). `count` and `ttl` are the key of one client in Redis, whose last
`Tick` removes it, also under suspended requests. `production` and `backend` are fixed by the environment.
`current` and `admitted` are history: which requests the existing key counted and which places of it
were let through. The direct client is modelled as written, although `nodeRequire`, with which it loads
ioredis, is not exported at this commit; its only difference is that a failed TTL is ignored.

## What the runs check

| Run | Properties | Question |
|---|---|---|
| EventBus_core | TypeOK, CallsWithinAttempts, PublishedIsDurable, PublishReturns | overlapping drains, failing handlers, parking, replay, restart |
| EventBus_trim | NothingLeftUntried | trims under suspended drains make them skip rows: is any row left behind? |
| EventBus_idempotent | IdempotentDelivery, violated | the header's idempotency: processed is read before the handler and written after |
| Settlement_stores | TypeOK, SoleOwner, SettledIsTrue, LedgerDiscipline | do concurrent calls, retries and lost answers keep the stores in step? |
| Settlement_retry | DuplicateIsFinished, violated | a retry is told duplicate of a payment nobody finishes |
| StripeWebhook_claims | TypeOK, ProcessedIsSaved, OneWorker, ProcessedIsFinal | overlapping deliveries, slow ones, failures after commits |
| StripeWebhook_acked | AckedIsProcessed, violated | an event in progress is acknowledged, its worker then fails |
| BookPi_chain | TypeOK, NoClash, ExactChainVerifies, AppendOnlyChain | does the lock make one chain per tenant out of concurrent transactions? |
| Economy_flow | TypeOK, Conservation, LimitsHold, ApprovedIsCredited, ReputationIsEarned, FundsDiscipline | do sales, credits, debits, settlements and payouts in any order keep the money and the limits? |
| CreatorEconomy_money | TypeOK, CreditsConserved, FundsConserved, PayoutsBacked, FundsDiscipline | do suspended skill runs, retried keys and keys shared by payouts and sales keep credits and money? |
| RateLimiter_window | TypeOK, WindowLimit, AdmittedIsAnswered, DatedWindowEnds | does one key shared by replicas limit those it gave a place, fail closed and expire? |
| RateLimiter_forever | LimitedForAWhile, violated | INCR without EXPIRE: the client is limited for ever |

The violated properties quote the sentence of the repository they come from; `findings` in
`PROJECT.json` says where code and sentence part.

### Known deviations without a run

Met while modelling; each is decided by a line or two rather than by an order of steps, so no run is
spent on it.

- `lib/eventbus.server.ts:146`: an error row in processed counts as handled, so the retry of a failed row
  skips the failed handler and publishes the event.
- `lib/financial-settlement.ts:139`: the reversal of a payment is recorded as a second CREDIT.
- `lib/repositories/bookpi-postgres-runtime.ts:152`: mapRow() drops the milliseconds of the hashed timestamp
  and the column drops decimals of the cost, so verifyLedger() may refuse an untouched chain.
  `ExactChainVerifies` therefore speaks of chains whose blocks hash again.
- `lib/repositories/bookpi-postgres-runtime.ts:376`: refund() looks for an operation that no refund stores,
  so no second refund is refused.
- `src/server.ts:2413` says that a rejection leaves all stores untouched; the sale is in the revenue ledger
  and in the counters before the verdict.
- `domains/economy/wallet/wallet.ts:220`: verifyLedgerIntegrity() compares the balance with the entries,
  which settlements and payouts do not make.
- `domains/economy/wallet/wallet.ts:204`: failPayout() takes the tenant from before the first colon of the
  wallet's key, so a tenant whose id holds a colon never gets the money of a failed payout back; the
  wallet of another one does, and its totalPaidOut falls below zero. The comment at `wallet.ts:196` says "se
  devuelven los fondos al balance para no perder dinero del creador".
- `lib/creator-economy/payouts.ts:147`: when a sale or a maturing holds the ledger key of a payout, the payout
  is inserted without a debit, and the same available money backs the next one; `payouts.ts:9` says "double
  requests never double-dispense".
- `lib/creator-economy/payouts.ts:111`: the threshold is the currency's, while the available balance it is
  checked beside (`payouts.ts:119`) adds up all currencies.
- `middleware/rateLimit.ts:132`: an answer of Upstash without a result passes for the first of a window,
  whatever the key holds; in production, too.
- `middleware/rateLimit.ts:188`: outside production a request whose command failed is counted in memory
  and passed without comparing the count, so no limit bounds these.
- `lib/creator-economy/economy-service.ts:235`: a replayed purchase counts a sale again; `:160`: the limit
  of active offers is compared at creation and not at activation.
- `lib/creator-economy/revenue.ts:84`: the lines of a split "satisfy Σdebit = Σcredit exactly" only for
  prices that cover their costs, because the net amount is cut off at zero. createOffer() accepts any
  integer price from 0 (`economy-service.ts:163`), and purchases at the low ones throw. `PriceFloor`
  proves where they end: 448 cents on the web, 726 in the app store.

### Bounds, and why they are enough

- EventBus: `MAX_OUTBOX`, `MAX_DLQ`, `MAX_PROCESSED` and the five attempts are constants, scaled to 1–5 so
  that trimming and parking happen with two or three events; `MaxRestarts` is 1. Two drains are what
  it takes to overlap, a third one (EventBus_trim) to be shifted by a trim while it is suspended
  between two others. The core run has an outbox of one, so every second publish trims. No violation
  of the invariants needs more than one handler per drain to go wrong; the core run has two, for
  partial success.
- Settlement, StripeWebhook: three calls of one payment are a worker, one that takes over a stale claim
  and one that finds the result; a fourth, of another payment, checks that payments do not mix. One
  crash (`MaxCrashes`) kills all running calls; later calls are the retries.
- BookPi: four calls of one tenant (a batch of two, one append, one refund) and one of another. The
  contents are two: one the row gives back and one it does not.
- Economy: two creators, of a tenant with a colon in its id and one without, hence three wallets, one of
  which only receives a failed payout of another tenant; ids are looked up across all. A day of two hours
  and three hours in all, so that an hour and a day end; two sales out of three amounts: within the limits,
  at them, and above the single limit, so that the second sale reaches the daily and the hourly one; one
  caller id, which meets itself and the ids of sales. 2.1 million states, under three minutes.
- CreatorEconomy: two creators of one tenant share its accounts and a payout key; two runs of one
  creator overlap each other and every entitlement change; two sale keys for gifts and an offer, of which
  one is the ledger key of the payout; two maturings, so that more matures than is pending and two payouts
  could be backed. A gift of 5000 leaves its creator more than the threshold of a payout; an offer of 500
  balances on the web and throws in the app store. The amounts reach the threshold of one currency and not
  of the other. The maturing keys are symmetric: nothing tells them apart. `MaxCredits` and `MaxSales` bound
  the counters. 0.6 million states, under three minutes.
- RateLimiter: two connections on two replicas, a limit of two and a window of two ticks: a key can be
  created, filled, exceeded, and expire under a suspended request. Counts above `MaxCount` = 3 are not
  told apart, since only the comparison with 1 and with the limit is made.
- The theorems below hold without these bounds.

### Deadlock

In EventBus, Settlement, StripeWebhook, Economy and CreatorEconomy the runs switch the deadlock check off: the inputs are
finite, so the system stops when every call has answered, or when the bounds of the model on events,
hours, payouts and keys are reached. A rate limiter never stops: its runs check for deadlock. BookPi has the step `Finished` for that
state, so its runs keep the check on: whenever a call has not answered, some call can move, though
for one that waits for the lock this may be its own failure.

### Fairness

EventBus and RateLimiter have liveness properties. In EventBus `FairSpec` is weak fairness of the steps of each task: Node
resumes every suspended task whose promise has settled, and a handler's promise is assumed to
settle. publish(), subscribe(), replay() and restarts are the environment's and have no fairness.
`PublishReturns` allows a publish to die with its process. In RateLimiter `FairSpec` says that time passes
(`Tick`) and that a command which was sent is executed, answered or fails, as Redis clients with timeouts
do; arrivals and crashes have no fairness, and neither has the success of a command, so the violation of
`LimitedForAWhile` does not rest on a Redis that never answers: one failed EXPIRE is enough.

## What is proved

TLAPS checks these for all values of the constants that satisfy the named assumptions: the types of
the constant maps, markers that are no ids, positive limits and, for the counts of EventBus, finite
sets. In Economy, ids have at least one part between colons (`UserAssumption`), amounts are positive,
the single limit is no more than the daily one, and no caller's own event id is that of a sale
(`IdAssumption`: those are random). In CreatorEconomy nothing is assumed of keys. TLC evaluates every
assumption in the runs.

- **EventBusProofs.** `TypeCorrect` rests on `TypeInv`, which adds that a suspended delivery waits for a
  subscribed handler: without it `hnd` could point outside the list. `Durable` is inductive with the
  types. `CallsBounded` needs `Covered`: calls made plus calls a running drain may still make
  (`Unspent`) are at most the attempts of the row. The bound on calls made alone is not inductive,
  because a drain that has counted its attempt owes calls to handlers that come later in the list.
  `Tried` rests on `Ahead`: a row no drain has tried is pending and lies ahead of the loop index of some
  drain. A trim moves rows towards the head, past the indexes of suspended drains, but only a publish
  trims, and its own drain starts before every row.
- **SettlementProofs.** The invariant is a view of the stores from each program point (`OwnerView`: who
  holds the credit finds no reversal, and a block if and only if it is past the append), the
  exclusiveness of owners (`OneOwner`) and the order of the stores (`StoreOrder`). From it follow
  `Ownership`, `SettledReceipts` and `Refinement` (Spec implements PaymentLedger: every step is one
  of its actions or a stutter). A call owns a payment because the unique key made its insert succeed;
  the webhook claim is not used anywhere in the proof.
- **StripeWebhookProofs.** `ProcessedSaved` from `SavedInv` (a delivery about to mark has saved),
  `ProcessedFinal` as an action property, and `SingleWorker` from `HeldInv` (the claim of an event at
  work on is neither free nor shared unless it got old under a delivery).
- **BookPiProofs.** `Inv` has three parts besides the types. `Exclusive`: one transaction per lock id.
  `Fresh`: what a transaction has read is still the last block of its tenant when it inserts and when
  it commits, which holds because only a holder of the same lock can add to that tenant. `Chained`: each
  tenant's rows have a last one, distinct indexes, and a link to the index before. `CommitAppends` then
  shows that a commit adds one block HashChain accepts, which gives `Refinement`; `Serialized` (no
  INSERT is refused) follows since the index after the last is free; `LinksVerify` walks the links as
  verifyLedger() does. Nothing is assumed of the lock ids, so shared ids are covered.

- **SumsProofs.** `SumOver` chooses the order in which it takes members out, so the sum over one more
  member does not follow from unfolding it, and an induction over its argument is out of reach. The
  lemmas go around it: an amount n of x stands for n pairs of x (`UnitsOf`), the number of these pairs
  satisfies the equation of the recursion, and two solutions cannot differ at a subset of least
  cardinality; hence a sum is the cardinality of a finite set (`SumCounts`). From cardinalities follow the
  sums over one member more or less (`SumAdd`, `SumRemove`), over no member, and of an equal function.
- **EconomyProofs.** `Limits` needs that the counters of the current day and hour are at least what was
  approved in them (`Counted`); the limits alone are not inductive, because the comparison is made with
  the counters. `SalesCredited` needs that no entry has the id of a sale to come (`LedgerIds`): then the
  credit of an approved sale is never taken for a repetition. `ReputationEarned` rests on the same fact:
  the profile and the wallet receive the share together. `TypeCorrect` is inductive by itself.
  `MoneyConserved` needs besides that the ledger is finite, and that an entry is made with an id that has
  none, so that `Enter` adds its amount to one sum; a payout that ends was pending, so it had not been
  returned anywhere. `Refinement` shows each operation to be one step of Funds or none, from the same
  invariant, for the wallets in `Settled`: an operation of another tenant's wallet, and the return of its
  failed payout, leave them as they are.
- **CreatorEconomyProofs.** `TypeCorrect` includes that credits and available money stay natural numbers:
  the deduction is compared in the same step, and a refund only adds. `PayoutsOnce` is inductive with the
  types: a ledger key that is known without a payout of that key is not a payout's, so it is taken
  (`KnownIsTaken`), and otherwise the transaction is posted. `CreditsKept` is inductive with the types: a
  run starts, is completed or is refunded in one step each, and each changes the set of the runs that cost
  by at most one. `FundsKept` needs that ledger and payouts are finite, and that no posting changes whether
  the ledger key of an existing payout is taken (`TakenSame`): a payout that is not taken has a transaction
  of its own, which holds the key. `StepMoves` sorts every operation into the three moves of a tenant's
  books and rest, from which both `FundsKept` and `Refinement` follow; a request under a taken key rests.
  `PriceFloor` is arithmetic: the bounds of each rounding show that a price covers its parts from
  451 (734) on, and the prices between the floor and there are computed one by one.
- **RateLimiterProofs.** `WindowKept` needs `Counted`: the requests a key counted are past INCR and have a
  place, and the places it admitted are at most its count, so a new INCR gets a place nobody has. It
  bounds what passes on such places; what passes without one (an answer without result, the memory of a
  replica outside production) it does not speak of. `FailsClosed` needs from `Counted` that a request past
  INCR has a positive place or an answer of Upstash without result, the two ways through in production.

Only model-checked: `PublishReturns` and `DatedWindowEnds`, which are liveness under fairness, and the
violated properties. Every safety property of the passing runs is a theorem.

## Not modelled

`PROJECT.json` lists every part with its reason under `components`. The reasons are of four kinds: behaviour
that is data rather than control (text generation, scoring, rendering); parts that import functions this
commit does not define, or that nothing calls, so that what they do would be guessed (execution
authority, connector queue, circuit breaker, quotas); synchronous records in a map or single statements
on one row (DAO, documents, marketplace, disputes, API keys, kill switch); and external services.

## Plan

Done: EventBus, WebhookEvents, Settlement, StripeWebhook, BookPi, Economy, CreatorEconomy and RateLimiter,
each with its proofs. What could follow, in this order:

1. `DecisionLedger`, held to HashChain, once the migration with its constraints is in the repository.
2. `KillSwitch`: events and capability rows, with two processes that engage and resolve.
3. `ExecutionAuthority` over grants, the kill switch and the decision ledger, once its imports exist; the
   abstract specification is one execution per grant, and evidence for each.
4. `ApiKeys`: verification against revocation, expiry and rotation.
5. A composition of Settlement and StripeWebhook over one WebhookEvents table.
