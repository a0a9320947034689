----------------------------- MODULE CreatorEconomy -----------------------------
(***************************************************************************)
(* lib/creator-economy: plans and skill credits (skills-engine.ts), gifts,  *)
(* offers and KYC (economy-service.ts), the double-entry ledger (ledger.ts,  *)
(* revenue.ts) and payouts (payouts.ts) over the store in memory.  Every     *)
(* operation is synchronous but executeSkill(), which awaits the inference   *)
(* between the deduction of its credits and their refund.  Of a ledger       *)
(* transaction the creator's lines are kept: their sums are what             *)
(* getAccountBalance() returns for creator_payable_pending and _available,    *)
(* of all currencies together; a currency only chooses a payout's threshold. *)
(* Keys of sales, maturings and payouts are the callers' strings, in one set *)
(* of the ledger, and may be equal; a payout posts under its prefixed key.   *)
(***************************************************************************)
EXTENDS Sums

CONSTANTS
  Creators, TenantOf,           \* creators and the tenant each belongs to
  Runs, CreatorOf, CostOf, PlanOf, \* skill runs: creator, credits, plan required
  Plans, Monthly, MaxActive,    \* plans in use, their monthly credits and offers (-1: any)
  TopUps, MaxCredits,           \* top-up sizes; bound of the model on a balance
  Offers, SellerOf, PriceOf,    \* offers, their creators and prices
  GiftPrices,                   \* prices of the gift catalogue
  SaleKeys, MatureKeys, PayoutKeys, \* idempotency keys of sales, maturings, payouts
  Amounts,                      \* amounts to mature or pay out
  Currencies, Threshold,        \* least payout in each currency
  MaxSales                      \* bound of the model on an offer's counter

Order == <<"free", "premium", "pro", "business">>
Rank(plan) == CHOOSE i \in 1..4 : Order[i] = plan
PlatformShare == [free |-> 30, premium |-> 15, pro |-> 10, business |-> 5]
\* canCreateOffers, canReceiveGifts and canRequestPayout of a plan.
Earning(plan) == plan \in {"premium", "pro", "business"}

ASSUME PlanAssumption ==
  /\ Plans \subseteq {"free", "premium", "pro", "business"} /\ "free" \in Plans
  /\ Monthly \in [Plans -> Nat] /\ MaxActive \in [Plans -> Nat \cup {-1}]
  /\ TopUps \subseteq Nat \ {0}
ASSUME RunAssumption ==
  /\ CreatorOf \in [Runs -> Creators] /\ CostOf \in [Runs -> Nat \ {0}] /\ PlanOf \in [Runs -> Plans]
ASSUME SaleAssumption ==
  /\ SellerOf \in [Offers -> Creators] /\ PriceOf \in [Offers -> Nat] /\ GiftPrices \subseteq Nat
  /\ Amounts \subseteq Nat \ {0} /\ Threshold \in [Currencies -> Nat]

\* payout-ledger:<key>, the key of a payout's transaction.
LedgerKey(key) == <<"payout-ledger", key>>

Keys    == SaleKeys \cup MatureKeys \cup {LedgerKey(key) : key \in PayoutKeys}
Tenants == {TenantOf[c] : c \in Creators}

VARIABLES
  plan, credits, \* entitlement of a creator; plan "none": no entitlement yet
  run, left,     \* skill runs, and the credits each left (remainingCredits)
  issued,        \* history: credits issued to a creator, less those that a plan
                 \* assignment or a refill replaced
  posted,        \* ledger transactions by idempotency key
  pending, available, \* balances of a tenant's creator accounts
  offer,         \* offers and their sales evidence
  cleared,       \* creators with level_2_full KYC and a matching bank account
  payouts        \* payout requests by idempotency key

skills == <<plan, credits, run, left, issued>>
books  == <<posted, pending, available>>
vars   == <<skills, books, offer, cleared, payouts>>

Init ==
  /\ plan = [c \in Creators |-> "none"]
  /\ credits = [c \in Creators |-> 0]
  /\ run = [r \in Runs |-> "idle"]
  /\ left = [r \in Runs |-> 0]
  /\ issued = [c \in Creators |-> 0]
  /\ posted = {}
  /\ pending = [t \in Tenants |-> 0]
  /\ available = [t \in Tenants |-> 0]
  /\ offer = [o \in Offers |-> [status |-> "none", sales |-> 0]]
  /\ cleared = {}
  /\ payouts = {}

-----------------------------------------------------------------------------
\* skills-engine.ts

SetEntitlement(c, p, n) ==
  /\ plan' = [plan EXCEPT ![c] = p]
  /\ credits' = [credits EXCEPT ![c] = n]

\* What getOrCreateEntitlement() returns, created as a free plan if missing.
PlanNow(c)    == IF plan[c] = "none" THEN "free" ELSE plan[c]
CreditsNow(c) == IF plan[c] = "none" THEN Monthly["free"] ELSE credits[c]
IssuedNow(c)  == issued[c] + CreditsNow(c) - credits[c]

\* GET /creator/profile, and a skill run that is refused.
Visit(c) ==
  /\ plan[c] = "none"
  /\ SetEntitlement(c, "free", CreditsNow(c))
  /\ issued' = [issued EXCEPT ![c] = IssuedNow(c)]
  /\ UNCHANGED <<run, left, books, offer, cleared, payouts>>

\* assignPlan() and refillMonthlyCredits(): the balance is replaced.
Reset(c, p) ==
  /\ SetEntitlement(c, p, Monthly[p])
  /\ issued' = [issued EXCEPT ![c] = @ + Monthly[p] - credits[c]]
  /\ UNCHANGED <<run, left, books, offer, cleared, payouts>>

AssignPlan(c, p) == Reset(c, p)
RefillMonthlyCredits(c) == plan[c] # "none" /\ Reset(c, plan[c])

TopUpCredits(c, n) ==
  /\ CreditsNow(c) + n <= MaxCredits
  /\ SetEntitlement(c, PlanNow(c), CreditsNow(c) + n)
  /\ issued' = [issued EXCEPT ![c] = IssuedNow(c) + n]
  /\ UNCHANGED <<run, left, books, offer, cleared, payouts>>

\* executeSkill() up to the await: checks and deduction are one step.
StartRun(r) ==
  LET c == CreatorOf[r] IN
  /\ run[r] = "idle"
  /\ Rank(PlanNow(c)) >= Rank(PlanOf[r])
  /\ CreditsNow(c) >= CostOf[r]
  /\ SetEntitlement(c, PlanNow(c), CreditsNow(c) - CostOf[r])
  /\ issued' = [issued EXCEPT ![c] = IssuedNow(c)]
  /\ run' = [run EXCEPT ![r] = "infer"]
  /\ left' = [left EXCEPT ![r] = CreditsNow(c) - CostOf[r]]
  /\ UNCHANGED <<books, offer, cleared, payouts>>

CompleteRun(r) ==
  /\ run[r] = "infer"
  /\ run' = [run EXCEPT ![r] = "completed"]
  /\ UNCHANGED <<plan, credits, left, issued, books, offer, cleared, payouts>>

\* Mutant: the refund starts from the entitlement read before the await.
MutRefundRun(r) ==
  /\ run[r] = "infer"
  /\ run' = [run EXCEPT ![r] = "refunded"]
  /\ credits' = [credits EXCEPT ![CreatorOf[r]] = left[r] + CostOf[r]]
  /\ UNCHANGED <<plan, left, issued, books, offer, cleared, payouts>>
\* The inference failed: the refund goes to the entitlement of now.
RefundRun(r) ==
  /\ run[r] = "infer"
  /\ run' = [run EXCEPT ![r] = "refunded"]
  /\ credits' = [credits EXCEPT ![CreatorOf[r]] = @ + CostOf[r]]
  /\ UNCHANGED <<plan, left, issued, books, offer, cleared, payouts>>

-----------------------------------------------------------------------------
\* revenue.ts: the split of a price.  roundHalfUp(n / d).
Round(n, d) == (2 * n + d) \div (2 * d)

Vat(gross)     == Round(16 * gross, 116)
Fee(gross)     == LET base == Round(36 * gross, 1000) + 300 IN base + Round(16 * base, 100)
StoreCut(gross, channel) == IF channel = "app_store" THEN (30 * gross) \div 100 ELSE 0
Reserve(gross) == Round(5 * (gross - Vat(gross)), 100)
AtLeastZero(n) == IF n < 0 THEN 0 ELSE n
Net(gross, channel) ==
  AtLeastZero(gross - Vat(gross) - Fee(gross) - StoreCut(gross, channel) - Reserve(gross))
CreatorShare(gross, channel, p) == Round(Net(gross, channel) * (100 - PlatformShare[p]), 100)

\* splitToLedgerLines() drops lines that are not positive; postTransaction()
\* throws when the debits left are not the credits left.  The fees are on both
\* sides.
Balanced(gross, channel) ==
  AtLeastZero(gross - Fee(gross) - StoreCut(gross, channel)) =
    Vat(gross) + Reserve(gross) + Net(gross, channel)

-----------------------------------------------------------------------------
\* ledger.ts

Known(key) == \E t \in posted : t.key = key

\* Mutant: the entries are inserted before the key is looked up.
MutPost(key, tenant, kind, amount, toPending, toAvailable) ==
  /\ posted' = IF Known(key) THEN posted
               ELSE posted \cup {[key |-> key, tenant |-> tenant, kind |-> kind, amount |-> amount]}
  /\ pending' = [pending EXCEPT ![tenant] = @ + toPending]
  /\ available' = [available EXCEPT ![tenant] = @ + toAvailable]
\* insertTransaction() refuses a key it knows, of whatever tenant.
Post(key, tenant, kind, amount, toPending, toAvailable) ==
  IF Known(key) THEN UNCHANGED books
  ELSE /\ posted' = posted \cup {[key |-> key, tenant |-> tenant, kind |-> kind, amount |-> amount]}
       /\ pending' = [pending EXCEPT ![tenant] = @ + toPending]
       /\ available' = [available EXCEPT ![tenant] = @ + toAvailable]

\* A sale credits the creator's share, if any is left.
PostSale(key, tenant, share) == Post(key, tenant, "sale", share, share, 0)

-----------------------------------------------------------------------------
\* economy-service.ts

\* The books are those of the buyer's tenant; the plan is the creator's.
PurchaseGift(c, tenant, price, channel, key) ==
  /\ Earning(plan[c]) /\ Balanced(price, channel)
  /\ PostSale(key, tenant, CreatorShare(price, channel, plan[c]))
  /\ UNCHANGED <<skills, offer, cleared, payouts>>

Active(c) == {o \in Offers : SellerOf[o] = c /\ offer[o].status = "active"}

CreateOffer(o) ==
  LET c == SellerOf[o] IN
  /\ offer[o].status = "none" /\ Earning(plan[c])
  /\ MaxActive[plan[c]] = -1 \/ Cardinality(Active(c)) < MaxActive[plan[c]]
  /\ offer' = [offer EXCEPT ![o].status = "draft"]
  /\ UNCHANGED <<skills, books, cleared, payouts>>

\* The limit of active offers was checked at creation, not here.
ActivateOffer(o) ==
  /\ offer[o].status = "draft"
  /\ offer' = [offer EXCEPT ![o].status = "active"]
  /\ UNCHANGED <<skills, books, cleared, payouts>>

\* A repeated key posts nothing, but the sale is counted again.
PurchaseOffer(o, channel, key) ==
  LET c == SellerOf[o] IN
  /\ offer[o].status = "active" /\ offer[o].sales < MaxSales
  /\ Balanced(PriceOf[o], channel)
  /\ PostSale(key, TenantOf[c], CreatorShare(PriceOf[o], channel, PlanNow(c)))
  /\ offer' = [offer EXCEPT ![o].sales = @ + 1]
  /\ UNCHANGED <<skills, cleared, payouts>>

\* submitKyc() replaces the status; a later submission may take it back.
SubmitKyc(c, complete) ==
  /\ cleared' = IF complete THEN cleared \cup {c} ELSE cleared \ {c}
  /\ UNCHANGED <<skills, books, offer, payouts>>

-----------------------------------------------------------------------------
\* payouts.ts

\* The amount is not compared with what is pending.
MaturePendingBalances(tenant, amount, key) ==
  /\ Post(key, tenant, "mature", amount, -amount, amount)
  /\ UNCHANGED <<skills, offer, cleared, payouts>>

\* Mutant: what is pending counts as available.
MutRequestPayout(c, amount, currency, key) ==
  LET tenant == TenantOf[c] IN
  /\ ~\E p \in payouts : p.key = key
  /\ Earning(plan[c]) /\ c \in cleared
  /\ amount >= Threshold[currency] /\ amount <= available[tenant] + pending[tenant]
  /\ Post(LedgerKey(key), tenant, "payout", amount, 0, -amount)
  /\ payouts' = payouts \cup
       {[key |-> key, creator |-> c, tenant |-> tenant, amount |-> amount, status |-> "requested"]}
  /\ UNCHANGED <<skills, offer, cleared>>
\* Mutant: only the creator's own requests are looked up.
MutReplay(c, amount, currency, key) ==
  LET tenant == TenantOf[c] IN
  /\ ~\E p \in payouts : p.key = key /\ p.creator = c
  /\ Earning(plan[c]) /\ c \in cleared
  /\ amount >= Threshold[currency] /\ amount <= available[tenant]
  /\ Post(LedgerKey(key), tenant, "payout", amount, 0, -amount)
  /\ payouts' = payouts \cup
       {[key |-> key, creator |-> c, tenant |-> tenant, amount |-> amount, status |-> "requested"]}
  /\ UNCHANGED <<skills, offer, cleared>>
\* requestPayout(): a key that has a payout returns it, whoever asked for it.
\* Without one the payout is inserted, even when the ledger knows its key (of a
\* sale or a maturing) and posts nothing.  The amount is in the currency of the
\* request, what is available in none.
RequestPayout(c, amount, currency, key) ==
  LET tenant == TenantOf[c] IN
  /\ ~\E p \in payouts : p.key = key
  /\ Earning(plan[c]) /\ c \in cleared
  /\ amount >= Threshold[currency] /\ amount <= available[tenant]
  /\ Post(LedgerKey(key), tenant, "payout", amount, 0, -amount)
  /\ payouts' = payouts \cup
       {[key |-> key, creator |-> c, tenant |-> tenant, amount |-> amount, status |-> "requested"]}
  /\ UNCHANGED <<skills, offer, cleared>>

\* Mutant: the payout is inserted with its new status beside the old one.
MutMarkPayout(p, status) ==
  /\ payouts' = payouts \cup {[p EXCEPT !.status = status]}
  /\ UNCHANGED <<skills, books, offer, cleared>>
\* markPayoutPaid() and markPayoutFailed() from any status; no money returns.
MarkPayout(p, status) ==
  /\ payouts' = (payouts \ {p}) \cup {[p EXCEPT !.status = status]}
  /\ UNCHANGED <<skills, books, offer, cleared>>

-----------------------------------------------------------------------------
SkillStep(c) ==
  \/ Visit(c) \/ RefillMonthlyCredits(c)
  \/ \E p \in Plans : AssignPlan(c, p)
  \/ \E n \in TopUps : TopUpCredits(c, n)

SaleStep(key, channel) ==
  \/ \E c \in Creators, t \in Tenants, price \in GiftPrices : PurchaseGift(c, t, price, channel, key)
  \/ \E o \in Offers : PurchaseOffer(o, channel, key)

PayoutStep ==
  \/ \E t \in Tenants, n \in Amounts, key \in MatureKeys : MaturePendingBalances(t, n, key)
  \/ \E c \in Creators, n \in Amounts, currency \in Currencies, key \in PayoutKeys :
       RequestPayout(c, n, currency, key)
  \/ \E p \in payouts, status \in {"paid", "failed"} : MarkPayout(p, status)

Next ==
  \/ \E c \in Creators : SkillStep(c) \/ \E done \in BOOLEAN : SubmitKyc(c, done)
  \/ \E r \in Runs : StartRun(r) \/ CompleteRun(r) \/ RefundRun(r)
  \/ \E o \in Offers : CreateOffer(o) \/ ActivateOffer(o)
  \/ \E key \in SaleKeys, channel \in {"web", "app_store"} : SaleStep(key, channel)
  \/ PayoutStep

Spec == Init /\ [][Next]_vars

-----------------------------------------------------------------------------
RunsAt(c, steps) == {r \in Runs : CreatorOf[r] = c /\ run[r] \in steps}
Of(kind, t)      == {x \in posted : x.kind = kind /\ x.tenant = t}
PaidOut(t)       == {p \in payouts : p.tenant = t}
Total(records)   == SumOver([x \in records |-> x.amount], records)

\* The stores keep their shape; no run and no payout, in any interleaving with
\* plans, refills, top-ups and other requests, takes credits or available money
\* below zero.
TypeOK ==
  /\ plan \in [Creators -> Plans \cup {"none"}] /\ credits \in [Creators -> Nat]
  /\ run \in [Runs -> {"idle", "infer", "completed", "refunded"}] /\ left \in [Runs -> Nat]
  /\ issued \in [Creators -> Int]
  /\ posted \subseteq [key : Keys, tenant : Tenants, kind : {"sale", "mature", "payout"}, amount : Nat]
  /\ pending \in [Tenants -> Int] /\ available \in [Tenants -> Nat]
  /\ offer \in [Offers -> [status : {"none", "draft", "active"}, sales : Nat]]
  /\ cleared \subseteq Creators
  /\ payouts \subseteq [key : PayoutKeys, creator : Creators, tenant : Tenants, amount : Amounts,
                        status : {"requested", "paid", "failed"}]

\* A failed run never burns credits and a completed one is never free, whatever
\* happens to the entitlement while the inference is awaited: what was issued to
\* a creator is the balance and what the runs that did not fail cost.
CreditsConserved ==
  \A c \in Creators :
    issued[c] = credits[c] + SumOver(CostOf, RunsAt(c, {"infer", "completed"}))

\* The ledger key of a payout is that of a sale or a maturing; the others' amount
\* left the books.
Taken(key) == \E x \in posted : x.key = LedgerKey(key) /\ x.kind # "payout"
Backed(t)  == {p \in PaidOut(t) : ~Taken(p.key)}

\* The creators' money of a tenant is pending, available or in a payout, under
\* repeated keys, maturings of any amount and payouts that are marked twice.  A
\* payout whose ledger key a sale or a maturing took is left out of the sum: its
\* amount was never taken from the books.
FundsConserved ==
  \A t \in Tenants : pending[t] + available[t] + Total(Backed(t)) = Total(Of("sale", t))

TenantFunds == INSTANCE Funds WITH
  Owners <- Tenants,
  received <- [t \in Tenants |-> Total(Of("sale", t))],
  held <- [t \in Tenants |-> 0],
  gone <- [t \in Tenants |-> Total(Backed(t))]

\* The books of a tenant evolve as Funds: a step receives one sale, matures one
\* amount or pays out one amount that was available, whatever keys are repeated
\* and however often a payout is marked; money that left does not return.  A
\* payout under a taken key moves nothing in the books.
FundsDiscipline == TenantFunds!Spec

\* A key has one payout, also when requests are retried and meet other keys, and
\* its amount left the books of its tenant once, under a transaction of its own.
\* Only a payout whose ledger key a sale or a maturing holds has none, and that
\* transaction never is one of a payout.
PayoutsBacked ==
  /\ \A p, q \in payouts : p.key = q.key => p = q
  /\ \A t, u \in posted : t.key = u.key => t = u
  /\ \A p \in payouts : \/ Taken(p.key)
                        \/ [key |-> LedgerKey(p.key), tenant |-> p.tenant, kind |-> "payout",
                            amount |-> p.amount] \in posted
  /\ \A t \in posted : t.kind = "payout" => \E p \in payouts : t.key = LedgerKey(p.key)
=============================================================================
