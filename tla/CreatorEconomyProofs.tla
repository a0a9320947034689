------------------------- MODULE CreatorEconomyProofs -------------------------
(***************************************************************************)
(* Proofs about CreatorEconomy, for all creators, runs, plans, keys and     *)
(* amounts: credits and available money never go below zero, and a payout   *)
(* key has one payout.  Keys of sales, maturings and payouts may be equal,   *)
(* so the argument is about the transaction that holds a payout's ledger    *)
(* key: it is the payout's own, or one of a sale or a maturing that was     *)
(* there before the request, and no later posting changes which.  Credits   *)
(* and money are conserved (CreditsKept, FundsKept), a tenant's accounts    *)
(* implement Funds (Refinement), and PriceFloor gives the prices that can   *)
(* be sold.                                                                *)
(***************************************************************************)
EXTENDS CreatorEconomy, SumsProofs, TLAPS

Transaction == [key : Keys, tenant : Tenants, kind : {"sale", "mature", "payout"}, amount : Nat]
Payout      == [key : PayoutKeys, creator : Creators, tenant : Tenants, amount : Amounts,
                status : {"requested", "paid", "failed"}]

SkillType == /\ plan \in [Creators -> Plans \cup {"none"}] /\ credits \in [Creators -> Nat]
             /\ run \in [Runs -> {"idle", "infer", "completed", "refunded"}]
             /\ left \in [Runs -> Nat] /\ issued \in [Creators -> Int]
BookType  == /\ posted \subseteq Transaction
             /\ pending \in [Tenants -> Int] /\ available \in [Tenants -> Nat]
OfferType == offer \in [Offers -> [status : {"none", "draft", "active"}, sales : Nat]]

LEMMA Types == TypeOK <=> SkillType /\ BookType /\ OfferType /\ cleared \subseteq Creators
                          /\ payouts \subseteq Payout
BY DEF TypeOK, SkillType, BookType, OfferType, Transaction, Payout

Inv == TypeOK /\ PayoutsBacked

\* The transaction of a payout.
Own(p) == [key |-> LedgerKey(p.key), tenant |-> p.tenant, kind |-> "payout", amount |-> p.amount]

\* Payouts of different keys have different ledger keys.
LEMMA LedgerKeys == \A a, b : LedgerKey(a) = LedgerKey(b) => a = b
BY DEF LedgerKey

LEMMA BackedBy ==
  PayoutsBacked <=> /\ \A p, q \in payouts : p.key = q.key => p = q
                    /\ \A t, u \in posted : t.key = u.key => t = u
                    /\ \A p \in payouts : Taken(p.key) \/ Own(p) \in posted
                    /\ \A t \in posted : t.kind = "payout" => \E p \in payouts : t.key = LedgerKey(p.key)
BY DEF PayoutsBacked, Own

LEMMA OwnKey == \A p : Own(p).key = LedgerKey(p.key) /\ Own(p).kind = "payout"
BY DEF Own

-----------------------------------------------------------------------------
\* Rounding to the nearest integer.
LEMMA RoundType ==
  ASSUME NEW n \in Int, NEW d \in {100, 116, 1000}
  PROVE  Round(n, d) \in Int /\ (n >= 0 => Round(n, d) >= 0)
<1>1. CASE d = 100
  BY <1>1 DEF Round
<1>2. CASE d = 116
  BY <1>2 DEF Round
<1>3. CASE d = 1000
  BY <1>3 DEF Round
<1> QED BY <1>1, <1>2, <1>3

LEMMA NetType ==
  ASSUME NEW gross \in Nat, NEW channel
  PROVE  Net(gross, channel) \in Nat
<1>1. 16 * gross \in Int /\ 36 * gross \in Int
  OBVIOUS
<1>2. Vat(gross) \in Int
  BY <1>1, RoundType DEF Vat
<1>3. Round(36 * gross, 1000) + 300 \in Int
  BY <1>1, RoundType
<1>4. Fee(gross) \in Int
  <2> DEFINE base == Round(36 * gross, 1000) + 300
  <2>1. Round(16 * base, 100) \in Int
    <3>1. 16 * base \in Int
      BY <1>3
    <3> QED BY <3>1, RoundType
  <2> QED BY <1>3, <2>1 DEF Fee
<1>5. Reserve(gross) \in Int
  <2>1. 5 * (gross - Vat(gross)) \in Int
    BY <1>2
  <2> QED BY <2>1, RoundType DEF Reserve
<1>6. StoreCut(gross, channel) \in Int
  BY DEF StoreCut
<1> QED BY <1>2, <1>4, <1>5, <1>6 DEF Net, AtLeastZero

\* The creator's share of a sale is an amount.
LEMMA ShareType ==
  ASSUME NEW gross \in Nat, NEW channel, NEW p \in {"free", "premium", "pro", "business"}
  PROVE  CreatorShare(gross, channel, p) \in Nat
<1> DEFINE n == Net(gross, channel)
<1>1. n \in Nat
  BY NetType
<1>2. 100 - PlatformShare[p] \in {70, 85, 90, 95}
  BY DEF PlatformShare
<1>3. n * (100 - PlatformShare[p]) \in Nat
  BY <1>1, <1>2
<1>4. Round(n * (100 - PlatformShare[p]), 100) \in Nat
  BY <1>3, RoundType
<1> QED BY <1>4 DEF CreatorShare

-----------------------------------------------------------------------------
LEMMA InitInv == Init => Inv
BY DEF Init, Inv, TypeOK, PayoutsBacked, Tenants

\* A posting keeps the books typed and its key single.
LEMMA PostStep ==
  ASSUME BookType, NEW key \in Keys, NEW t \in Tenants, NEW kind \in {"sale", "mature", "payout"},
         NEW n \in Nat, NEW toP \in Int, NEW toA \in Int, available[t] + toA >= 0,
         Post(key, t, kind, n, toP, toA)
  PROVE  /\ BookType'
         /\ posted' = IF Known(key) THEN posted
                      ELSE posted \cup {[key |-> key, tenant |-> t, kind |-> kind, amount |-> n]}
<1>1. CASE Known(key)
  BY <1>1 DEF Post, books, BookType
<1>2. CASE ~Known(key)
  <2> DEFINE x == [key |-> key, tenant |-> t, kind |-> kind, amount |-> n]
  <2>1. x \in Transaction
    BY DEF Transaction
  <2>2. /\ posted' = posted \cup {x} /\ pending' = [pending EXCEPT ![t] = @ + toP]
        /\ available' = [available EXCEPT ![t] = @ + toA]
    BY <1>2 DEF Post
  <2>3. pending' \in [Tenants -> Int]
    BY <2>2 DEF BookType
  <2>4. available[t] + toA \in Nat
    BY DEF BookType
  <2>5. available' \in [Tenants -> Nat]
    BY <2>2, <2>4 DEF BookType
  <2> QED BY <1>2, <2>1, <2>2, <2>3, <2>5 DEF BookType
<1> QED BY <1>1, <1>2

\* A posting that is no payout leaves the payouts backed.
LEMMA OtherPosting ==
  ASSUME Inv, UNCHANGED payouts, NEW x \in Transaction, x.kind # "payout",
         posted' = IF Known(x.key) THEN posted ELSE posted \cup {x}
  PROVE  PayoutsBacked'
<1>1. \A t, u \in posted' : t.key = u.key => t = u
  BY DEF Inv, PayoutsBacked, Known
<1>2. posted \subseteq posted'
  OBVIOUS
<1>3. \A t \in posted' : t.kind = "payout" => t \in posted
  OBVIOUS
<1>4. \A p \in payouts : Taken(p.key)' \/ Own(p) \in posted'
  BY <1>2, BackedBy DEF Inv, Taken
<1> QED BY <1>1, <1>3, <1>4 DEF Inv, PayoutsBacked, Own

\* A new transaction does not change whether the ledger key of a payout is
\* taken: an own transaction holds the key already.
LEMMA TakenSame ==
  ASSUME Inv, NEW x, ~Known(x.key), posted' = posted \cup {x}, NEW p \in payouts
  PROVE  Taken(p.key)' <=> Taken(p.key)
<1>1. Taken(p.key) \/ Own(p) \in posted
  BY BackedBy DEF Inv
<1>2. CASE Own(p) \in posted
  <2>1. x.key # LedgerKey(p.key)
    BY <1>2, OwnKey DEF Known
  <2> QED BY <2>1 DEF Taken
<1>3. CASE Taken(p.key)
  BY <1>3 DEF Taken
<1> QED BY <1>1, <1>2, <1>3

\* Steps that post nothing and request nothing.
LEMMA QuietInv == ASSUME Inv, UNCHANGED <<posted, payouts>>, TypeOK' PROVE Inv'
BY DEF Inv, PayoutsBacked, Taken

-----------------------------------------------------------------------------
\* What an entitlement is now.
LEMMA NowType ==
  ASSUME SkillType, NEW c \in Creators
  PROVE  /\ PlanNow(c) \in Plans /\ CreditsNow(c) \in Nat /\ IssuedNow(c) \in Int
         /\ credits[c] \in Nat /\ issued[c] \in Int
<1>1. PlanNow(c) \in Plans /\ CreditsNow(c) \in Nat
  BY PlanAssumption DEF SkillType, PlanNow, CreditsNow
<1>2. credits[c] \in Nat /\ issued[c] \in Int
  BY DEF SkillType
<1> QED BY <1>1, <1>2 DEF IssuedNow

LEMMA SetType ==
  ASSUME SkillType, NEW c \in Creators, NEW p \in Plans, NEW n \in Nat, SetEntitlement(c, p, n)
  PROVE  plan' \in [Creators -> Plans \cup {"none"}] /\ credits' \in [Creators -> Nat]
BY DEF SkillType, SetEntitlement

\* Steps on the entitlements and the runs leave the books alone.
LEMMA SkillInv ==
  ASSUME Inv, SkillType', UNCHANGED <<books, offer, cleared, payouts>>
  PROVE  Inv'
BY Types, QuietInv DEF Inv, TypeOK, SkillType, books

LEMMA EntitlementInv == ASSUME Inv, NEW c \in Creators, SkillStep(c) PROVE Inv'
<1>1. SkillType
  BY Types DEF Inv
<1>2. CASE Visit(c)
  <2>1. SkillType'
    <3>1. "free" \in Plans
      BY PlanAssumption
    <3> QED BY <1>1, <1>2, <3>1, NowType, SetType DEF Visit, SkillType
  <2> QED BY <1>2, <2>1, SkillInv DEF Visit
<1>3. ASSUME NEW p \in Plans, Reset(c, p) PROVE Inv'
  <2>1. Monthly[p] \in Nat
    BY PlanAssumption
  <2>2. issued[c] + Monthly[p] - credits[c] \in Int
    BY <1>1, <2>1, NowType
  <2>3. SkillType'
    BY <1>1, <1>3, <2>1, <2>2, SetType DEF Reset, SkillType
  <2> QED BY <1>3, <2>3, SkillInv DEF Reset
<1>4. CASE RefillMonthlyCredits(c)
  <2>1. plan[c] \in Plans
    BY <1>1, <1>4 DEF RefillMonthlyCredits, SkillType
  <2> QED BY <1>3, <1>4, <2>1 DEF RefillMonthlyCredits
<1>5. CASE \E p \in Plans : AssignPlan(c, p)
  BY <1>3, <1>5 DEF AssignPlan
<1>6. ASSUME NEW n \in TopUps, TopUpCredits(c, n) PROVE Inv'
  <2>1. n \in Nat
    BY PlanAssumption
  <2>2. CreditsNow(c) + n \in Nat /\ IssuedNow(c) + n \in Int
    BY <1>1, <2>1, NowType
  <2>3. SkillType'
    BY <1>1, <1>6, <2>2, NowType, SetType DEF TopUpCredits, SkillType
  <2> QED BY <1>6, <2>3, SkillInv DEF TopUpCredits
<1> QED BY <1>2, <1>4, <1>5, <1>6 DEF SkillStep

\* The check before the deduction keeps the balance natural.
LEMMA StartInv == ASSUME Inv, NEW r \in Runs, StartRun(r) PROVE Inv'
<1> DEFINE c == CreatorOf[r]
           n == CreditsNow(c) - CostOf[r]
<1>1. SkillType /\ c \in Creators /\ CostOf[r] \in Nat
  BY Types, RunAssumption DEF Inv
<1>2. n \in Nat
  BY <1>1, NowType DEF StartRun
<1>3. /\ SetEntitlement(c, PlanNow(c), n) /\ issued' = [issued EXCEPT ![c] = IssuedNow(c)]
      /\ run' = [run EXCEPT ![r] = "infer"] /\ left' = [left EXCEPT ![r] = n]
      /\ UNCHANGED <<books, offer, cleared, payouts>>
  BY DEF StartRun
<1>4. SkillType'
  <2>1. plan' \in [Creators -> Plans \cup {"none"}] /\ credits' \in [Creators -> Nat]
    BY <1>1, <1>2, <1>3, NowType, SetType
  <2>2. run' \in [Runs -> {"idle", "infer", "completed", "refunded"}] /\ left' \in [Runs -> Nat]
    BY <1>1, <1>2, <1>3 DEF SkillType
  <2>3. issued' \in [Creators -> Int]
    BY <1>1, <1>3, NowType DEF SkillType
  <2> QED BY <2>1, <2>2, <2>3 DEF SkillType
<1> QED BY <1>3, <1>4, SkillInv

LEMMA EndRunInv == ASSUME Inv, NEW r \in Runs, CompleteRun(r) \/ RefundRun(r) PROVE Inv'
<1>1. SkillType /\ CreatorOf[r] \in Creators /\ CostOf[r] \in Nat
  BY Types, RunAssumption DEF Inv
<1>2. credits[CreatorOf[r]] + CostOf[r] \in Nat
  BY <1>1, NowType
<1>3. SkillType'
  BY <1>1, <1>2 DEF CompleteRun, RefundRun, SkillType
<1> QED BY <1>3, SkillInv DEF CompleteRun, RefundRun

-----------------------------------------------------------------------------
\* A sale posts its creator's share, which only adds to what is pending.
LEMMA SalePosting ==
  ASSUME Inv, NEW key \in SaleKeys, NEW t \in Tenants, NEW share \in Nat,
         PostSale(key, t, share), UNCHANGED <<skills, cleared, payouts>>, OfferType'
  PROVE  Inv'
<1> DEFINE x == [key |-> key, tenant |-> t, kind |-> "sale", amount |-> share]
<1>1. BookType /\ available[t] + 0 >= 0 /\ key \in Keys
  BY Types DEF Inv, BookType, Keys
<1>2. BookType' /\ posted' = IF Known(key) THEN posted ELSE posted \cup {x}
  BY <1>1, PostStep DEF PostSale
<1>3. x \in Transaction /\ x.kind # "payout" /\ x.key = key
  BY <1>1 DEF Transaction
<1>4. PayoutsBacked'
  BY <1>2, <1>3, OtherPosting
<1> QED BY <1>2, <1>4, Types DEF Inv, TypeOK, BookType, OfferType, Transaction, skills

LEMMA SaleInv ==
  ASSUME Inv, NEW key \in SaleKeys, NEW channel \in {"web", "app_store"}, SaleStep(key, channel)
  PROVE  Inv'
<1>1. SkillType /\ OfferType
  BY Types DEF Inv
<1>2. ASSUME NEW c \in Creators, NEW t \in Tenants, NEW price \in GiftPrices,
             PurchaseGift(c, t, price, channel, key)
      PROVE Inv'
  <2>1. price \in Nat /\ plan[c] \in {"premium", "pro", "business"}
    BY <1>2, SaleAssumption DEF PurchaseGift, Earning
  <2>2. CreatorShare(price, channel, plan[c]) \in Nat
    BY <2>1, ShareType
  <2> QED BY <1>1, <1>2, <2>2, SalePosting DEF PurchaseGift, OfferType
<1>3. ASSUME NEW o \in Offers, PurchaseOffer(o, channel, key) PROVE Inv'
  <2> DEFINE c == SellerOf[o]
             share == CreatorShare(PriceOf[o], channel, PlanNow(c))
  <2>1. c \in Creators /\ PriceOf[o] \in Nat /\ TenantOf[c] \in Tenants
    BY SaleAssumption DEF Tenants
  <2>2. PlanNow(c) \in {"free", "premium", "pro", "business"}
    BY <1>1, <2>1, NowType, PlanAssumption
  <2>3. share \in Nat
    BY <2>1, <2>2, ShareType
  <2>4. PostSale(key, TenantOf[c], share) /\ UNCHANGED <<skills, cleared, payouts>>
        /\ offer' = [offer EXCEPT ![o].sales = @ + 1]
    BY <1>3 DEF PurchaseOffer
  <2>5. offer[o] \in [status : {"none", "draft", "active"}, sales : Nat]
    BY <1>1 DEF OfferType
  <2>6. [offer[o] EXCEPT !.sales = @ + 1] \in [status : {"none", "draft", "active"}, sales : Nat]
    BY <2>5
  <2>7. OfferType'
    BY <1>1, <2>4, <2>6 DEF OfferType
  <2> QED BY <2>1, <2>3, <2>4, <2>7, SalePosting
<1> QED BY <1>2, <1>3 DEF SaleStep

LEMMA OfferInv == ASSUME Inv, NEW o \in Offers, CreateOffer(o) \/ ActivateOffer(o) PROVE Inv'
<1>1. OfferType
  BY Types DEF Inv
<1>2. PICK st \in {"draft", "active"} :
        offer' = [offer EXCEPT ![o].status = st] /\ UNCHANGED <<skills, books, cleared, payouts>>
  BY DEF CreateOffer, ActivateOffer
<1>3. [offer[o] EXCEPT !.status = st] \in [status : {"none", "draft", "active"}, sales : Nat]
  BY <1>1 DEF OfferType
<1>4. offer' = [offer EXCEPT ![o] = [offer[o] EXCEPT !.status = st]]
  BY <1>2
<1>5. OfferType'
  BY <1>1, <1>3, <1>4 DEF OfferType
<1>6. TypeOK'
  BY <1>2, <1>5 DEF Inv, TypeOK, OfferType, skills, books
<1> QED BY <1>2, <1>6, QuietInv DEF books

LEMMA KycInv == ASSUME Inv, NEW c \in Creators, NEW done \in BOOLEAN, SubmitKyc(c, done) PROVE Inv'
<1>1. cleared' \subseteq Creators /\ UNCHANGED <<skills, books, offer, payouts>>
  BY DEF Inv, TypeOK, SubmitKyc
<1>2. TypeOK'
  BY <1>1 DEF Inv, TypeOK, skills, books
<1> QED BY <1>1, <1>2, QuietInv DEF books

-----------------------------------------------------------------------------
LEMMA MatureInv ==
  ASSUME Inv, NEW t \in Tenants, NEW n \in Amounts, NEW key \in MatureKeys,
         MaturePendingBalances(t, n, key)
  PROVE  Inv'
<1> DEFINE x == [key |-> key, tenant |-> t, kind |-> "mature", amount |-> n]
<1>1. n \in Nat /\ BookType /\ key \in Keys
  BY Types, SaleAssumption DEF Inv, Keys
<1>2. available[t] + n >= 0 /\ -n \in Int
  BY <1>1 DEF BookType
<1>3. Post(key, t, "mature", n, -n, n) /\ UNCHANGED <<skills, offer, cleared, payouts>>
  BY DEF MaturePendingBalances
<1>4. BookType' /\ posted' = IF Known(key) THEN posted ELSE posted \cup {x}
  BY <1>1, <1>2, <1>3, PostStep
<1>5. x \in Transaction /\ x.kind # "payout" /\ x.key = key
  BY <1>1 DEF Transaction
<1>6. PayoutsBacked'
  BY <1>3, <1>4, <1>5, OtherPosting
<1> QED BY <1>3, <1>4, <1>6 DEF Inv, TypeOK, BookType, Transaction, skills

\* A known ledger key without a payout is that of a sale or a maturing.
LEMMA KnownIsTaken ==
  ASSUME Inv, NEW key, \A q \in payouts : q.key # key
  PROVE  Known(LedgerKey(key)) <=> Taken(key)
<1>1. ASSUME NEW y \in posted, y.key = LedgerKey(key) PROVE y.kind # "payout"
  BY <1>1, LedgerKeys DEF Inv, PayoutsBacked
<1> QED BY <1>1 DEF Known, Taken

\* The amount of a new payout leaves the available balance, which the check just
\* compared with it, unless a sale or a maturing took its ledger key.
LEMMA RequestInv ==
  ASSUME Inv, NEW c \in Creators, NEW n \in Amounts, NEW currency \in Currencies,
         NEW key \in PayoutKeys, RequestPayout(c, n, currency, key)
  PROVE  Inv'
<1> DEFINE t == TenantOf[c]
           lk == LedgerKey(key)
           x == [key |-> lk, tenant |-> t, kind |-> "payout", amount |-> n]
           p == [key |-> key, creator |-> c, tenant |-> t, amount |-> n, status |-> "requested"]
<1>1. n \in Nat /\ BookType /\ lk \in Keys /\ t \in Tenants
  BY Types, SaleAssumption DEF Inv, Keys, Tenants
<1>2. available[t] + (-n) >= 0 /\ -n \in Int
  BY <1>1 DEF BookType, RequestPayout
<1>3. /\ Post(lk, t, "payout", n, 0, -n) /\ UNCHANGED <<skills, offer, cleared>>
      /\ payouts' = payouts \cup {p} /\ \A q \in payouts : q.key # key
  BY DEF RequestPayout
<1>4. BookType' /\ posted' = IF Known(lk) THEN posted ELSE posted \cup {x}
  <2> HIDE DEF lk, t
  <2>1. "payout" \in {"sale", "mature", "payout"} /\ 0 \in Int
    OBVIOUS
  <2> QED BY <1>1, <1>2, <1>3, <2>1, PostStep
<1>5. /\ x.key = lk /\ x.kind = "payout" /\ x = Own(p)
      /\ p \in Payout /\ p.key = key
  BY <1>1 DEF Payout, Own
<1>6. Known(lk) <=> Taken(key)
  BY <1>3, KnownIsTaken
<1> HIDE DEF x, p, lk
<1>7. \A q, r \in payouts' : q.key = r.key => q = r
  BY <1>3, <1>5 DEF Inv, PayoutsBacked
<1>8. \A u, v \in posted' : u.key = v.key => u = v
  BY <1>4, <1>5 DEF Inv, PayoutsBacked, Known
<1>9. \A q \in payouts' : Taken(q.key)' \/ Own(q) \in posted'
  <2>1. posted \subseteq posted'
    BY <1>4
  <2>2. \A q \in payouts : Taken(q.key)' \/ Own(q) \in posted'
    BY <2>1, BackedBy DEF Inv, Taken
  <2>3. Taken(p.key)' \/ Own(p) \in posted'
    BY <1>4, <1>5, <1>6 DEF Taken
  <2> QED BY <1>3, <2>2, <2>3
<1>10. \A u \in posted' : u.kind = "payout" => \E q \in payouts' : u.key = LedgerKey(q.key)
  <2>1. x.key = LedgerKey(p.key)
    BY <1>5 DEF lk
  <2> QED BY <1>3, <1>4, <2>1 DEF Inv, PayoutsBacked
<1>11. PayoutsBacked'
  BY <1>7, <1>8, <1>9, <1>10 DEF PayoutsBacked, Own
<1>12. TypeOK'
  BY <1>3, <1>4, <1>5 DEF Inv, TypeOK, BookType, Transaction, Payout, skills
<1> QED BY <1>11, <1>12 DEF Inv

LEMMA MarkInv ==
  ASSUME Inv, NEW p \in payouts, NEW st \in {"paid", "failed"}, MarkPayout(p, st)
  PROVE  Inv'
<1> DEFINE q == [p EXCEPT !.status = st]
<1>1. payouts' = (payouts \ {p}) \cup {q} /\ UNCHANGED <<skills, books, offer, cleared>>
  BY DEF MarkPayout
<1>2. p \in Payout
  BY Types DEF Inv
<1>3. q \in Payout /\ q.key = p.key /\ Own(q) = Own(p)
  BY <1>2 DEF Payout, Own
<1>4. UNCHANGED <<posted, pending, available>>
  BY <1>1 DEF books
<1> HIDE DEF q
<1>6. \A a, b \in payouts' : a.key = b.key => a = b
  <2>1. \A a, b \in payouts : a.key = b.key => a = b
    BY DEF Inv, PayoutsBacked
  <2>2. \A a \in payouts \ {p} : a.key # q.key
    BY <1>3, <2>1
  <2> QED BY <1>1, <2>1, <2>2
<1>7. \A a \in payouts' : Taken(a.key) \/ Own(a) \in posted
  <2>1. \A b \in payouts : Taken(b.key) \/ Own(b) \in posted
    BY BackedBy DEF Inv
  <2> QED BY <1>1, <1>3, <2>1
<1>8. \A u \in posted : u.kind = "payout" => \E a \in payouts' : u.key = LedgerKey(a.key)
  BY <1>1, <1>3 DEF Inv, PayoutsBacked
<1>9. \A u, v \in posted : u.key = v.key => u = v
  BY DEF Inv, PayoutsBacked
<1>10. PayoutsBacked'
  BY <1>4, <1>6, <1>7, <1>8, <1>9 DEF PayoutsBacked, Own, Taken
<1>11. TypeOK'
  BY <1>1, <1>3, <1>4 DEF Inv, TypeOK, Payout, skills
<1> QED BY <1>10, <1>11 DEF Inv

-----------------------------------------------------------------------------
\* Every step keeps the invariant.
LEMMA StepInv == Inv /\ [Next]_vars => Inv'
<1> SUFFICES ASSUME Inv, [Next]_vars PROVE Inv'
  OBVIOUS
<1>1. CASE UNCHANGED vars
  BY <1>1, QuietInv DEF Inv, TypeOK, vars, skills, books
<1>2. CASE PayoutStep
  BY <1>2, MatureInv, RequestInv, MarkInv DEF PayoutStep
<1>3. CASE Next
  BY <1>2, <1>3, EntitlementInv, KycInv, StartInv, EndRunInv, OfferInv, SaleInv DEF Next
<1> QED BY <1>1, <1>3

THEOREM Invariance == Spec => []Inv
BY InitInv, StepInv, PTL DEF Spec

\* No run overdraws the credits and no payout the available money, in any
\* interleaving with plans, refills, top-ups, sales and other requests.
THEOREM TypeCorrect == Spec => []TypeOK
<1>1. Inv => TypeOK
  BY DEF Inv
<1> QED BY <1>1, Invariance, PTL

\* A key has one payout, and its amount left the books once, under a transaction
\* of its own, unless a sale or a maturing held its ledger key before the request.
THEOREM PayoutsOnce == Spec => []PayoutsBacked
<1>1. Inv => PayoutsBacked
  BY DEF Inv
<1> QED BY <1>1, Invariance, PTL

(***************************************************************************)
(* Credits: only runs that did not fail keep what they took.  At any time    *)
(* only finitely many runs have started, so their costs have a sum.         *)
(***************************************************************************)
Started    == {r \in Runs : run[r] # "idle"}
Charged(c) == RunsAt(c, {"infer", "completed"})
Cost(c)    == SumOver(CostOf, Charged(c))

CreditInv == Inv /\ IsFiniteSet(Started) /\ CreditsConserved

LEMMA CostType ==
  ASSUME CreditInv, NEW c \in Creators
  PROVE  /\ Summable(CostOf, Charged(c)) /\ Cost(c) \in Nat
         /\ issued[c] = credits[c] + Cost(c) /\ issued[c] \in Int /\ credits[c] \in Nat
<1>1. Charged(c) \subseteq Started
  BY DEF Charged, RunsAt, Started
<1>2. IsFiniteSet(Charged(c))
  BY <1>1, FS_Subset DEF CreditInv
<1>3. \A r \in Charged(c) : CostOf[r] \in Nat
  BY RunAssumption DEF Charged, RunsAt
<1>4. Summable(CostOf, Charged(c)) /\ Cost(c) \in Nat
  BY <1>2, <1>3, SumType DEF Summable, Cost
<1>5. issued[c] \in Int /\ credits[c] \in Nat
  BY NowType, Types DEF CreditInv, Inv
<1> QED BY <1>4, <1>5 DEF CreditInv, CreditsConserved, Cost, Charged

LEMMA InitCredits == Init => IsFiniteSet(Started) /\ CreditsConserved
<1> SUFFICES ASSUME Init PROVE IsFiniteSet(Started) /\ CreditsConserved
  OBVIOUS
<1>1. Started = {} /\ \A c \in Creators : Charged(c) = {}
  BY DEF Init, Started, Charged, RunsAt
<1>2. \A c \in Creators : Cost(c) = 0
  BY <1>1, SumEmpty DEF Cost
<1>3. \A c \in Creators : issued[c] = 0 /\ credits[c] = 0
  BY DEF Init
<1>4. \A c \in Creators : issued[c] = credits[c] + Cost(c)
  BY <1>2, <1>3
<1> QED BY <1>1, <1>4, FS_EmptySet DEF CreditsConserved, Cost, Charged

\* Issue and balance moving together, with the runs left alone.
LEMMA SameRuns ==
  ASSUME CreditInv, UNCHANGED run,
         \A c \in Creators : issued'[c] - credits'[c] = issued[c] - credits[c],
         \A c \in Creators : issued'[c] \in Int /\ credits'[c] \in Int
  PROVE  IsFiniteSet(Started') /\ CreditsConserved'
<1>1. Started' = Started /\ \A c \in Creators : Cost(c)' = Cost(c)
  BY DEF Started, Cost, Charged, RunsAt
<1>2. ASSUME NEW c \in Creators PROVE issued'[c] = credits'[c] + Cost(c)'
  BY <1>1, CostType
<1> QED BY <1>1, <1>2 DEF CreditInv, CreditsConserved, Cost, Charged

LEMMA EntitlementCredits ==
  ASSUME CreditInv, NEW c \in Creators, SkillStep(c)
  PROVE  IsFiniteSet(Started') /\ CreditsConserved'
<1>1. SkillType
  BY Types DEF CreditInv, Inv
<1>2. ASSUME NEW m \in Int, credits' = [credits EXCEPT ![c] = m],
             issued' = [issued EXCEPT ![c] = issued[c] + m - credits[c]], UNCHANGED run
      PROVE  IsFiniteSet(Started') /\ CreditsConserved'
  <2>1. issued[c] \in Int /\ credits[c] \in Int
    BY <1>1, NowType
  <2>2. \A d \in Creators : /\ credits'[d] = IF d = c THEN m ELSE credits[d]
                            /\ issued'[d] = IF d = c THEN issued[c] + m - credits[c] ELSE issued[d]
    BY <1>1, <1>2 DEF SkillType
  <2>3. \A d \in Creators : issued[d] \in Int /\ credits[d] \in Int
    BY <1>1 DEF SkillType
  <2>4. \A d \in Creators : /\ issued'[d] - credits'[d] = issued[d] - credits[d]
                            /\ issued'[d] \in Int /\ credits'[d] \in Int
    BY <2>1, <2>2, <2>3
  <2> QED BY <1>2, <2>4, SameRuns
<1>3. CASE Visit(c)
  <2>1. CreditsNow(c) \in Int /\ IssuedNow(c) = issued[c] + CreditsNow(c) - credits[c]
    BY <1>1, NowType DEF IssuedNow
  <2>2. /\ credits' = [credits EXCEPT ![c] = CreditsNow(c)]
        /\ issued' = [issued EXCEPT ![c] = IssuedNow(c)] /\ UNCHANGED run
    BY <1>3 DEF Visit, SetEntitlement
  <2> QED BY <1>2, <2>1, <2>2
<1>4. ASSUME NEW p \in Plans, Reset(c, p) PROVE IsFiniteSet(Started') /\ CreditsConserved'
  <2>1. Monthly[p] \in Int
    BY PlanAssumption
  <2>2. /\ credits' = [credits EXCEPT ![c] = Monthly[p]]
        /\ issued' = [issued EXCEPT ![c] = issued[c] + Monthly[p] - credits[c]] /\ UNCHANGED run
    BY <1>1, <1>4 DEF Reset, SetEntitlement, SkillType
  <2> QED BY <1>2, <2>1, <2>2
<1>5. CASE RefillMonthlyCredits(c)
  <2>1. plan[c] \in Plans
    BY <1>1, <1>5 DEF RefillMonthlyCredits, SkillType
  <2> QED BY <1>4, <1>5, <2>1 DEF RefillMonthlyCredits
<1>6. CASE \E p \in Plans : AssignPlan(c, p)
  BY <1>4, <1>6 DEF AssignPlan
<1>7. ASSUME NEW n \in TopUps, TopUpCredits(c, n)
      PROVE  IsFiniteSet(Started') /\ CreditsConserved'
  <2>1. n \in Nat /\ CreditsNow(c) \in Nat /\ issued[c] \in Int /\ credits[c] \in Int
    BY <1>1, NowType, PlanAssumption
  <2>2. IssuedNow(c) + n = issued[c] + (CreditsNow(c) + n) - credits[c] /\ CreditsNow(c) + n \in Int
    BY <2>1 DEF IssuedNow
  <2>3. /\ credits' = [credits EXCEPT ![c] = CreditsNow(c) + n]
        /\ issued' = [issued EXCEPT ![c] = IssuedNow(c) + n] /\ UNCHANGED run
    BY <1>7 DEF TopUpCredits, SetEntitlement
  <2> QED BY <1>2, <2>2, <2>3
<1> QED BY <1>3, <1>5, <1>6, <1>7 DEF SkillStep

\* What a step on one run does to the costs of a creator.
LEMMA RunMoves ==
  ASSUME CreditInv, NEW r \in Runs, NEW step \in {"infer", "completed", "refunded"},
         run' = [run EXCEPT ![r] = step], NEW c \in Creators
  PROVE  /\ IsFiniteSet(Started')
         /\ c # CreatorOf[r] => Cost(c)' = Cost(c)
         /\ c = CreatorOf[r] /\ run[r] = "idle" /\ step = "infer" => Cost(c)' = Cost(c) + CostOf[r]
         /\ run[r] = "infer" /\ step = "completed" => Cost(c)' = Cost(c)
         /\ c = CreatorOf[r] /\ run[r] = "infer" /\ step = "refunded" => Cost(c)' = Cost(c) - CostOf[r]
<1>1. /\ run \in [Runs -> {"idle", "infer", "completed", "refunded"}]
      /\ CostOf[r] \in Nat /\ Summable(CostOf, Charged(c)) /\ Cost(c) \in Nat
  BY CostType, RunAssumption, Types DEF CreditInv, Inv, SkillType
<1>2. Started' = Started \cup {r}
  BY <1>1 DEF Started
<1>3. IsFiniteSet(Started')
  BY <1>2, FS_AddElement DEF CreditInv
<1>4. \A s \in Runs : run'[s] = IF s = r THEN step ELSE run[s]
  BY <1>1
<1>5. Charged(c)' = {s \in Runs : CreatorOf[s] = c /\ run'[s] \in {"infer", "completed"}}
  BY DEF Charged, RunsAt
<1>6. ASSUME c # CreatorOf[r] PROVE Cost(c)' = Cost(c)
  <2>1. Charged(c)' = Charged(c)
    BY <1>4, <1>5, <1>6 DEF Charged, RunsAt
  <2> QED BY <2>1 DEF Cost
<1>7. ASSUME c = CreatorOf[r], run[r] = "idle", step = "infer" PROVE Cost(c)' = Cost(c) + CostOf[r]
  <2>1. Charged(c)' = Charged(c) \cup {r} /\ r \notin Charged(c)
    BY <1>4, <1>5, <1>7 DEF Charged, RunsAt
  <2> QED BY <1>1, <2>1, SumAdd DEF Cost
<1>8. ASSUME run[r] = "infer", step = "completed" PROVE Cost(c)' = Cost(c)
  <2>1. Charged(c)' = Charged(c)
    BY <1>4, <1>5, <1>8 DEF Charged, RunsAt
  <2> QED BY <2>1 DEF Cost
<1>9. ASSUME c = CreatorOf[r], run[r] = "infer", step = "refunded"
      PROVE Cost(c)' = Cost(c) - CostOf[r]
  <2>1. Charged(c)' = Charged(c) \ {r} /\ r \in Charged(c)
    BY <1>4, <1>5, <1>9 DEF Charged, RunsAt
  <2>2. Cost(c) = Cost(c)' + CostOf[r]
    BY <1>1, <2>1, SumRemove DEF Cost
  <2>3. Summable(CostOf, Charged(c) \ {r})
    BY <1>1, PartSummable
  <2>4. Cost(c)' \in Nat
    BY <2>1, <2>3, SumType DEF Cost
  <2> QED BY <1>1, <2>2, <2>4
<1> QED BY <1>3, <1>6, <1>7, <1>8, <1>9

\* The deduction is what the started run costs.
LEMMA StartCredits ==
  ASSUME CreditInv, NEW r \in Runs, StartRun(r)
  PROVE  IsFiniteSet(Started') /\ CreditsConserved'
<1> DEFINE c == CreatorOf[r]
<1>1. SkillType /\ c \in Creators /\ CostOf[r] \in Nat
  BY Types, RunAssumption DEF CreditInv, Inv
<1>2. CreditsNow(c) \in Nat /\ issued[c] \in Int /\ credits[c] \in Nat
      /\ IssuedNow(c) = issued[c] + CreditsNow(c) - credits[c]
  BY <1>1, NowType DEF IssuedNow
<1>3. /\ credits' = [credits EXCEPT ![c] = CreditsNow(c) - CostOf[r]]
      /\ issued' = [issued EXCEPT ![c] = IssuedNow(c)]
      /\ run' = [run EXCEPT ![r] = "infer"] /\ run[r] = "idle"
  BY DEF StartRun, SetEntitlement
<1>4. ASSUME NEW d \in Creators PROVE issued'[d] = credits'[d] + Cost(d)'
  <2>1. issued[d] = credits[d] + Cost(d) /\ Cost(d) \in Nat
    BY CostType
  <2>2. CASE d = c
    <3>1. credits'[d] = CreditsNow(c) - CostOf[r] /\ issued'[d] = IssuedNow(c)
      BY <1>1, <1>3, <2>2 DEF SkillType
    <3>2. Cost(d)' = Cost(d) + CostOf[r]
      BY <1>3, <2>2, RunMoves
    <3> QED BY <1>1, <1>2, <2>1, <2>2, <3>1, <3>2
  <2>3. CASE d # c
    <3>1. credits'[d] = credits[d] /\ issued'[d] = issued[d]
      BY <1>1, <1>3, <2>3 DEF SkillType
    <3>2. Cost(d)' = Cost(d)
      BY <1>3, <2>3, RunMoves
    <3> QED BY <2>1, <3>1, <3>2
  <2> QED BY <2>2, <2>3
<1>5. IsFiniteSet(Started')
  BY <1>1, <1>3, RunMoves
<1> QED BY <1>4, <1>5 DEF CreditsConserved, Cost, Charged

\* A completed run keeps its cost, a failed one gives it back.
LEMMA EndRunCredits ==
  ASSUME CreditInv, NEW r \in Runs, CompleteRun(r) \/ RefundRun(r)
  PROVE  IsFiniteSet(Started') /\ CreditsConserved'
<1>1. SkillType /\ CreatorOf[r] \in Creators /\ CostOf[r] \in Nat /\ UNCHANGED issued
  BY Types, RunAssumption DEF CreditInv, Inv, CompleteRun, RefundRun
<1>2. CASE CompleteRun(r)
  <2>1. run[r] = "infer" /\ run' = [run EXCEPT ![r] = "completed"] /\ UNCHANGED credits
    BY <1>2 DEF CompleteRun
  <2>2. IsFiniteSet(Started') /\ \A d \in Creators : Cost(d)' = Cost(d)
    BY <1>1, <2>1, RunMoves
  <2>3. \A d \in Creators : issued'[d] = credits'[d] + Cost(d)'
    BY <1>1, <2>1, <2>2, CostType
  <2> QED BY <2>2, <2>3 DEF CreditsConserved, Cost, Charged
<1>3. CASE RefundRun(r)
  <2> DEFINE c == CreatorOf[r]
  <2>1. /\ run[r] = "infer" /\ run' = [run EXCEPT ![r] = "refunded"]
        /\ credits' = [credits EXCEPT ![c] = @ + CostOf[r]]
    BY <1>3 DEF RefundRun
  <2>2. ASSUME NEW d \in Creators PROVE issued'[d] = credits'[d] + Cost(d)'
    <3>1. issued[d] = credits[d] + Cost(d) /\ Cost(d) \in Nat /\ credits[d] \in Nat
      BY CostType
    <3>2. CASE d = c
      <4>1. credits'[d] = credits[d] + CostOf[r]
        BY <1>1, <2>1, <3>2 DEF SkillType
      <4>2. Cost(d)' = Cost(d) - CostOf[r]
        BY <2>1, <3>2, RunMoves
      <4> QED BY <1>1, <3>1, <4>1, <4>2
    <3>3. CASE d # c
      <4>1. credits'[d] = credits[d]
        BY <1>1, <2>1, <3>3 DEF SkillType
      <4>2. Cost(d)' = Cost(d)
        BY <2>1, <3>3, RunMoves
      <4> QED BY <1>1, <3>1, <4>1, <4>2
    <3> QED BY <3>2, <3>3
  <2>3. IsFiniteSet(Started')
    BY <1>1, <2>1, RunMoves
  <2> QED BY <2>2, <2>3 DEF CreditsConserved, Cost, Charged
<1> QED BY <1>2, <1>3

LEMMA StepCredits == CreditInv /\ [Next]_vars => CreditInv'
<1> SUFFICES ASSUME CreditInv, [Next]_vars PROVE CreditInv'
  OBVIOUS
<1>1. Inv'
  BY StepInv DEF CreditInv
<1>2. ASSUME UNCHANGED skills PROVE IsFiniteSet(Started') /\ CreditsConserved'
  <2>1. \A c \in Creators : issued[c] \in Int /\ credits[c] \in Int
    BY Types DEF CreditInv, Inv, SkillType
  <2> QED BY <1>2, <2>1, SameRuns DEF skills
<1>3. CASE UNCHANGED vars
  BY <1>1, <1>2, <1>3 DEF vars, CreditInv, Started
<1>4. ASSUME NEW c \in Creators, SkillStep(c) PROVE CreditInv'
  BY <1>1, <1>4, EntitlementCredits DEF CreditInv, Started
<1>5. ASSUME NEW r \in Runs, StartRun(r) \/ CompleteRun(r) \/ RefundRun(r) PROVE CreditInv'
  BY <1>1, <1>5, StartCredits, EndRunCredits DEF CreditInv, Started
<1>6. CASE PayoutStep
  BY <1>1, <1>2, <1>6 DEF PayoutStep, MaturePendingBalances, RequestPayout, MarkPayout, CreditInv, Started
<1>7. ASSUME NEW key \in SaleKeys, NEW channel \in {"web", "app_store"}, SaleStep(key, channel)
      PROVE CreditInv'
  BY <1>1, <1>2, <1>7 DEF SaleStep, PurchaseGift, PurchaseOffer, CreditInv, Started
<1>8. ASSUME NEW o \in Offers, CreateOffer(o) \/ ActivateOffer(o) PROVE CreditInv'
  BY <1>1, <1>2, <1>8 DEF CreateOffer, ActivateOffer, CreditInv, Started
<1>9. ASSUME NEW c \in Creators, NEW done \in BOOLEAN, SubmitKyc(c, done) PROVE CreditInv'
  BY <1>1, <1>2, <1>9 DEF SubmitKyc, CreditInv, Started
<1>10. CASE Next
  BY <1>4, <1>5, <1>6, <1>7, <1>8, <1>9, <1>10 DEF Next
<1> QED BY <1>3, <1>10

\* No failed run burns credits and no completed run is free, in any interleaving
\* of suspended runs with plans, refills and top-ups.
THEOREM CreditsKept == Spec => []CreditsConserved
<1>1. Init => CreditInv
  BY InitInv, InitCredits DEF CreditInv
<1>2. CreditInv => CreditsConserved
  BY DEF CreditInv
<1> QED BY <1>1, <1>2, StepCredits, PTL DEF Spec

(***************************************************************************)
(* Funds: every step is one move of Funds or leaves the books alone; from    *)
(* the moves follow the conservation of the money and the refinement.       *)
(***************************************************************************)
Sold(t) == Total(Of("sale", t))
Paid(t) == Total(Backed(t))

LEMMA TotalAdded ==
  ASSUME NEW S, IsFiniteSet(S), \A y \in S : y.amount \in Nat, NEW x, x \notin S, x.amount \in Nat
  PROVE  Total(S \cup {x}) = Total(S) + x.amount
<1> DEFINE f == [y \in S \cup {x} |-> y.amount]
           g == [y \in S |-> y.amount]
<1>1. f[x] = x.amount /\ \A y \in S : f[y] \in Nat /\ g[y] = f[y]
  OBVIOUS
<1>2. Total(S \cup {x}) = SumOver(f, S \cup {x}) /\ Total(S) = SumOver(g, S)
  BY DEF Total
<1> HIDE DEF f, g
<1>3. SumOver(f, S \cup {x}) = SumOver(f, S) + f[x]
  BY <1>1, SumAdd DEF Summable
<1>4. SumOver(g, S) = SumOver(f, S)
  BY <1>1, SumSame DEF Summable
<1> QED BY <1>1, <1>2, <1>3, <1>4

LEMMA TotalType ==
  ASSUME NEW S, IsFiniteSet(S), \A y \in S : y.amount \in Nat
  PROVE  Total(S) \in Nat
<1> DEFINE g == [y \in S |-> y.amount]
<1>1. \A y \in S : g[y] \in Nat
  OBVIOUS
<1> HIDE DEF g
<1>2. SumOver(g, S) \in Nat
  BY <1>1, SumType DEF Summable
<1> QED BY <1>2 DEF Total, g

FundsInv == Inv /\ IsFiniteSet(posted) /\ IsFiniteSet(payouts) /\ FundsConserved

LEMMA FundsType ==
  ASSUME FundsInv, NEW t \in Tenants
  PROVE  /\ IsFiniteSet(Of("sale", t)) /\ \A x \in Of("sale", t) : x.amount \in Nat
         /\ IsFiniteSet(Backed(t)) /\ \A p \in Backed(t) : p.amount \in Nat
         /\ Sold(t) \in Nat /\ Paid(t) \in Nat /\ pending[t] \in Int /\ available[t] \in Nat
         /\ pending[t] + available[t] + Paid(t) = Sold(t)
<1>1. IsFiniteSet(Of("sale", t)) /\ IsFiniteSet(Backed(t))
  BY FS_Subset DEF FundsInv, Of, Backed, PaidOut
<1>2. \A x \in Of("sale", t) : x.amount \in Nat
  BY Types DEF FundsInv, Inv, BookType, Transaction, Of
<1>3. \A p \in Backed(t) : p.amount \in Nat
  BY Types, SaleAssumption DEF FundsInv, Inv, Payout, Backed, PaidOut
<1>4. pending[t] \in Int /\ available[t] \in Nat
  BY Types DEF FundsInv, Inv, BookType
<1> QED BY <1>1, <1>2, <1>3, <1>4, TotalType DEF FundsInv, FundsConserved, Sold, Paid

\* A new transaction moves the sales of its tenant, if it is a sale.
LEMMA SoldMoves ==
  ASSUME FundsInv, NEW x \in Transaction, x \notin posted, posted' = posted \cup {x}, NEW t \in Tenants
  PROVE  Sold(t)' = IF x.kind = "sale" /\ x.tenant = t THEN Sold(t) + x.amount ELSE Sold(t)
<1>1. CASE x.kind = "sale" /\ x.tenant = t
  <2>1. Of("sale", t)' = Of("sale", t) \cup {x} /\ x \notin Of("sale", t) /\ x.amount \in Nat
    BY <1>1 DEF Of, Transaction
  <2>2. Total(Of("sale", t) \cup {x}) = Total(Of("sale", t)) + x.amount
    BY <2>1, FundsType, TotalAdded
  <2> QED BY <1>1, <2>1, <2>2 DEF Sold, Total
<1>2. CASE ~(x.kind = "sale" /\ x.tenant = t)
  <2>1. Of("sale", t)' = Of("sale", t)
    BY <1>2 DEF Of
  <2> QED BY <1>2, <2>1 DEF Sold, Total
<1> QED BY <1>1, <1>2

\* Whether the ledger keys of the payouts are taken stays.
TakenStays == \A q \in payouts : Taken(q.key)' <=> Taken(q.key)

LEMMA PostingTakes ==
  ASSUME Inv, NEW x, ~Known(x.key), posted' = posted \cup {x}
  PROVE  TakenStays
BY TakenSame DEF TakenStays

LEMMA PaidStays == ASSUME TakenStays, UNCHANGED payouts, NEW t PROVE Paid(t)' = Paid(t)
<1>1. Backed(t)' = Backed(t)
  BY DEF TakenStays, Backed, PaidOut
<1> QED BY <1>1 DEF Paid, Total

\* A new payout adds to what is gone, if its ledger key is its own.
LEMMA PaidMoves ==
  ASSUME FundsInv, TakenStays, NEW p \in Payout, p \notin payouts, payouts' = payouts \cup {p},
         NEW t \in Tenants
  PROVE  Paid(t)' = IF p.tenant = t /\ ~Taken(p.key)' THEN Paid(t) + p.amount ELSE Paid(t)
<1>1. CASE p.tenant = t /\ ~Taken(p.key)'
  <2>1. Backed(t)' = Backed(t) \cup {p} /\ p \notin Backed(t) /\ p.amount \in Nat
    BY <1>1, SaleAssumption DEF Backed, PaidOut, Payout, TakenStays
  <2>2. Total(Backed(t) \cup {p}) = Total(Backed(t)) + p.amount
    BY <2>1, FundsType, TotalAdded
  <2> QED BY <1>1, <2>1, <2>2 DEF Paid, Total
<1>2. CASE ~(p.tenant = t /\ ~Taken(p.key)')
  <2>1. Backed(t)' = Backed(t)
    BY <1>2 DEF Backed, PaidOut, TakenStays
  <2> QED BY <1>2, <2>1 DEF Paid, Total
<1> QED BY <1>1, <1>2

\* A payout in place of one of its tenant and amount pays nothing more.
LEMMA PaidSame ==
  ASSUME FundsInv, UNCHANGED posted, NEW p \in payouts, NEW q \in Payout, q.tenant = p.tenant,
         q.amount = p.amount, q.key = p.key, q \notin payouts \ {p},
         payouts' = (payouts \ {p}) \cup {q}, NEW t \in Tenants
  PROVE  Paid(t)' = Paid(t)
<1>0. \A r : Taken(r.key)' <=> Taken(r.key)
  BY DEF Taken
<1>1. CASE p.tenant = t /\ ~Taken(p.key)
  <2> DEFINE S == Backed(t) \ {p}
  <2>1. Backed(t) = S \cup {p} /\ Backed(t)' = S \cup {q} /\ p \notin S /\ q \notin S
    BY <1>0, <1>1 DEF Backed, PaidOut
  <2>2. IsFiniteSet(S) /\ \A y \in S : y.amount \in Nat
    BY FundsType, FS_Subset
  <2>3. p.amount \in Nat
    BY SaleAssumption DEF Payout
  <2> HIDE DEF S
  <2>4. Total(S \cup {p}) = Total(S) + p.amount /\ Total(S \cup {q}) = Total(S) + q.amount
    BY <2>1, <2>2, <2>3, TotalAdded
  <2> QED BY <2>1, <2>4 DEF Paid, Total
<1>2. CASE ~(p.tenant = t /\ ~Taken(p.key))
  <2>1. Backed(t)' = Backed(t)
    BY <1>0, <1>2 DEF Backed, PaidOut
  <2> QED BY <2>1 DEF Paid, Total
<1> QED BY <1>1, <1>2

-----------------------------------------------------------------------------
\* The three moves of the books of a tenant, and a step that leaves them alone.
Sells(t, n) ==
  /\ \A u \in Tenants : /\ Sold(u)'    = IF u = t THEN Sold(u) + n ELSE Sold(u)
                        /\ pending'[u] = IF u = t THEN pending[u] + n ELSE pending[u]
                        /\ available'[u] = available[u]
                        /\ Paid(u)' = Paid(u)
Matures(t, n) ==
  /\ \A u \in Tenants : /\ Sold(u)' = Sold(u)
                        /\ pending'[u]   = IF u = t THEN pending[u] - n ELSE pending[u]
                        /\ available'[u] = IF u = t THEN available[u] + n ELSE available[u]
                        /\ Paid(u)' = Paid(u)
Pays(t, n) ==
  /\ n <= available[t]
  /\ \A u \in Tenants : /\ Sold(u)' = Sold(u)
                        /\ pending'[u] = pending[u]
                        /\ available'[u] = IF u = t THEN available[u] - n ELSE available[u]
                        /\ Paid(u)' = IF u = t THEN Paid(u) + n ELSE Paid(u)
Rests ==
  \A u \in Tenants : /\ Sold(u)' = Sold(u) /\ pending'[u] = pending[u]
                     /\ available'[u] = available[u] /\ Paid(u)' = Paid(u)
Moved  == \/ \E t \in Tenants, n \in Nat : Sells(t, n) \/ Matures(t, n) \/ Pays(t, n)
          \/ Rests
Finite == IsFiniteSet(posted) /\ IsFiniteSet(payouts)

LEMMA QuietMoves == ASSUME FundsInv, UNCHANGED <<books, payouts>> PROVE Moved /\ Finite'
<1>1. UNCHANGED <<posted, pending, available, payouts>>
  BY DEF books
<1>2. \A u \in Tenants : Sold(u)' = Sold(u) /\ Paid(u)' = Paid(u)
  BY <1>1 DEF Sold, Paid, Of, Backed, PaidOut, Taken
<1> QED BY <1>1, <1>2 DEF Moved, Rests, Finite, FundsInv

\* A sale adds its share to what is pending, the first time.
LEMMA SaleMoves ==
  ASSUME FundsInv, NEW key \in SaleKeys, NEW t \in Tenants, NEW share \in Nat,
         PostSale(key, t, share), UNCHANGED payouts
  PROVE  Moved /\ Finite'
<1>1. CASE Known(key)
  BY <1>1, QuietMoves DEF PostSale, Post, books
<1>2. CASE ~Known(key)
  <2> DEFINE x == [key |-> key, tenant |-> t, kind |-> "sale", amount |-> share]
  <2>1. /\ posted' = posted \cup {x} /\ pending' = [pending EXCEPT ![t] = @ + share]
        /\ available' = [available EXCEPT ![t] = @ + 0]
    BY <1>2 DEF PostSale, Post
  <2>2. x \in Transaction /\ x.kind = "sale" /\ x.tenant = t /\ x.amount = share /\ x.key = key
    BY DEF Transaction, Keys
  <2>3. x \notin posted
    BY <1>2 DEF Known
  <2> HIDE DEF x
  <2>4. Finite'
    BY <2>1, FS_AddElement DEF Finite, FundsInv
  <2>5. pending \in [Tenants -> Int] /\ available \in [Tenants -> Nat]
    BY Types DEF FundsInv, Inv, BookType
  <2>6. ASSUME NEW u \in Tenants
        PROVE  /\ Sold(u)'    = IF u = t THEN Sold(u) + share ELSE Sold(u)
               /\ pending'[u] = IF u = t THEN pending[u] + share ELSE pending[u]
               /\ available'[u] = available[u] /\ Paid(u)' = Paid(u)
    <3>1. Sold(u)' = IF u = t THEN Sold(u) + share ELSE Sold(u)
      BY <2>1, <2>2, <2>3, SoldMoves
    <3>2. Paid(u)' = Paid(u)
      BY <1>2, <2>1, <2>2, PostingTakes, PaidStays DEF FundsInv
    <3> QED BY <2>1, <2>5, <3>1, <3>2
  <2>7. Sells(t, share)
    BY <2>6 DEF Sells
  <2> QED BY <2>4, <2>7 DEF Moved
<1> QED BY <1>1, <1>2

LEMMA MatureMoves ==
  ASSUME FundsInv, NEW t \in Tenants, NEW n \in Amounts, NEW key \in MatureKeys,
         MaturePendingBalances(t, n, key)
  PROVE  Moved /\ Finite'
<1>1. Post(key, t, "mature", n, -n, n) /\ UNCHANGED payouts /\ n \in Nat
  BY SaleAssumption DEF MaturePendingBalances
<1>2. CASE Known(key)
  BY <1>1, <1>2, QuietMoves DEF Post, books
<1>3. CASE ~Known(key)
  <2> DEFINE x == [key |-> key, tenant |-> t, kind |-> "mature", amount |-> n]
  <2>1. /\ posted' = posted \cup {x} /\ pending' = [pending EXCEPT ![t] = @ + (-n)]
        /\ available' = [available EXCEPT ![t] = @ + n]
    BY <1>1, <1>3 DEF Post
  <2>2. x \in Transaction /\ x.kind # "sale" /\ x.key = key
    BY <1>1 DEF Transaction, Keys
  <2>3. x \notin posted
    BY <1>3 DEF Known
  <2> HIDE DEF x
  <2>4. Finite'
    BY <1>1, <2>1, FS_AddElement DEF Finite, FundsInv
  <2>5. pending \in [Tenants -> Int] /\ available \in [Tenants -> Nat]
    BY Types DEF FundsInv, Inv, BookType
  <2>6. ASSUME NEW u \in Tenants
        PROVE  /\ Sold(u)' = Sold(u)
               /\ pending'[u]   = IF u = t THEN pending[u] - n ELSE pending[u]
               /\ available'[u] = IF u = t THEN available[u] + n ELSE available[u]
               /\ Paid(u)' = Paid(u)
    <3>1. Sold(u)' = Sold(u)
      BY <2>1, <2>2, <2>3, SoldMoves
    <3>2. Paid(u)' = Paid(u)
      BY <1>1, <1>3, <2>1, <2>2, PostingTakes, PaidStays DEF FundsInv
    <3> QED BY <1>1, <2>1, <2>5, <3>1, <3>2
  <2>7. Matures(t, n)
    BY <2>6 DEF Matures
  <2> QED BY <1>1, <2>4, <2>7 DEF Moved
<1> QED BY <1>2, <1>3

\* What a request records left the books, or its ledger key is taken.
LEMMA RequestMoves ==
  ASSUME FundsInv, NEW c \in Creators, NEW n \in Amounts, NEW currency \in Currencies,
         NEW key \in PayoutKeys, RequestPayout(c, n, currency, key)
  PROVE  Moved /\ Finite'
<1> DEFINE t == TenantOf[c]
           lk == LedgerKey(key)
           x == [key |-> lk, tenant |-> t, kind |-> "payout", amount |-> n]
           p == [key |-> key, creator |-> c, tenant |-> t, amount |-> n, status |-> "requested"]
<1>1. /\ Post(lk, t, "payout", n, 0, -n) /\ n <= available[t] /\ n \in Nat /\ t \in Tenants
      /\ payouts' = payouts \cup {p} /\ \A q \in payouts : q.key # key
  BY SaleAssumption DEF RequestPayout, Tenants
<1>2. Known(lk) <=> Taken(key)
  BY <1>1, KnownIsTaken DEF FundsInv
<1>3. p \in Payout /\ p.tenant = t /\ p.amount = n /\ p.key = key
  BY <1>1 DEF Payout
<1>4. x \in Transaction /\ x.kind = "payout" /\ x.key = lk
  BY <1>1 DEF Transaction, Keys
<1>5. ~Known(lk) => /\ posted' = posted \cup {x} /\ pending' = [pending EXCEPT ![t] = @ + 0]
                    /\ available' = [available EXCEPT ![t] = @ + (-n)]
  BY <1>1 DEF Post
<1>6. Known(lk) => UNCHANGED <<posted, pending, available>>
  BY <1>1 DEF Post, books
<1>7. p \notin payouts
  BY <1>1, <1>3
<1>8. pending \in [Tenants -> Int] /\ available \in [Tenants -> Nat]
  BY Types DEF FundsInv, Inv, BookType
<1>9. lk = LedgerKey(key)
  OBVIOUS
<1> HIDE DEF x, p, lk
<1>10. CASE Known(lk)
  <2>1. TakenStays /\ Taken(p.key)'
    BY <1>2, <1>3, <1>6, <1>10 DEF TakenStays, Taken
  <2>2. \A u \in Tenants : Paid(u)' = Paid(u)
    BY <1>1, <1>3, <1>7, <2>1, PaidMoves
  <2>3. \A u \in Tenants : Sold(u)' = Sold(u)
    BY <1>6, <1>10 DEF Sold, Of
  <2>4. Rests
    BY <1>6, <1>10, <2>2, <2>3 DEF Rests
  <2>5. Finite'
    BY <1>1, <1>6, <1>10, FS_AddElement DEF Finite, FundsInv
  <2> QED BY <2>4, <2>5 DEF Moved
<1>11. CASE ~Known(lk)
  <2>1. /\ posted' = posted \cup {x} /\ pending' = [pending EXCEPT ![t] = @ + 0]
        /\ available' = [available EXCEPT ![t] = @ + (-n)]
    BY <1>5, <1>11
  <2>2. x \notin posted
    BY <1>4, <1>11 DEF Known
  <2>3. Finite'
    BY <1>1, <2>1, FS_AddElement DEF Finite, FundsInv
  <2>4. TakenStays
    BY <1>4, <1>11, <2>1, PostingTakes DEF FundsInv
  <2>5. ~Taken(p.key)'
    BY <1>2, <1>3, <1>4, <1>11, <2>1 DEF Taken
  <2>6. ASSUME NEW u \in Tenants
        PROVE  /\ Sold(u)' = Sold(u) /\ pending'[u] = pending[u]
               /\ available'[u] = IF u = t THEN available[u] - n ELSE available[u]
               /\ Paid(u)' = IF u = t THEN Paid(u) + n ELSE Paid(u)
    <3>1. Sold(u)' = Sold(u)
      BY <1>4, <2>1, <2>2, SoldMoves
    <3>2. Paid(u)' = IF u = t THEN Paid(u) + n ELSE Paid(u)
      BY <1>1, <1>3, <1>7, <2>4, <2>5, PaidMoves
    <3> QED BY <1>1, <1>8, <2>1, <3>1, <3>2
  <2>7. Pays(t, n)
    BY <1>1, <2>6 DEF Pays
  <2> QED BY <1>1, <2>3, <2>7 DEF Moved
<1> QED BY <1>10, <1>11

\* The record of a payout is replaced by one of the same amount.
LEMMA MarkMoves ==
  ASSUME FundsInv, NEW p \in payouts, NEW st \in {"paid", "failed"}, MarkPayout(p, st)
  PROVE  Moved /\ Finite'
<1> DEFINE q == [p EXCEPT !.status = st]
<1>1. payouts' = (payouts \ {p}) \cup {q} /\ UNCHANGED <<posted, pending, available>>
  BY DEF MarkPayout, books
<1>2. p \in Payout
  BY Types DEF FundsInv, Inv
<1>3. q \in Payout /\ q.key = p.key /\ q.tenant = p.tenant /\ q.amount = p.amount
  BY <1>2 DEF Payout
<1> HIDE DEF q
<1>4. q \notin payouts \ {p}
  BY <1>3 DEF FundsInv, Inv, PayoutsBacked
<1>5. \A u \in Tenants : Paid(u)' = Paid(u)
  BY <1>1, <1>3, <1>4, PaidSame
<1>6. \A u \in Tenants : Sold(u)' = Sold(u)
  BY <1>1 DEF Sold, Of
<1>7. Rests
  BY <1>1, <1>5, <1>6 DEF Rests
<1>8. IsFiniteSet(payouts \ {p})
  BY FS_Subset DEF FundsInv
<1>9. Finite'
  BY <1>1, <1>8, FS_AddElement DEF Finite, FundsInv
<1> QED BY <1>7, <1>9 DEF Moved

LEMMA StepMoves == FundsInv /\ [Next]_vars => Moved /\ Finite'
<1> SUFFICES ASSUME FundsInv, [Next]_vars PROVE Moved /\ Finite'
  OBVIOUS
<1>1. ASSUME UNCHANGED <<books, payouts>> PROVE Moved /\ Finite'
  BY <1>1, QuietMoves
<1>2. CASE UNCHANGED vars
  BY <1>1, <1>2 DEF vars
<1>3. ASSUME NEW c \in Creators, SkillStep(c) PROVE Moved /\ Finite'
  BY <1>1, <1>3 DEF SkillStep, Visit, RefillMonthlyCredits, AssignPlan, Reset, TopUpCredits
<1>4. ASSUME NEW r \in Runs, StartRun(r) \/ CompleteRun(r) \/ RefundRun(r) PROVE Moved /\ Finite'
  BY <1>1, <1>4 DEF StartRun, CompleteRun, RefundRun
<1>5. ASSUME NEW key \in SaleKeys, NEW channel \in {"web", "app_store"}, SaleStep(key, channel)
      PROVE Moved /\ Finite'
  <2>1. SkillType
    BY Types DEF FundsInv, Inv
  <2>2. ASSUME NEW c \in Creators, NEW t \in Tenants, NEW price \in GiftPrices,
               PurchaseGift(c, t, price, channel, key)
        PROVE Moved /\ Finite'
    <3>1. price \in Nat /\ plan[c] \in {"premium", "pro", "business"}
      BY <2>2, SaleAssumption DEF PurchaseGift, Earning
    <3>2. CreatorShare(price, channel, plan[c]) \in Nat
      BY <3>1, ShareType
    <3> QED BY <2>2, <3>2, SaleMoves DEF PurchaseGift
  <2>3. ASSUME NEW o \in Offers, PurchaseOffer(o, channel, key) PROVE Moved /\ Finite'
    <3> DEFINE c == SellerOf[o]
               share == CreatorShare(PriceOf[o], channel, PlanNow(c))
    <3>1. c \in Creators /\ PriceOf[o] \in Nat /\ TenantOf[c] \in Tenants
      BY SaleAssumption DEF Tenants
    <3>2. PlanNow(c) \in {"free", "premium", "pro", "business"}
      BY <2>1, <3>1, NowType, PlanAssumption
    <3>3. share \in Nat
      BY <3>1, <3>2, ShareType
    <3>4. PostSale(key, TenantOf[c], share) /\ UNCHANGED payouts
      BY <2>3 DEF PurchaseOffer
    <3> QED BY <3>1, <3>3, <3>4, SaleMoves
  <2> QED BY <1>5, <2>2, <2>3 DEF SaleStep
<1>6. CASE PayoutStep
  BY <1>6, MatureMoves, RequestMoves, MarkMoves DEF PayoutStep
<1>7. ASSUME NEW o \in Offers, CreateOffer(o) \/ ActivateOffer(o) PROVE Moved /\ Finite'
  BY <1>1, <1>7 DEF CreateOffer, ActivateOffer
<1>8. ASSUME NEW c \in Creators, NEW done \in BOOLEAN, SubmitKyc(c, done) PROVE Moved /\ Finite'
  BY <1>1, <1>8 DEF SubmitKyc
<1>9. CASE Next
  BY <1>3, <1>4, <1>5, <1>6, <1>7, <1>8, <1>9 DEF Next
<1> QED BY <1>2, <1>9

\* No move makes or loses money.
LEMMA StepFunds == FundsInv /\ [Next]_vars => FundsInv'
<1> SUFFICES ASSUME FundsInv, [Next]_vars PROVE FundsInv'
  OBVIOUS
<1>1. Inv'
  BY StepInv DEF FundsInv
<1>2. Moved /\ Finite'
  BY StepMoves
<1>3. ASSUME NEW u \in Tenants PROVE pending'[u] + available'[u] + Paid(u)' = Sold(u)'
  <2>1. /\ Sold(u) \in Nat /\ Paid(u) \in Nat /\ pending[u] \in Int /\ available[u] \in Nat
        /\ pending[u] + available[u] + Paid(u) = Sold(u)
    BY FundsType
  <2>2. ASSUME NEW t \in Tenants, NEW n \in Nat, Sells(t, n) \/ Matures(t, n) \/ Pays(t, n)
        PROVE  pending'[u] + available'[u] + Paid(u)' = Sold(u)'
    <3>1. CASE Sells(t, n)
      BY <2>1, <3>1 DEF Sells
    <3>2. CASE Matures(t, n)
      BY <2>1, <3>2 DEF Matures
    <3>3. CASE Pays(t, n)
      BY <2>1, <3>3 DEF Pays
    <3> QED BY <2>2, <3>1, <3>2, <3>3
  <2>3. CASE Rests
    BY <2>1, <2>3 DEF Rests
  <2> QED BY <1>2, <2>2, <2>3 DEF Moved
<1> QED BY <1>1, <1>2, <1>3 DEF FundsInv, FundsConserved, Finite, Sold, Paid

LEMMA InitFunds == Init => FundsInv /\ TenantFunds!Init
<1> SUFFICES ASSUME Init PROVE FundsInv /\ TenantFunds!Init
  OBVIOUS
<1>1. /\ posted = {} /\ payouts = {}
      /\ \A t \in Tenants : pending[t] = 0 /\ available[t] = 0
  BY DEF Init
<1>2. \A t \in Tenants : Of("sale", t) = {} /\ Backed(t) = {}
  BY <1>1 DEF Of, Backed, PaidOut
<1>3. Total({}) = 0
  BY SumEmpty DEF Total
<1>4. \A t \in Tenants : Total(Of("sale", t)) = 0 /\ Total(Backed(t)) = 0
  BY <1>2, <1>3
<1>5. FundsConserved
  BY <1>1, <1>4 DEF FundsConserved
<1>6. TenantFunds!Init
  BY <1>4 DEF Init, TenantFunds!Init, TenantFunds!Zero
<1>7. IsFiniteSet(posted) /\ IsFiniteSet(payouts)
  BY <1>1, FS_EmptySet
<1> QED BY <1>5, <1>6, <1>7, InitInv DEF FundsInv

\* Each tenant's money is pending, available or in a payout whose ledger key is
\* its own, for all tenants, keys and amounts, the keys of different operations
\* equal or not.
THEOREM FundsKept == Spec => []FundsConserved
<1>1. FundsInv => FundsConserved
  BY DEF FundsInv
<1> QED BY <1>1, InitFunds, StepFunds, PTL DEF Spec

-----------------------------------------------------------------------------
\* Each move is the step of Funds of that name.
received == [t \in Tenants |-> Total(Of("sale", t))]
gone     == [t \in Tenants |-> Total(Backed(t))]

\* A function that changes at one owner.
LEMMA Added ==
  ASSUME NEW f \in [Tenants -> Int], NEW g \in [Tenants -> Int], NEW t \in Tenants, NEW n \in Int,
         \A u \in Tenants : g[u] = IF u = t THEN f[u] + n ELSE f[u]
  PROVE  g = [f EXCEPT ![t] = @ + n] /\ g[t] - f[t] = n
OBVIOUS

LEMMA Same ==
  ASSUME NEW f \in [Tenants -> Int], NEW g \in [Tenants -> Int], \A u \in Tenants : g[u] = f[u]
  PROVE  g = f
OBVIOUS

LEMMA Functions ==
  ASSUME FundsInv
  PROVE  /\ received \in [Tenants -> Int] /\ gone \in [Tenants -> Int]
         /\ pending \in [Tenants -> Int] /\ available \in [Tenants -> Int]
<1>1. pending \in [Tenants -> Int] /\ available \in [Tenants -> Nat]
  BY Types DEF FundsInv, Inv, BookType
<1>2. \A t \in Tenants : Total(Of("sale", t)) \in Nat /\ Total(Backed(t)) \in Nat
  BY FundsType DEF Sold, Paid
<1> QED BY <1>1, <1>2 DEF received, gone

\* The steps of Funds, said of these functions.
LEMMA ReceiveIs ==
  ASSUME NEW t, NEW n, n = received'[t] - received[t], n >= 0, received' = [received EXCEPT ![t] = @ + n],
         pending' = [pending EXCEPT ![t] = @ + n], available' = available, gone' = gone
  PROVE  TenantFunds!Receive(t)
BY DEF TenantFunds!Receive, TenantFunds!Add, received, gone

LEMMA MatureIs ==
  ASSUME NEW t, NEW n, n = available'[t] - available[t], n >= 0,
         available' = [available EXCEPT ![t] = @ + n], pending' = [pending EXCEPT ![t] = @ + (-n)],
         received' = received, gone' = gone
  PROVE  TenantFunds!Mature(t)
BY DEF TenantFunds!Mature, TenantFunds!Add, received, gone

LEMMA SpendIs ==
  ASSUME NEW t, NEW n, n = gone'[t] - gone[t], n >= 0, n <= available[t],
         gone' = [gone EXCEPT ![t] = @ + n], available' = [available EXCEPT ![t] = @ + (-n)],
         received' = received, pending' = pending
  PROVE  TenantFunds!Spend(t)
BY DEF TenantFunds!Spend, TenantFunds!Add, received, gone

LEMMA StepRefines == FundsInv /\ FundsInv' /\ [Next]_vars => [TenantFunds!Next]_(TenantFunds!vars)
<1> SUFFICES ASSUME FundsInv, FundsInv', [Next]_vars PROVE [TenantFunds!Next]_(TenantFunds!vars)
  OBVIOUS
<1>1. Moved
  BY StepMoves
<1>2. /\ received \in [Tenants -> Int] /\ gone \in [Tenants -> Int]
      /\ pending \in [Tenants -> Int] /\ available \in [Tenants -> Int]
  BY Functions
<1>3. /\ received' \in [Tenants -> Int] /\ gone' \in [Tenants -> Int]
      /\ pending' \in [Tenants -> Int] /\ available' \in [Tenants -> Int]
  <2>1. pending' \in [Tenants -> Int] /\ available' \in [Tenants -> Int]
    BY Types, StepInv DEF FundsInv, Inv, TypeOK
  <2>2. \A t \in Tenants : Sold(t)' \in Int /\ Paid(t)' \in Int
    BY <1>1, FundsType DEF Moved, Sells, Matures, Pays, Rests
  <2> QED BY <2>1, <2>2 DEF received, gone, Sold, Paid
<1>4. \A u \in Tenants : /\ received[u] = Sold(u) /\ received'[u] = Sold(u)'
                         /\ gone[u] = Paid(u) /\ gone'[u] = Paid(u)'
  BY DEF received, gone, Sold, Paid
<1>5. ASSUME NEW t \in Tenants, NEW n \in Nat, Sells(t, n) PROVE TenantFunds!Receive(t)
  <2>1. received' = [received EXCEPT ![t] = @ + n] /\ n = received'[t] - received[t]
    BY <1>2, <1>3, <1>4, <1>5, Added DEF Sells
  <2>2. pending' = [pending EXCEPT ![t] = @ + n]
    BY <1>2, <1>3, <1>5, Added DEF Sells
  <2>3. available' = available /\ gone' = gone
    BY <1>2, <1>3, <1>4, <1>5, Same DEF Sells
  <2>5. n >= 0
    OBVIOUS
  <2> QED BY <2>1, <2>2, <2>3, <2>5, ReceiveIs
<1>6. ASSUME NEW t \in Tenants, NEW n \in Nat, Matures(t, n) PROVE TenantFunds!Mature(t)
  <2>1. available' = [available EXCEPT ![t] = @ + n] /\ n = available'[t] - available[t]
    BY <1>2, <1>3, <1>6, Added DEF Matures
  <2>2. \A u \in Tenants : pending'[u] = IF u = t THEN pending[u] + (-n) ELSE pending[u]
    BY <1>2, <1>6 DEF Matures
  <2>3. pending' = [pending EXCEPT ![t] = @ + (-n)]
    BY <1>2, <1>3, <2>2, Added
  <2>4. received' = received /\ gone' = gone
    BY <1>2, <1>3, <1>4, <1>6, Same DEF Matures
  <2>5. n >= 0
    OBVIOUS
  <2> QED BY <2>1, <2>3, <2>4, <2>5, MatureIs
<1>7. ASSUME NEW t \in Tenants, NEW n \in Nat, Pays(t, n) PROVE TenantFunds!Spend(t)
  <2>1. gone' = [gone EXCEPT ![t] = @ + n] /\ n = gone'[t] - gone[t]
    BY <1>2, <1>3, <1>4, <1>7, Added DEF Pays
  <2>2. \A u \in Tenants : available'[u] = IF u = t THEN available[u] + (-n) ELSE available[u]
    BY <1>2, <1>7 DEF Pays
  <2>3. available' = [available EXCEPT ![t] = @ + (-n)]
    BY <1>2, <1>3, <2>2, Added
  <2>4. received' = received /\ pending' = pending /\ n <= available[t]
    BY <1>2, <1>3, <1>4, <1>7, Same DEF Pays
  <2>5. n >= 0
    OBVIOUS
  <2> QED BY <2>1, <2>3, <2>4, <2>5, SpendIs
<1>8. CASE Rests
  <2>1. received' = received /\ pending' = pending /\ available' = available /\ gone' = gone
    BY <1>2, <1>3, <1>4, <1>8, Same DEF Rests
  <2> QED BY <2>1 DEF TenantFunds!vars, received, gone
<1> QED BY <1>1, <1>5, <1>6, <1>7, <1>8 DEF Moved, TenantFunds!Next

\* The books of every tenant evolve as Funds: no step takes what was not
\* available, takes one amount twice or brings it back, and the payout whose
\* ledger key is taken moves nothing.
THEOREM Refinement == Spec => FundsDiscipline
BY InitFunds, StepFunds, StepRefines, PTL DEF Spec, FundsDiscipline, TenantFunds!Spec

(***************************************************************************)
(* The split of a price: which prices can be sold, and what they leave.     *)
(***************************************************************************)
LEMMA RoundBounds ==
  ASSUME NEW n \in Nat, NEW d \in {100, 116, 1000}
  PROVE  /\ Round(n, d) \in Nat
         /\ (2 * d) * Round(n, d) <= 2 * n + d /\ 2 * n + d < (2 * d) * Round(n, d) + 2 * d
<1>1. CASE d = 100
  BY <1>1 DEF Round
<1>2. CASE d = 116
  BY <1>2 DEF Round
<1>3. CASE d = 1000
  BY <1>3 DEF Round
<1> QED BY <1>1, <1>2, <1>3

\* The parts of a price, by the multiples they round.
LEMMA Parts ==
  ASSUME NEW gross \in Nat, NEW channel
  PROVE  /\ Vat(gross) \in Nat /\ 232 * Vat(gross) <= 32 * gross + 116 /\ Vat(gross) <= gross
         /\ Fee(gross) \in Nat
         /\ \E base \in Nat, tax \in Nat :
              /\ Fee(gross) = base + 300 + tax
              /\ 2000 * base <= 72 * gross + 1000 /\ 200 * tax <= 32 * (base + 300) + 100
         /\ StoreCut(gross, channel) \in Nat /\ StoreCut(gross, channel) <= gross
         /\ channel # "app_store" => StoreCut(gross, channel) = 0
         /\ 100 * StoreCut(gross, channel) <= 30 * gross
         /\ Reserve(gross) \in Nat
         /\ 200 * Reserve(gross) <= 10 * (gross - Vat(gross)) + 100
<1> DEFINE v == Vat(gross)
<1>1. v \in Nat /\ 232 * v <= 32 * gross + 116
  <2>1. 16 * gross \in Nat
    OBVIOUS
  <2> QED BY <2>1, RoundBounds DEF Vat
<1>2. v <= gross
  BY <1>1
<1>3. /\ Reserve(gross) \in Nat /\ 200 * Reserve(gross) <= 10 * (gross - v) + 100
  <2> DEFINE m == 5 * (gross - v)
  <2>1. m \in Nat /\ Reserve(gross) = Round(m, 100)
    BY <1>1, <1>2 DEF Reserve
  <2>2. Round(m, 100) \in Nat /\ 200 * Round(m, 100) <= 2 * m + 100
    <3> HIDE DEF m
    <3> QED BY <2>1, RoundBounds
  <2>3. 2 * m = 10 * (gross - v)
    BY <1>1
  <2> QED BY <2>1, <2>2, <2>3
<1>4. /\ StoreCut(gross, channel) \in Nat /\ 100 * StoreCut(gross, channel) <= 30 * gross
      /\ StoreCut(gross, channel) <= gross /\ (channel # "app_store" => StoreCut(gross, channel) = 0)
  BY DEF StoreCut
<1>5. PICK base \in Nat : base = Round(36 * gross, 1000) /\ 2000 * base <= 72 * gross + 1000
  <2>1. 36 * gross \in Nat
    OBVIOUS
  <2> QED BY <2>1, RoundBounds
<1>6. PICK tax \in Nat : tax = Round(16 * (base + 300), 100) /\ 200 * tax <= 32 * (base + 300) + 100
  <2>1. 16 * (base + 300) \in Nat
    OBVIOUS
  <2> QED BY <2>1, RoundBounds
<1>7. Fee(gross) = base + 300 + tax
  BY <1>5, <1>6 DEF Fee
<1>8. \E b \in Nat, t \in Nat : /\ Fee(gross) = b + 300 + t
                               /\ 2000 * b <= 72 * gross + 1000
                               /\ 200 * t <= 32 * (b + 300) + 100
  <2> HIDE DEF v
  <2> WITNESS base \in Nat, tax \in Nat
  <2> QED BY <1>5, <1>6, <1>7
<1>9. Fee(gross) \in Nat
  BY <1>5, <1>6, <1>7
<1>10. Reserve(gross) \in Nat /\ 200 * Reserve(gross) <= 10 * (gross - Vat(gross)) + 100
  BY <1>3
<1>11. Vat(gross) \in Nat /\ 232 * Vat(gross) <= 32 * gross + 116 /\ Vat(gross) <= gross
  BY <1>1, <1>2
<1> QED BY <1>4, <1>8, <1>9, <1>10, <1>11

\* A price that covers its costs has ledger lines that balance.
LEMMA CoveredBalances ==
  ASSUME NEW gross \in Nat, NEW channel,
         gross - Vat(gross) - Fee(gross) - StoreCut(gross, channel) - Reserve(gross) >= 0
  PROVE  Balanced(gross, channel)
BY Parts DEF Balanced, Net, AtLeastZero

\* The prices at the floor, whose roundings the bounds of Parts are too coarse for.
LEMMA AtTheFloor ==
  /\ \A gross \in 448..450 : Balanced(gross, "web")
  /\ \A gross \in 726..733 : Balanced(gross, "app_store")
  /\ ~Balanced(447, "web") /\ ~Balanced(725, "app_store")
<1> USE DEF Balanced, Net, AtLeastZero, Reserve, StoreCut, Fee, Vat, Round
<1>1. \A gross \in 448..450 : Balanced(gross, "web")
  <2>1. \A gross \in 448..450 : gross = 448 \/ gross = 449 \/ gross = 450
    OBVIOUS
  <2>2. Balanced(448, "web") /\ Balanced(449, "web") /\ Balanced(450, "web")
    OBVIOUS
  <2> QED BY <2>1, <2>2
<1>2. \A gross \in 726..733 : Balanced(gross, "app_store")
  <2>1. \A gross \in 726..733 : \/ gross = 726 \/ gross = 727 \/ gross = 728 \/ gross = 729
                                \/ gross = 730 \/ gross = 731 \/ gross = 732 \/ gross = 733
    OBVIOUS
  <2>2. /\ Balanced(726, "app_store") /\ Balanced(727, "app_store")
        /\ Balanced(728, "app_store") /\ Balanced(729, "app_store")
    OBVIOUS
  <2>3. /\ Balanced(730, "app_store") /\ Balanced(731, "app_store")
        /\ Balanced(732, "app_store") /\ Balanced(733, "app_store")
    OBVIOUS
  <2> QED BY <2>1, <2>2, <2>3
<1>3. ~Balanced(447, "web") /\ ~Balanced(725, "app_store")
  OBVIOUS
<1> QED BY <1>1, <1>2, <1>3

\* The floor of the prices the ledger accepts, on each channel: from 4.48 pesos on
\* the web and from 7.26 in the app store every price can be sold, because the
\* lines that splitToLedgerLines() keeps balance and postTransaction() does not
\* throw; the price one cent below cannot.
THEOREM PriceFloor ==
  /\ \A gross \in Nat : /\ gross >= 448 => Balanced(gross, "web")
                        /\ gross >= 726 => Balanced(gross, "app_store")
  /\ ~Balanced(447, "web") /\ ~Balanced(725, "app_store")
<1>1. ASSUME NEW gross \in Nat, gross >= 451 PROVE Balanced(gross, "web")
  <2>1. StoreCut(gross, "web") = 0
    BY DEF StoreCut
  <2>2. gross - Vat(gross) - Fee(gross) - StoreCut(gross, "web") - Reserve(gross) >= 0
    BY <1>1, <2>1, Parts
  <2> QED BY <2>2, CoveredBalances
<1>2. ASSUME NEW gross \in Nat, gross >= 734 PROVE Balanced(gross, "app_store")
  <2>1. gross - Vat(gross) - Fee(gross) - StoreCut(gross, "app_store") - Reserve(gross) >= 0
    BY <1>2, Parts
  <2> QED BY <2>1, CoveredBalances
<1>3. ASSUME NEW gross \in Nat, gross >= 448 PROVE Balanced(gross, "web")
  <2>1. gross \in 448..450 \/ gross >= 451
    BY <1>3
  <2> QED BY <1>1, <2>1, AtTheFloor
<1>4. ASSUME NEW gross \in Nat, gross >= 726 PROVE Balanced(gross, "app_store")
  <2>1. gross \in 726..733 \/ gross >= 734
    BY <1>4
  <2> QED BY <1>2, <2>1, AtTheFloor
<1> QED BY <1>3, <1>4, AtTheFloor
=============================================================================
