--------------------------- MODULE MCCreatorEconomy ---------------------------
(* One tenant with two creators: one has the skill runs and an offer, both    *)
(* ask for payouts with the same key.  A monthly plan of few credits; a gift *)
(* of 5000 leaves its creator 3006, and two maturings are enough for both    *)
(* requests.  An offer of 500 leaves 34, and its lines balance on the web but *)
(* not in the app store.  A sale may come under the ledger key of the payout, *)
(* and the amounts reach the threshold of one currency only.               *)
EXTENDS CreatorEconomy, TLC

CONSTANTS ana, beto, rdm, r1, r2, o1, k1, m1, m2, w1

MCTenantOf  == ana :> rdm @@ beto :> rdm
MCCreatorOf == r1 :> ana @@ r2 :> ana
MCCostOf    == r1 :> 1 @@ r2 :> 1
MCPlanOf    == r1 :> "free" @@ r2 :> "premium"
MCMonthly   == [free |-> 1, premium |-> 1]
MCMaxActive == [free |-> 0, premium |-> 1]
MCSellerOf  == [o \in Offers |-> ana]
MCSaleKeys  == {k1, LedgerKey(w1)}
MCThreshold == [MXN |-> 5000, USD |-> 3000]
MCPriceOf   == [o \in Offers |-> 500]

Symmetry == Permutations({m1, m2})
=============================================================================
