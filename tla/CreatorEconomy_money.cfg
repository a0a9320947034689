CONSTANTS
  ana = ana
  beto = beto
  rdm = rdm
  r1 = r1
  r2 = r2
  o1 = o1
  k1 = k1
  m1 = m1
  m2 = m2
  w1 = w1
  Creators = {ana, beto}
  TenantOf <- MCTenantOf
  Runs = {r1, r2}
  CreatorOf <- MCCreatorOf
  CostOf <- MCCostOf
  PlanOf <- MCPlanOf
  Plans = {"free", "premium"}
  Monthly <- MCMonthly
  MaxActive <- MCMaxActive
  TopUps = {1}
  MaxCredits = 1
  Offers = {o1}
  SellerOf <- MCSellerOf
  PriceOf <- MCPriceOf
  GiftPrices = {5000}
  SaleKeys <- MCSaleKeys
  MatureKeys = {m1, m2}
  PayoutKeys = {w1}
  Amounts = {3000}
  Currencies = {"MXN", "USD"}
  Threshold <- MCThreshold
  MaxSales = 1
SPECIFICATION Spec
SYMMETRY Symmetry
INVARIANTS TypeOK CreditsConserved FundsConserved PayoutsBacked
PROPERTY FundsDiscipline
CHECK_DEADLOCK FALSE
