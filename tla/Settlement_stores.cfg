CONSTANTS
  p1 = p1
  p2 = p2
  c1 = c1
  c2 = c2
  c3 = c3
  c4 = c4
  Payments = {p1, p2}
  Calls = {c1, c2, c3, c4}
  PaymentOf <- MCPaymentOf
  MaxCrashes = 1
SPECIFICATION Spec
INVARIANTS TypeOK SoleOwner SettledIsTrue
PROPERTY LedgerDiscipline
CHECK_DEADLOCK FALSE
