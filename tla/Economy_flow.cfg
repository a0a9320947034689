CONSTANTS
  rdm = rdm
  norte = norte
  ana = ana
  bruno = bruno
  t1 = t1
  Users <- MCUsers
  SaleAmounts = {10, 20, 30}
  WalletAmounts = {1}
  CallerIds = {t1}
  MaxSingle = 20
  MaxDaily = 20
  MaxPerHour = 1
  HoursPerDay = 2
  MaxHour = 2
  MaxEvents = 2
  MaxPayouts = 1
  MaxEarned = 2
SPECIFICATION Spec
INVARIANTS TypeOK Conservation LimitsHold ApprovedIsCredited ReputationIsEarned
PROPERTY FundsDiscipline
CHECK_DEADLOCK FALSE
