SPECIFICATION Spec
CONSTANTS
  a1 = a1
  a2 = a2
  a3 = a3
  r1 = r1
  r2 = r2
  b1 = b1
  none = none
  Calls = {a1, a2, a3, r1, b1}
  Tenants = {"t1", "t2"}
  Contents = {"whole", "ms"}
  TenantOf <- MCTenantOf
  LockOf <- MCLockOf
  ReadBack <- MCReadBack
  RefundOf <- MCRefundOf
  After <- MCAfter
  NoIndex = none
  NoCall = none
  Genesis = none
INVARIANT TypeOK
INVARIANT NoClash
INVARIANT ExactChainVerifies
PROPERTY AppendOnlyChain
