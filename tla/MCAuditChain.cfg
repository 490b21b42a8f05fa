SPECIFICATION Spec
CONSTANTS
  w1 = w1
  w2 = w2
  w3 = w3
  w4 = w4
  t1 = t1
  t2 = t2
  None = None
  Writers = {w1, w2, w3, w4}
  Tenants = {t1, t2}
  TenantOf <- MCTenantOf
  Events <- MCEvents
CHECK_DEADLOCK FALSE
INVARIANTS ChainIntact ReadsStayCurrent BatchesWhole 
PROPERTY TransactionsEnd
