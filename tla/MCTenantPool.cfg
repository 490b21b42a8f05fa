SPECIFICATION PoolSpec
CONSTANTS
  w1 = w1
  w2 = w2
  w3 = w3
  w4 = w4
  t1 = t1
  t2 = t2
  Unset = Unset
  Workers = {w1, w2, w3, w4}
  Conns = {c1, c2, c3}
  Tenants = {t1, t2}
  TenantOf <- MCTenantOf
  Nested = {w1, w2}
  RlsEnforced = TRUE
INVARIANT Isolated
 
