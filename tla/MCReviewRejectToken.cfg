SPECIFICATION StreamSpec
CONSTANTS
  v1 = v1
  v2 = v2
  o1 = o1
  o2 = o2
  o3 = o3
  t1 = t1
  t2 = t2
  s1 = s1
  s2 = s2
  Reviews = {v1, v2}
  Ops = {o1}
  Tenants = {t1, t2}
  TenantOf <- MCTenantOf
  Revalidates = {v1}
  NoOne = NoOne
  Streams = {s1, s2}
  ChanCap = 2
  Workloads <- MCWorkloads
INVARIANT IssuedTokenAccepted
