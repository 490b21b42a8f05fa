SPECIFICATION Spec
CONSTANTS
  t1 = t1
  u1 = u1
  u2 = u2
  r1 = r1
  r2 = r2
  r3 = r3
  g1 = g1
  g2 = g2
  g3 = g3
  g4 = g4
  c1 = c1
  NoUser = NoUser
  NoGrant = NoGrant
  Tenants = {t1}
  Users = {u1, u2}
  Reqs = {r1, r2, r3}
  Grants = {g1, g2, g3, g4}
  Chains = {c1}
  Window = 4
  TokenCost = 3
  MaxTime = 5
  MaxDepth = 5
  MaxFanOut = 1
  MaxAttempts = 2
  DefaultQuota <- MCDefaultQuota
  Envelope <- MCEnvelope
  ScopesOf <- MCScopesOf
  Rules <- MCRules
  Thresholds <- MCThresholds
  Workloads <- MCWorkloads
INVARIANTS VoidRequestRefused BudgetNeverOverdrawn RateConforms
   AuditTellsOutcome 
PROPERTIES EveryRequestAnswered
