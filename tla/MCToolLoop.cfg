CONSTANTS
  p1 = p1  p2 = p2  p3 = p3  n1 = n1  n2 = n2  bare = bare  d1 = d1
  Procs = {p1, p2, p3}
  Callers = {p2, p3}
  Names = {n1, n2}
  Target = n2
  Tools = {n2}
  Defs = {bare, d1}
  Limits <- MCLimits
  Requested <- MCLimits
  MaxTimeout = 300000
  SeedTools <- MCSeedTools
  Workloads <- MCWorkloads
  Ops = 1
  Starts <- MCStarts
  None = None
  RuntimesPerBucket = 1
  CeilingTimeout = 3
  CeilingPages = 0
  Nobody = Nobody
  MaxIterations = 2
  MaxCalls = 1
  MaybeGuarded = {n2}
SPECIFICATION Spec
INVARIANTS AuditNamesActiveRow  RuntimesConserved  ExecutionsAccountable 
PROPERTIES CacheConverges ChatsEnd
