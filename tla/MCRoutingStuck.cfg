SPECIFICATION SpecWithTraffic
CONSTANTS
  p1 = p1
  p2 = p2
  m1 = m1
  m2 = m2
  Requests = {r1}
  Providers = {p1, p2}
  Models <- OneModel
  Priority <- SamePriority
  Serves <- ServesAll
  BreakerEnabled <- AllEnabled
  Type <- MockFirst
  MaxRetries <- OneRetry
  RouterMaxRetries = 1
  FallbackRules <- NoRules
  FailureThreshold = 1
  SuccessThreshold = 2
  HalfOpenMaxRequests = 3
PROPERTIES
  HalfOpenResolves
