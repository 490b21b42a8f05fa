SPECIFICATION Spec
CONSTANTS
  p1 = p1
  p2 = p2
  m1 = m1
  m2 = m2
  Requests = {r1, r2}
  Providers <- MCProviders
  Models <- MCModels
  Priority <- MCPriority
  Serves <- MCServes
  BreakerEnabled <- MCBreakerEnabled
  Type <- MCType
  MaxRetries <- MCMaxRetries
  RouterMaxRetries = 0
  FallbackRules <- MCFallbackRules
  FailureThreshold = 1
  SuccessThreshold = 1
  HalfOpenMaxRequests = 1
INVARIANTS
  CandidatesInPriorityOrder
  AttemptsBounded
PROPERTIES
  CompletionsReturn
