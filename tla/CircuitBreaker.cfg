SPECIFICATION Spec
CONSTANTS
  Callers = {c1, c2, c3}
  FailureThreshold = 3
  SuccessThreshold = 2
  HalfOpenMaxRequests = 2

  
PROPERTIES
  OpensAfterConsecutiveFailures
  ClosesAfterConsecutiveSuccesses
