-------------------------- MODULE CircuitBreakerOps --------------------------
(***************************************************************************)
(* The circuit breaker of internal/domain/model/circuitbreaker.go as        *)
(* operators on a record.  Every method of the Go type runs under cb.mu, so *)
(* each is one operator on the whole record; the modules that share a       *)
(* breaker between goroutines apply one operator per step.                  *)
(*                                                                         *)
(* Time is kept only as far as the code looks at it: "elapsed" is the value *)
(* of time.Since(lastFailureTime) >= timeout.  RecordFailure makes it FALSE,*)
(* and the passing of time (Elapse) makes it TRUE.                          *)
(***************************************************************************)
EXTENDS Naturals

CONSTANTS FailureThreshold,     \* failures in closed before opening
          SuccessThreshold,     \* successes in half-open before closing
          HalfOpenMaxRequests   \* slots of one half-open period

\* NewCircuitBreaker replaces a value that is not positive by a default.
ASSUME ThresholdsArePositive ==
  /\ FailureThreshold \in Nat \ {0}
  /\ SuccessThreshold \in Nat \ {0}
  /\ HalfOpenMaxRequests \in Nat \ {0}

States == {"closed", "open", "half-open"}

Breaker == [enabled : BOOLEAN,
            state : States,
            failureCount : 0..FailureThreshold,
            successCount : 0..(SuccessThreshold - 1),
            halfOpenRequests : 0..HalfOpenMaxRequests,
            elapsed : BOOLEAN]

\* lastFailureTime starts as the zero time, which is longer ago than timeout.
NewCircuitBreaker(enabled) ==
  [enabled |-> enabled, state |-> "closed", failureCount |-> 0,
   successCount |-> 0, halfOpenRequests |-> 0, elapsed |-> TRUE]

\* The state change AllowRequest and TryTransitionToHalfOpen have in common.
ToHalfOpen(cb) == [cb EXCEPT !.state = "half-open", !.successCount = 0,
                             !.halfOpenRequests = 0]

TryTransitionToHalfOpen(cb) ==
  IF cb.state = "open" /\ cb.elapsed THEN ToHalfOpen(cb) ELSE cb

\* Mutant: the slot limit is off by one.
Admits_OffByOne(cb) ==
  \/ ~cb.enabled
  \/ cb.state = "closed"
  \/ cb.state = "open" /\ cb.elapsed
  \/ cb.state = "half-open" /\ cb.halfOpenRequests <= HalfOpenMaxRequests

\* AllowRequest returns nil.
Admits(cb) ==
  \/ ~cb.enabled
  \/ cb.state = "closed"
  \/ cb.state = "open" /\ cb.elapsed
  \/ cb.state = "half-open" /\ cb.halfOpenRequests < HalfOpenMaxRequests

\* The record AllowRequest leaves behind.  The request that moves the breaker
\* from open to half-open is let through without taking a slot.
AllowRequest(cb) ==
  CASE cb.enabled /\ cb.state = "open" /\ cb.elapsed -> ToHalfOpen(cb)
    [] cb.enabled /\ cb.state = "half-open" /\ Admits(cb) ->
         [cb EXCEPT !.halfOpenRequests = @ + 1]
    [] OTHER -> cb

Close(cb) == [cb EXCEPT !.state = "closed", !.failureCount = 0, !.successCount = 0]

\* One success in half-open; the breaker closes when "enough" were counted.
HalfOpenSuccess(cb, enough) ==
  IF enough THEN Close(cb) ELSE [cb EXCEPT !.successCount = @ + 1]

\* Mutant: a success in closed does not reset the failure count.
RecordSuccess_NoReset(cb) ==
  IF cb.enabled /\ cb.state = "half-open"
    THEN HalfOpenSuccess(cb, cb.successCount + 1 >= SuccessThreshold)
    ELSE cb

\* A success that arrives while the breaker is open changes nothing.
RecordSuccess(cb) ==
  CASE cb.enabled /\ cb.state = "closed" -> [cb EXCEPT !.failureCount = 0]
    [] cb.enabled /\ cb.state = "half-open" ->
         HalfOpenSuccess(cb, cb.successCount + 1 >= SuccessThreshold)
    [] OTHER -> cb

\* One failure in closed; it restarts the timeout.
ClosedFailure(cb) ==
  [cb EXCEPT !.elapsed = FALSE, !.failureCount = @ + 1,
             !.state = IF cb.failureCount + 1 >= FailureThreshold
                         THEN "open" ELSE "closed"]

\* One failure in half-open.
Reopen(cb) == [cb EXCEPT !.elapsed = FALSE, !.state = "open", !.successCount = 0]

\* Mutant: a failure in half-open does not reopen the breaker.
RecordFailure_StaysHalfOpen(cb) ==
  CASE cb.enabled /\ cb.state = "closed" -> ClosedFailure(cb)
    [] cb.enabled /\ cb.state # "closed" -> [cb EXCEPT !.elapsed = FALSE]
    [] OTHER -> cb

\* Every failure restarts the timeout, also one that arrives while open.
RecordFailure(cb) ==
  CASE cb.enabled /\ cb.state = "closed" -> ClosedFailure(cb)
    [] cb.enabled /\ cb.state = "half-open" -> Reopen(cb)
    [] cb.enabled /\ cb.state = "open" -> [cb EXCEPT !.elapsed = FALSE]
    [] OTHER -> cb

\* Reset does not look at enabled.
Reset(cb) == [cb EXCEPT !.state = "closed", !.failureCount = 0,
                        !.successCount = 0, !.halfOpenRequests = 0]

\* timeout has gone by since the last recorded failure.
Elapse(cb) == [cb EXCEPT !.elapsed = TRUE]
==============================================================================
