------------------------ MODULE CircuitBreakerProofs ------------------------
(***************************************************************************)
(* The properties of one circuit breaker, for any number of callers and any *)
(* positive thresholds.  CountersMatchHistory is inductive relative to      *)
(* TypeOK; the bound and the two action properties follow from both.        *)
(***************************************************************************)
EXTENDS CircuitBreaker, TLAPS

\* Writing one field keeps the record within its type.
LEMMA FieldTypes ==
  ASSUME NEW b \in Breaker
  PROVE  /\ \A x \in States : [b EXCEPT !.state = x] \in Breaker
         /\ \A n \in 0..FailureThreshold : [b EXCEPT !.failureCount = n] \in Breaker
         /\ \A n \in 0..(SuccessThreshold - 1) :
              [b EXCEPT !.successCount = n] \in Breaker
         /\ \A n \in 0..HalfOpenMaxRequests :
              [b EXCEPT !.halfOpenRequests = n] \in Breaker
         /\ \A e \in BOOLEAN : [b EXCEPT !.elapsed = e] \in Breaker
  BY ThresholdsArePositive DEF Breaker, States

\* Entering half-open keeps the record within its type.
LEMMA ToHalfOpenType ==
  ASSUME NEW b \in Breaker, NEW c, c = ToHalfOpen(b)
  PROVE  c \in Breaker
<1>1. c = [enabled |-> b.enabled, state |-> "half-open",
           failureCount |-> b.failureCount, successCount |-> 0,
           halfOpenRequests |-> 0, elapsed |-> b.elapsed]
  BY DEF ToHalfOpen, Breaker
<1>2. QED
  BY <1>1, ThresholdsArePositive DEF Breaker, States

\* So does a manual reset,
LEMMA ResetType ==
  ASSUME NEW b \in Breaker, NEW c, c = Reset(b)
  PROVE  c \in Breaker
<1>1. c = [enabled |-> b.enabled, state |-> "closed",
           failureCount |-> 0, successCount |-> 0,
           halfOpenRequests |-> 0, elapsed |-> b.elapsed]
  BY DEF Reset, Breaker
<1>2. QED
  BY <1>1, ThresholdsArePositive DEF Breaker, States

\* closing after enough successes,
LEMMA CloseType ==
  ASSUME NEW b \in Breaker, NEW c, c = Close(b)
  PROVE  c \in Breaker
<1>1. c = [enabled |-> b.enabled, state |-> "closed",
           failureCount |-> 0, successCount |-> 0,
           halfOpenRequests |-> b.halfOpenRequests, elapsed |-> b.elapsed]
  BY DEF Close, Breaker
<1>2. QED
  BY <1>1, ThresholdsArePositive DEF Breaker, States

\* reopening after a failure in half-open,
LEMMA ReopenType ==
  ASSUME NEW b \in Breaker, NEW c, c = Reopen(b)
  PROVE  c \in Breaker
<1>1. c = [enabled |-> b.enabled, state |-> "open",
           failureCount |-> b.failureCount, successCount |-> 0,
           halfOpenRequests |-> b.halfOpenRequests, elapsed |-> FALSE]
  BY DEF Reopen, Breaker
<1>2. QED
  BY <1>1, ThresholdsArePositive DEF Breaker, States

\* and counting a failure in closed, as long as there is one to spare.
LEMMA ClosedFailureType ==
  ASSUME NEW b \in Breaker, NEW c, c = ClosedFailure(b), b.failureCount < FailureThreshold
  PROVE  c \in Breaker
<1>1. c = [enabled |-> b.enabled,
           state |-> IF b.failureCount + 1 >= FailureThreshold
                       THEN "open" ELSE "closed",
           failureCount |-> b.failureCount + 1, successCount |-> b.successCount,
           halfOpenRequests |-> b.halfOpenRequests, elapsed |-> FALSE]
  BY DEF ClosedFailure, Breaker
<1>2. QED
  BY <1>1, ThresholdsArePositive DEF Breaker, States

\* Each method keeps the record within its type: the counters never pass the
\* limits they are compared with.  RecordFailure needs to know that a closed
\* breaker still has a failure to spare.
LEMMA MethodTypes ==
  ASSUME NEW b \in Breaker,
         b.state = "closed" => b.failureCount < FailureThreshold
  PROVE  /\ AllowRequest(b) \in Breaker
         /\ RecordSuccess(b) \in Breaker
         /\ RecordFailure(b) \in Breaker
         /\ TryTransitionToHalfOpen(b) \in Breaker
         /\ Reset(b) \in Breaker
         /\ Elapse(b) \in Breaker
<1>1. AllowRequest(b) \in Breaker
  <2>1. b.halfOpenRequests < HalfOpenMaxRequests
          => [b EXCEPT !.halfOpenRequests = @ + 1] \in Breaker
    BY ThresholdsArePositive DEF Breaker
  <2>2. QED
    BY <2>1, ToHalfOpenType DEF AllowRequest, Admits
<1>2. RecordSuccess(b) \in Breaker
  <2>1. [b EXCEPT !.failureCount = 0] \in Breaker
    BY ThresholdsArePositive, FieldTypes
  <2>2. b.successCount + 1 < SuccessThreshold
          => [b EXCEPT !.successCount = @ + 1] \in Breaker
    BY ThresholdsArePositive DEF Breaker
  <2>3. b.successCount \in Nat
    BY ThresholdsArePositive DEF Breaker
  <2>4. HalfOpenSuccess(b, b.successCount + 1 >= SuccessThreshold) \in Breaker
    BY <2>2, <2>3, CloseType, ThresholdsArePositive DEF HalfOpenSuccess
  <2>5. QED
    BY <2>1, <2>4 DEF RecordSuccess
<1>3. RecordFailure(b) \in Breaker
  BY FieldTypes, ClosedFailureType, ReopenType DEF RecordFailure
<1>4. QED
  BY <1>1, <1>2, <1>3, ToHalfOpenType, ResetType, FieldTypes
  DEF TryTransitionToHalfOpen, Elapse

\* The conjunction that every step preserves.
IInv == TypeOK /\ CountersMatchHistory

\* A new breaker has counted nothing, like the histories.
LEMMA InitIInv == Init => IInv
  BY ThresholdsArePositive
  DEF Init, IInv, TypeOK, CountersMatchHistory, NewCircuitBreaker, Breaker, States

\* One step of any caller, and the passing of time, keeps the counters within
\* the history.
LEMMA NextIInv == IInv /\ [Next]_vars => IInv'
<1> SUFFICES ASSUME IInv, [Next]_vars PROVE IInv'
  OBVIOUS
<1> USE ThresholdsArePositive DEF IInv
<1>1. /\ cb \in Breaker
      /\ AllowRequest(cb) \in Breaker
      /\ RecordSuccess(cb) \in Breaker
      /\ RecordFailure(cb) \in Breaker
      /\ TryTransitionToHalfOpen(cb) \in Breaker
      /\ Reset(cb) \in Breaker
      /\ Elapse(cb) \in Breaker
  BY MethodTypes DEF TypeOK, CountersMatchHistory
<1>2. ASSUME cb' = AllowRequest(cb), CountAdmission,
             UNCHANGED <<failures, successes>>
      PROVE  CountersMatchHistory' /\ admitted' \in Nat
  BY <1>1, <1>2
  DEF AllowRequest, Admits, ToHalfOpen, CountAdmission, TypeOK,
      CountersMatchHistory, Breaker, States
<1>3. ASSUME NEW c \in Callers, Allow(c) PROVE IInv'
  BY <1>1, <1>2, <1>3 DEF Allow, TypeOK
<1>4. ASSUME AllowAndForget PROVE IInv'
  BY <1>1, <1>2, <1>4 DEF AllowAndForget, TypeOK
<1>5. ASSUME NEW c \in Callers, ReportSuccess(c) PROVE IInv'
  <2>1. TypeOK'
    BY <1>1, <1>5 DEF ReportSuccess, Saturate, TypeOK
  <2>2. CASE ~cb.enabled \/ cb.state = "open"
    BY <1>1, <1>5, <2>1, <2>2
    DEF ReportSuccess, RecordSuccess, Saturate, TypeOK, CountersMatchHistory, Breaker
  <2>3. CASE cb.enabled /\ cb.state = "closed"
    BY <1>1, <1>5, <2>1, <2>3
    DEF ReportSuccess, RecordSuccess, CountersMatchHistory, Breaker
  <2>4. CASE cb.enabled /\ cb.state = "half-open"
    BY <1>1, <1>5, <2>1, <2>4
    DEF ReportSuccess, RecordSuccess, HalfOpenSuccess, Close, Saturate, TypeOK,
        CountersMatchHistory, Breaker
  <2>5. QED
    BY <1>1, <2>2, <2>3, <2>4 DEF Breaker, States
<1>6. ASSUME NEW c \in Callers, ReportFailure(c) PROVE IInv'
  BY <1>1, <1>6
  DEF ReportFailure, RecordFailure, ClosedFailure, Reopen, Saturate, TypeOK,
      CountersMatchHistory, Breaker, States
<1>7. CASE TryTransition
  BY <1>1, <1>7
  DEF TryTransition, TryTransitionToHalfOpen, ToHalfOpen, TypeOK,
      CountersMatchHistory, Breaker, States
<1>8. CASE ManualReset
  BY <1>1, <1>8 DEF ManualReset, Reset, TypeOK, CountersMatchHistory, Breaker, States
<1>9. CASE TimePasses
  BY <1>1, <1>9 DEF TimePasses, Elapse, TypeOK, CountersMatchHistory, Breaker, States
<1>10. CASE UNCHANGED vars
  BY <1>10 DEF vars, TypeOK, CountersMatchHistory
<1>11. QED
  BY <1>3, <1>4, <1>5, <1>6, <1>7, <1>8, <1>9, <1>10 DEF Next

\* Type correctness: the counters of circuitbreaker.go stay within the limits
\* that RecordFailure, RecordSuccess and AllowRequest compare them with.
THEOREM TypeCorrect == Spec => []TypeOK
<1>1. IInv => TypeOK
  BY DEF IInv
<1>2. QED
  BY <1>1, InitIInv, NextIInv, PTL DEF Spec

\* The counters agree with what the callers reported (the strengthening).
THEOREM HistoryCorrect == Spec => []CountersMatchHistory
<1>1. IInv => CountersMatchHistory
  BY DEF IInv
<1>2. QED
  BY <1>1, InitIInv, NextIInv, PTL DEF Spec

\* AllowRequest lets through at most HalfOpenMaxRequests + 1 requests in one
\* half-open period, however the callers interleave.
THEOREM AdmissionsBounded == Spec => []HalfOpenAdmissionBound
<1>1. IInv => HalfOpenAdmissionBound
  BY ThresholdsArePositive
  DEF IInv, TypeOK, CountersMatchHistory, HalfOpenAdmissionBound, Breaker
<1>2. QED
  BY <1>1, InitIInv, NextIInv, PTL DEF Spec

\* RecordFailure opens a closed breaker only after FailureThreshold failures
\* with no success between them.
THEOREM OpensOnlyOnFailures == Spec => OpensAfterConsecutiveFailures
<1>1. IInv /\ [Next]_vars
        => [cb.state = "closed" /\ cb'.state = "open"
              => failures' = FailureThreshold]_vars
  <2> SUFFICES ASSUME IInv, [Next]_vars, cb.state = "closed", cb'.state = "open"
               PROVE  failures' = FailureThreshold
    OBVIOUS
  <2>1. PICK c \in Callers : ReportFailure(c)
    BY ThresholdsArePositive
    DEF IInv, TypeOK, Next, vars, Allow, AllowAndForget, ReportSuccess,
        TryTransition, ManualReset, TimePasses, AllowRequest, RecordSuccess,
        HalfOpenSuccess, Close, TryTransitionToHalfOpen, ToHalfOpen, Reset, Elapse,
        Breaker
  <2>2. QED
    BY <2>1, ThresholdsArePositive
    DEF IInv, TypeOK, CountersMatchHistory, ReportFailure, RecordFailure,
        ClosedFailure, Saturate, Breaker
<1>2. QED
  BY <1>1, InitIInv, NextIInv, PTL DEF Spec, OpensAfterConsecutiveFailures

\* RecordSuccess closes a half-open breaker only after SuccessThreshold
\* successes with no failure between them.
THEOREM ClosesOnlyOnSuccesses == Spec => ClosesAfterConsecutiveSuccesses
<1>1. IInv /\ [Next]_vars
        => [cb.state = "half-open" /\ cb'.state = "closed"
              => successes' = SuccessThreshold \/ ManualReset]_vars
  <2> SUFFICES ASSUME IInv, [Next]_vars, cb.state = "half-open",
                      cb'.state = "closed", ~ManualReset
               PROVE  successes' = SuccessThreshold
    OBVIOUS
  <2>1. PICK c \in Callers : ReportSuccess(c)
    BY ThresholdsArePositive
    DEF IInv, TypeOK, Next, vars, Allow, AllowAndForget, ReportFailure,
        TryTransition, TimePasses, AllowRequest, Admits, RecordFailure,
        ClosedFailure, Reopen, TryTransitionToHalfOpen, ToHalfOpen, Elapse, Breaker
  <2>2. QED
    BY <2>1, ThresholdsArePositive
    DEF IInv, TypeOK, CountersMatchHistory, ReportSuccess, RecordSuccess,
        HalfOpenSuccess, Close, Saturate, Breaker
<1>2. QED
  BY <1>1, InitIInv, NextIInv, PTL DEF Spec, ClosesAfterConsecutiveSuccesses
=============================================================================
