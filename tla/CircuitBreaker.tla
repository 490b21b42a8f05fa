--------------------------- MODULE CircuitBreaker ---------------------------
(***************************************************************************)
(* One circuit breaker used by concurrent callers, each of which asks for   *)
(* permission, makes its call and reports the outcome later, when the       *)
(* breaker may be in another state than the one that admitted the call.     *)
(* A caller may also be admitted and report nothing: that is what           *)
(* GetHealthyProviders does when it lists the providers.                    *)
(***************************************************************************)
EXTENDS CircuitBreakerOps

CONSTANT Callers        \* goroutines that share the breaker

VARIABLES cb,           \* the breaker
          calling,      \* the callers between AllowRequest and their report
          failures,     \* history: failures reported since the last success
          successes,    \* history: successes reported since the last failure
          admitted      \* history: requests let through in this half-open period

vars == <<cb, calling, failures, successes, admitted>>

\* The histories saturate at the threshold they are compared with.
Saturate(n, max) == IF n < max THEN n + 1 ELSE n

TypeOK ==
  /\ cb \in Breaker
  /\ calling \subseteq Callers
  /\ failures \in 0..FailureThreshold
  /\ successes \in 0..SuccessThreshold
  /\ admitted \in Nat

Init ==
  /\ \E enabled \in BOOLEAN : cb = NewCircuitBreaker(enabled)
  /\ calling = {}
  /\ failures = 0
  /\ successes = 0
  /\ admitted = 0

\* Requests let through since the breaker became half-open, the one that made
\* it so included.
CountAdmission ==
  admitted' = CASE cb.state = "open" /\ cb'.state = "half-open" -> 1
                [] cb.state = "half-open" /\ Admits(cb) -> admitted + 1
                [] OTHER -> admitted

Allow(c) ==
  /\ c \notin calling
  /\ cb' = AllowRequest(cb)
  /\ CountAdmission
  /\ calling' = IF Admits(cb) THEN calling \cup {c} ELSE calling
  /\ UNCHANGED <<failures, successes>>

\* An admission that no report follows (GetHealthyProviders).
AllowAndForget ==
  /\ cb' = AllowRequest(cb)
  /\ CountAdmission
  /\ UNCHANGED <<calling, failures, successes>>

ReportSuccess(c) ==
  /\ c \in calling
  /\ cb' = RecordSuccess(cb)
  /\ calling' = calling \ {c}
  /\ failures' = 0
  /\ successes' = Saturate(successes, SuccessThreshold)
  /\ UNCHANGED admitted

ReportFailure(c) ==
  /\ c \in calling
  /\ cb' = RecordFailure(cb)
  /\ calling' = calling \ {c}
  /\ failures' = Saturate(failures, FailureThreshold)
  /\ successes' = 0
  /\ UNCHANGED admitted

TryTransition ==
  /\ cb' = TryTransitionToHalfOpen(cb)
  /\ admitted' = IF cb'.state # cb.state THEN 0 ELSE admitted
  /\ UNCHANGED <<calling, failures, successes>>

ManualReset ==
  /\ cb' = Reset(cb)
  /\ UNCHANGED <<calling, failures, successes, admitted>>

TimePasses ==
  /\ cb' = Elapse(cb)
  /\ UNCHANGED <<calling, failures, successes, admitted>>

Next ==
  \/ \E c \in Callers : Allow(c) \/ ReportSuccess(c) \/ ReportFailure(c)
  \/ AllowAndForget
  \/ TryTransition
  \/ ManualReset
  \/ TimePasses

Spec == Init /\ [][Next]_vars

-----------------------------------------------------------------------------
(***************************************************************************)
(* Safety.  The histories count what the callers reported, in whatever      *)
(* state the breaker was when each report arrived.                          *)
(***************************************************************************)

\* A half-open period lets through at most HalfOpenMaxRequests + 1 requests:
\* the slots, and the request whose AllowRequest opened the period.
HalfOpenAdmissionBound ==
  cb.state = "half-open" => admitted <= HalfOpenMaxRequests + 1

\* The breaker leaves closed only when the last FailureThreshold reports, in
\* whatever state they arrived, were all failures: a success in between always
\* starts the count again.
OpensAfterConsecutiveFailures ==
  [][cb.state = "closed" /\ cb'.state = "open"
       => failures' = FailureThreshold]_vars

\* A half-open breaker closes by itself only when the last SuccessThreshold
\* reports were all successes: one failure in between reopens it.
ClosesAfterConsecutiveSuccesses ==
  [][cb.state = "half-open" /\ cb'.state = "closed"
       => successes' = SuccessThreshold \/ ManualReset]_vars

\* The inductive invariant behind the properties above: the breaker's counters
\* never run ahead of what the callers reported since the last report of the
\* other kind, a closed breaker has not used up its failures, and a disabled one
\* stays as it was created.
CountersMatchHistory ==
  /\ ~cb.enabled => cb.state = "closed" /\ cb.failureCount = 0
  /\ cb.state = "closed" => cb.failureCount < FailureThreshold
  /\ cb.state = "closed" => cb.failureCount <= failures
  /\ cb.state = "half-open" => cb.successCount <= successes
  /\ cb.state = "half-open" => admitted <= cb.halfOpenRequests + 1
=============================================================================
