------------------------------- MODULE Routing -------------------------------
(***************************************************************************)
(* Model routing: the provider registry (internal/usecase/chat/router.go)   *)
(* and the fallback chain (fallback.go), which share one circuit breaker    *)
(* per provider.  Any number of completions run ExecuteWithFallback at the  *)
(* same time; each call of a breaker's method is one step, so the steps of  *)
(* two completions interleave between any two breaker calls.                *)
(*                                                                         *)
(* A request id stands for one goroutine; it may start a new completion     *)
(* once its previous one has returned.                                      *)
(*                                                                         *)
(* What a provider answers is the reply of its HTTP endpoint, which the     *)
(* adapter (internal/adapter/provider) turns into a completion or into one  *)
(* of the errors that the fallback chain tells apart.                       *)
(***************************************************************************)
EXTENDS CircuitBreakerOps, Sequences, SequencesExt

CONSTANTS Requests,         \* goroutines that serve completions
          Providers,        \* providers of the router configuration
          Models,
          Priority,         \* Config.Priority of each provider
          Serves,           \* Config.Models of each provider
          BreakerEnabled,   \* Config.CircuitBreaker.Enabled
          Type,             \* Config.Type of each provider
          MaxRetries,       \* Config.MaxRetries of each provider
          RouterMaxRetries, \* RouterConfig.MaxRetries
          FallbackRules     \* RouterConfig.FallbackRules

ASSUME RoutingConstants ==
  /\ Priority \in [Providers -> Nat]
  /\ Serves \in [Providers -> SUBSET Models]
  /\ BreakerEnabled \in [Providers -> BOOLEAN]
  /\ Type \in [Providers -> {"openai", "anthropic", "ollama", "mock"}]
  /\ MaxRetries \in [Providers -> Int]
  /\ RouterMaxRetries \in Int
  /\ \A i \in 1..Len(FallbackRules) :
       FallbackRules[i] \in [onErrors : SUBSET STRING, maxRetries : Int]

VARIABLES serving,      \* BuildRegistryFromConfig has returned
          priority,     \* registry.priority
          breakers,     \* CircuitBreaker of each registered provider
          healthStatus, \* HealthStatus of each registered provider
          pc,           \* where each request is in ExecuteWithFallback
          model,        \* req.Model
          candidates,   \* candidateProviders
          at,           \* position in priority ("scan") or in candidates
          retry,
          attempt,
          outcome       \* what the request's last completion returned

registry == <<serving, priority, healthStatus>>
local == <<model, candidates, at, retry, attempt>>
vars == <<registry, breakers, pc, local, outcome>>

Outcomes == {"none", "ok", "no healthy provider", "exhausted", "cancelled"}

TypeOK ==
  /\ serving \in BOOLEAN
  /\ priority \in Seq(Providers)
  /\ breakers \in [Providers -> Breaker]
  /\ healthStatus \in [Providers -> BOOLEAN]
  /\ pc \in [Requests -> {"idle", "scan", "allow", "call", "backoff"}]
  /\ model \in [Requests -> Models]
  /\ candidates \in [Requests -> Seq(Providers)]
  /\ at \in [Requests -> Nat]
  /\ retry \in [Requests -> Nat]
  /\ attempt \in [Requests -> Nat]
  /\ outcome \in [Requests -> Outcomes]

Init ==
  /\ serving = FALSE
  /\ priority = << >>
  /\ breakers = [p \in Providers |-> NewCircuitBreaker(BreakerEnabled[p])]
  /\ healthStatus = [p \in Providers |-> TRUE]
  /\ pc = [r \in Requests |-> "idle"]
  /\ model \in [Requests -> Models]
  /\ candidates = [r \in Requests |-> << >>]
  /\ at = [r \in Requests |-> 1]
  /\ retry = [r \in Requests |-> 0]
  /\ attempt = [r \in Requests |-> 0]
  /\ outcome = [r \in Requests |-> "none"]

-----------------------------------------------------------------------------
(* The provider adapters *)

\* The replies of a provider's endpoint: status 0 when none arrives before the
\* attempt's timeout, and a body that is whole, broken off or not JSON.
Replies == [status : {0, 200, 401, 404, 429, 500}, body : {"whole"}]
           \cup [status : {200}, body : {"cut", "garbled"}]

\* The sentinel errors of the domain; every other error is "other".
Sentinels == {"provider unavailable", "provider timeout",
              "provider rate limited", "provider authentication failed",
              "provider invalid request"}

MapError(statusCode) ==
  CASE statusCode = 401 -> "provider authentication failed"
    [] statusCode = 429 -> "provider rate limited"
    [] statusCode \in {400, 404} -> "provider invalid request"
    [] OTHER -> "provider unavailable"

\* Only a reply that is read whole and parsed is a completion; a body that
\* cannot be read is an error of its own, whatever the status.
OpenAIComplete(reply) ==
  IF reply.status = 0 THEN "provider timeout"
  ELSE IF reply.body = "cut" THEN "other"
  ELSE IF reply.status # 200 THEN MapError(reply.status)
  ELSE IF reply.body = "garbled" THEN "other" ELSE "ok"

\* The health check looks at the status only, and a 404 passes.
OpenAIHealthCheck(reply) ==
  CASE reply.status = 0 -> "provider timeout"
    [] reply.status = 401 -> "provider authentication failed"
    [] reply.status = 429 -> "provider rate limited"
    [] reply.status >= 500 -> "provider unavailable"
    [] OTHER -> "ok"

\* The adapters of Anthropic and Ollama are stubs: an enabled one returns its
\* ErrNotImplemented, and only enabled providers are created.
AnthropicAnswer == "other"
OllamaAnswer == "other"

\* A configured mock answers after exactly the attempt's timeout, so either
\* the answer or ctx.Err() wins.
MockComplete(reply) == IF reply.status = 0 THEN "other" ELSE "ok"
MockHealthCheck == "ok"

\* createProviderFromConfig chooses the adapter by the provider's type.
Complete(p, reply) ==
  CASE Type[p] = "openai" -> OpenAIComplete(reply)
    [] Type[p] = "anthropic" -> AnthropicAnswer
    [] Type[p] = "ollama" -> OllamaAnswer
    [] Type[p] = "mock" -> MockComplete(reply)

HealthCheck(p, reply) ==
  CASE Type[p] = "openai" -> OpenAIHealthCheck(reply)
    [] Type[p] = "anthropic" -> AnthropicAnswer
    [] Type[p] = "ollama" -> OllamaAnswer
    [] Type[p] = "mock" -> MockHealthCheck

-----------------------------------------------------------------------------
(* The registry *)

\* Mutant: a provider that is registered again is not removed first.
InsertByPriority_Twice(order, p) ==
  LET before == SelectSeq(order, LAMBDA n : Priority[n] <= Priority[p])
      after == SelectSeq(order, LAMBDA n : Priority[n] > Priority[p])
  IN  before \o <<p>> \o after

\* "Remove if already exists"
Without(order, p) ==
  LET places == {i \in 1..Len(order) : order[i] = p}
  IN  IF places = {} THEN order ELSE RemoveAt(order, Min(places))

\* Insertion before the first provider whose priority value is greater.
InsertByPriority(order, p) ==
  LET others == Without(order, p)
      later == {i \in 1..Len(others) : Priority[others[i]] > Priority[p]}
      idx == IF later = {} THEN Len(others) + 1 ELSE Min(later)
  IN  InsertAt(others, idx, p)

\* BuildRegistryFromConfig registers the enabled providers before the server
\* starts; a name that comes twice is registered twice.
Register(p) ==
  /\ ~serving
  /\ priority' = InsertByPriority(priority, p)
  /\ breakers' = [breakers EXCEPT ![p] = NewCircuitBreaker(BreakerEnabled[p])]
  /\ healthStatus' = [healthStatus EXCEPT ![p] = TRUE]
  /\ UNCHANGED <<serving, pc, local, outcome>>

\* "no providers registered" is an error of the start.
StartServing ==
  /\ ~serving
  /\ ToSet(priority) = Providers
  /\ serving' = TRUE
  /\ UNCHANGED <<priority, healthStatus, breakers, pc, local, outcome>>

\* Only GetProviderStats reads what a health check stores.
CheckProviderHealth(p, reply) ==
  /\ serving
  /\ healthStatus' = [healthStatus EXCEPT ![p] = HealthCheck(p, reply) = "ok"]
  /\ UNCHANGED <<serving, priority, breakers, pc, local, outcome>>

\* Each tick of StartPeriodicHealthChecks checks every provider in a goroutine
\* of its own, so the checks end in any order.
RunHealthChecks ==
  \E p \in Providers, reply \in Replies : CheckProviderHealth(p, reply)

-----------------------------------------------------------------------------
(* ExecuteWithFallback *)

Begin(r) ==
  /\ serving
  /\ pc[r] = "idle"
  /\ pc' = [pc EXCEPT ![r] = "scan"]
  /\ \E m \in Models : model' = [model EXCEPT ![r] = m]
  /\ outcome' = [outcome EXCEPT ![r] = "none"]
  /\ UNCHANGED <<registry, breakers, candidates, at, retry, attempt>>

\* The local variables of the call go out of scope.
Return(r, result) ==
  /\ pc' = [pc EXCEPT ![r] = "idle"]
  /\ outcome' = [outcome EXCEPT ![r] = result]
  /\ candidates' = [candidates EXCEPT ![r] = << >>]
  /\ at' = [at EXCEPT ![r] = 1]
  /\ retry' = [retry EXCEPT ![r] = 0]
  /\ attempt' = [attempt EXCEPT ![r] = 0]

SupportsModel(p, m) == m \in Serves[p]

\* GetHealthyProviders asks the breaker of every provider, also of those that
\* do not serve the model; ExecuteWithFallback keeps the ones that do.
ScanProvider(r) ==
  /\ pc[r] = "scan"
  /\ at[r] <= Len(priority)
  /\ LET p == priority[at[r]]
     IN  /\ breakers' = [breakers EXCEPT ![p] = AllowRequest(@)]
         /\ candidates' = [candidates EXCEPT ![r] =
              IF Admits(breakers[p]) /\ SupportsModel(p, model[r])
                THEN Append(@, p) ELSE @]
  /\ at' = [at EXCEPT ![r] = @ + 1]
  /\ UNCHANGED <<registry, pc, model, retry, attempt, outcome>>

\* Mutant: without a candidate the completion waits for one.
EndScan_WaitsForCandidate(r) ==
  /\ pc[r] = "scan"
  /\ at[r] > Len(priority)
  /\ candidates[r] # << >>
  /\ pc' = [pc EXCEPT ![r] = "allow"]
  /\ at' = [at EXCEPT ![r] = 1]
  /\ UNCHANGED <<registry, breakers, model, candidates, retry, attempt, outcome>>

EndScan(r) ==
  /\ pc[r] = "scan"
  /\ at[r] > Len(priority)
  /\ IF candidates[r] = << >>
       THEN Return(r, "no healthy provider")
       ELSE /\ pc' = [pc EXCEPT ![r] = "allow"]
            /\ at' = [at EXCEPT ![r] = 1]
            /\ UNCHANGED <<candidates, retry, attempt, outcome>>
  /\ UNCHANGED <<registry, breakers, model>>

\* "break // Move to next provider", or out of the loop after the last one.
NextProvider(r, attempts) ==
  IF at[r] < Len(candidates[r])
    THEN /\ pc' = [pc EXCEPT ![r] = "allow"]
         /\ attempt' = [attempt EXCEPT ![r] = attempts]
         /\ at' = [at EXCEPT ![r] = @ + 1]
         /\ retry' = [retry EXCEPT ![r] = 0]
         /\ UNCHANGED <<candidates, outcome>>
    ELSE Return(r, "exhausted")

Current(r) == candidates[r][at[r]]

AttemptAllowed(r) ==
  /\ pc[r] = "allow"
  /\ Admits(breakers[Current(r)])
  /\ attempt' = [attempt EXCEPT ![r] = @ + 1]
  /\ breakers' = [breakers EXCEPT ![Current(r)] = AllowRequest(@)]
  /\ pc' = [pc EXCEPT ![r] = "call"]
  /\ UNCHANGED <<registry, model, candidates, at, retry, outcome>>

AttemptRefused(r) ==
  /\ pc[r] = "allow"
  /\ ~Admits(breakers[Current(r)])
  /\ NextProvider(r, attempt[r] + 1)
  /\ UNCHANGED <<registry, breakers, model>>

CallSucceeds(r, reply) ==
  /\ pc[r] = "call"
  /\ Complete(Current(r), reply) = "ok"
  /\ breakers' = [breakers EXCEPT ![Current(r)] = RecordSuccess(@)]
  /\ Return(r, "ok")
  /\ UNCHANGED <<registry, model>>

\* NewFallbackChain: fc.maxRetries
DefaultRetries == IF RouterMaxRetries <= 0 THEN 2 ELSE RouterMaxRetries

GetMaxRetriesForProvider(p) ==
  IF MaxRetries[p] > 0 THEN MaxRetries[p] ELSE DefaultRetries

\* A string that names no sentinel becomes a new error, which errors.Is finds
\* equal to nothing.
ModelErrFromString(s) == IF s \in Sentinels THEN s ELSE "new error"

IsTransientError(e) ==
  e \in {"provider unavailable", "provider timeout", "provider rate limited"}

RulesFor(e) ==
  {i \in 1..Len(FallbackRules) :
     \E s \in FallbackRules[i].onErrors : ModelErrFromString(s) = e}

RuleRetries(rule) ==
  IF rule.maxRetries = 0 THEN DefaultRetries ELSE rule.maxRetries

\* Mutant: the provider's own retry limit is not looked at.
ShouldRetry_NoLimit(e, n, p) ==
  RulesFor(e) # {} \/ IsTransientError(e)

\* The first fallback rule for the error decides before isTransientError does.
ShouldRetry(e, n, p) ==
  /\ n < GetMaxRetriesForProvider(p)
  /\ IF RulesFor(e) # {}
       THEN n < RuleRetries(FallbackRules[Min(RulesFor(e))])
       ELSE IsTransientError(e)

CallFails(r, reply) ==
  /\ pc[r] = "call"
  /\ Complete(Current(r), reply) # "ok"
  /\ breakers' = [breakers EXCEPT ![Current(r)] = RecordFailure(@)]
  /\ IF ShouldRetry(Complete(Current(r), reply), retry[r], Current(r))
       THEN /\ pc' = [pc EXCEPT ![r] = "backoff"]
            /\ UNCHANGED <<candidates, at, retry, attempt, outcome>>
       ELSE NextProvider(r, attempt[r])
  /\ UNCHANGED <<registry, model>>

BackoffOver(r) ==
  /\ pc[r] = "backoff"
  /\ retry' = [retry EXCEPT ![r] = @ + 1]
  /\ pc' = [pc EXCEPT ![r] = "allow"]
  /\ UNCHANGED <<registry, breakers, model, candidates, at, attempt, outcome>>

\* ctx.Done() while waiting for the backoff.
Cancelled(r) ==
  /\ pc[r] = "backoff"
  /\ Return(r, "cancelled")
  /\ UNCHANGED <<registry, breakers, model>>

TimePasses(p) ==
  /\ breakers' = [breakers EXCEPT ![p] = Elapse(@)]
  /\ UNCHANGED <<registry, pc, local, outcome>>

\* A step of a completion that is under way.
Step(r) ==
  \/ ScanProvider(r) \/ EndScan(r)
  \/ AttemptAllowed(r) \/ AttemptRefused(r)
  \/ \E reply \in Replies : CallSucceeds(r, reply) \/ CallFails(r, reply)
  \/ BackoffOver(r) \/ Cancelled(r)

Next ==
  \/ \E p \in Providers : Register(p) \/ TimePasses(p)
  \/ StartServing \/ RunHealthChecks
  \/ \E r \in Requests : Begin(r) \/ Step(r)

\* Every attempt runs under a timeout and every backoff under a timer, so a
\* completion that is under way takes its next step; timeouts run out.
Fairness ==
  /\ \A r \in Requests : WF_vars(Step(r))
  /\ \A p \in Providers : WF_vars(TimePasses(p))
  /\ WF_vars(StartServing)

Spec == Init /\ [][Next]_vars /\ Fairness

\* Completions keep arriving for every model.
Traffic == \A r \in Requests : WF_vars(Begin(r))

SpecWithTraffic == Spec /\ Traffic

-----------------------------------------------------------------------------
(***************************************************************************)
(* Properties                                                              *)
(***************************************************************************)

\* The providers a completion tries are the ones that serve its model, each at
\* most once, in ascending priority value, however often and in whatever order
\* Register was called (insertByPriority): a completion never falls back to a
\* provider it has already given up.
CandidatesInPriorityOrder ==
  \A r \in Requests : \A i \in 1..Len(candidates[r]) :
    /\ model[r] \in Serves[candidates[r][i]]
    /\ \A j \in 1..(i - 1) :
         /\ candidates[r][j] # candidates[r][i]
         /\ Priority[candidates[r][j]] <= Priority[candidates[r][i]]

\* The attempts that the limits allow for the first n of the candidates c.
Allowance(c) ==
  LET f[n \in 0..Len(c)] ==
        IF n = 0 THEN 0 ELSE f[n - 1] + GetMaxRetriesForProvider(c[n]) + 1
  IN  f

\* Bounded retries (DECISIONS.md:237): the attempts of one completion never
\* exceed one try and MaxRetries retries of each provider already given up and
\* of the one being tried, whatever errors and breaker states it meets.
AttemptsBounded ==
  \A r \in Requests :
    pc[r] \in {"allow", "call", "backoff"} =>
      /\ retry[r] <= GetMaxRetriesForProvider(Current(r))
      /\ attempt[r] <= Allowance(candidates[r])[at[r] - 1] + retry[r]
                       + (IF pc[r] = "allow" THEN 0 ELSE 1)

\* Every completion returns, whatever the providers answer and however the
\* completions race on the breakers.
CompletionsReturn ==
  \A r \in Requests : pc[r] # "idle" ~> pc[r] = "idle"

\* Half-open is for "testing if service recovered" (circuitbreaker.go:19): with
\* completions arriving, a half-open breaker closes or reopens.
HalfOpenResolves ==
  \A p \in Providers :
    breakers[p].state = "half-open" ~> breakers[p].state # "half-open"
=============================================================================
