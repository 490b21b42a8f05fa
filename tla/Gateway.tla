-------------------------------- MODULE Gateway --------------------------------
(***************************************************************************)
(* Requests on their way through the middleware chain that                  *)
(* internal/api/router.go puts before every tenant-scoped handler:          *)
(*                                                                         *)
(*   auth - tenant - delegation - rate limit - audit - guardrails - handler *)
(*                                                                         *)
(* Every call that leaves the process (database, Redis, classifier) is a    *)
(* step of its own; between them other requests and the administrators      *)
(* move.  A call may fail; a Redis call may also fail after it has had its  *)
(* effect, when the answer is lost.                                         *)
(***************************************************************************)
EXTENDS Delegation, RateLimit, Guardrails

CONSTANTS Reqs,
          Workloads,        \* a sequence: what the requests are and what else goes on
          ScopesOf,         \* scopes in the access token of each user
          MaxAttempts       \* RetryConfig.MaxAttempts of the classifier's client

NoAnswer == [answer |-> "none"]

\* What a service answers: it speaks of a category once, and what it detects has
\* a confidence above zero.
Answered(type, a) ==
  /\ a \notin {NoAnswer, Unavailable}
  /\ type \in {"openai", "anthropic"} =>
       \A s \in a.scores :
         /\ s.detected \in BOOLEAN /\ s.confidence \in 0..100
         /\ s.detected => s.confidence > 0
         /\ \A t \in a.scores : s.category = t.category => s = t

ASSUME GatewayConstants ==
  /\ MaxAttempts \in Nat
  /\ IsFiniteSet(Reqs)
  /\ \A i \in DOMAIN Workloads :
       /\ Workloads[i].codes \subseteq Nat
       /\ Workloads[i].issues \subseteq Grants /\ Workloads[i].lapses \subseteq Grants
       /\ Workloads[i].revokes \subseteq Chains
       /\ \A q \in Workloads[i].quotas : q.scope \in Scopes /\ q.limits \in Quota
       /\ Workloads[i].guard.send \in BOOLEAN
       /\ Workloads[i].guard.type \in {"openai", "anthropic", "llamaguard", "local"}
       /\ Workloads[i].guard.mergeLogic \in MergeLogics
       /\ \A a \in Workloads[i].answers : Answered(Workloads[i].guard.type, a)
  /\ \A i \in DOMAIN Workloads : \A r \in DOMAIN Workloads[i].reqs :
       /\ r \in Reqs
       /\ Workloads[i].reqs[r].token \in {"invalid", "tenantless", "ok"}
       /\ Workloads[i].reqs[r].tenant \in Tenants
       /\ Workloads[i].reqs[r].user \in Users
       /\ Workloads[i].reqs[r].grant \in Grants \cup {NoGrant}
       /\ Workloads[i].reqs[r].path \in {"chat", "other"}
       /\ Workloads[i].reqs[r].after \subseteq Reqs

VARIABLES wl,           \* index of the workload of this behaviour
          pc,           \* step of each request
          ctx,          \* what each request carries from step to step
          tenantStatus, \* column status of public.tenants
          log, missed   \* audit events appended, and those that could not be

gateVars == <<wl, pc, ctx, tenantStatus, log, missed>>
vars == <<gateVars, grantVars, rateVars>>

Stages == {"start", "tenant", "envelope", "generation", "fanout", "budget",
           "limits", "requests", "tokens", "tool_execs", "audit", "guard",
           "classify", "verdict", "handler", "post", "done"}

FreshCtx ==
  [status |-> 0,          \* what the client has been answered
   statusCode |-> 200,    \* auditResponseWriter.statusCode
   limits |-> NoQuota, stamp |-> 0,
   attempt |-> 0, ext |-> NoAnswer,
   rule |-> "",           \* guardrail rule the request was refused for
   checked |-> FALSE,     \* its body was read and judged
   served |-> FALSE, panicked |-> FALSE,
   paid |-> FALSE,        \* it took one from the budget of its chain
   void |-> {},           \* what it should be refused for: suspended ever since it
                          \* came, or revoked before
   blind |-> FALSE,       \* the chain's generation could not be read
   refusal |-> [tat |-> 0, bucket |-> "", retry |-> 0]]

Severity(code) == CASE code >= 500 -> "critical" [] code < 400 -> "info" [] OTHER -> "warn"

Event == [req : Reqs, type : {"http_request", "guardrail_violation", "http_response"},
          severity : {"info", "warn", "critical"}, code : {0, 200, 400, 500}]

\* The states hold what their declarations say; the codes are the answers of the
\* seven stages.
TypeOK ==
  /\ wl \in DOMAIN Workloads
  /\ pc \in [Reqs -> Stages]
  /\ \A r \in Reqs : /\ ctx[r].status \in {0, 200, 400, 401, 403, 404, 429, 500}
                     /\ ctx[r].limits \in Quota \cup {NoQuota}
                     /\ ctx[r].attempt \in 0..MaxAttempts
  /\ tenantStatus \in [Tenants -> {"active", "suspended"}]
  /\ log \subseteq Event /\ missed \subseteq Event
  /\ DelegationTypeOK
  /\ RateTypeOK

load == Workloads[wl]

Init ==
  /\ wl \in DOMAIN Workloads
  /\ pc = [r \in Reqs |-> IF r \in DOMAIN load.reqs THEN "start" ELSE "done"]
  /\ ctx = [r \in Reqs |-> FreshCtx]
  /\ tenantStatus = [t \in Tenants |-> "active"]
  /\ log = {} /\ missed = {}
  /\ DelegationInit
  /\ RateInit

Req(r) == load.reqs[r]

Goto(r, stage) == pc' = [pc EXCEPT ![r] = stage]

\* A refusal before the audit middleware: the client is answered, that is all.
Refuse(r, code) == Goto(r, "done") /\ ctx' = [ctx EXCEPT ![r].status = code]

\* auditRepo.Append on a background context, fail-open.
MayAppend(e) ==
  \/ log' = log \cup {e} /\ UNCHANGED missed
  \/ load.faults /\ missed' = missed \cup {e} /\ UNCHANGED log

-----------------------------------------------------------------------------
(* Authentication and tenant *)

\* NewAuth: the token carries user, tenant and scopes; a grant is presented only
\* once it has been issued, and a client may wait for one answer before the next
\* request.
Authenticate(r) ==
  /\ pc[r] = "start"
  /\ \A q \in Req(r).after : pc[q] = "done"
  /\ Req(r).grant # NoGrant => row[Req(r).grant] \notin {"absent", "drafted"}
  /\ IF Req(r).token = "invalid"
       THEN Refuse(r, 401)
       ELSE /\ Goto(r, "tenant")
            /\ ctx' = [ctx EXCEPT ![r].void =
                         {x \in {"tenant"} : tenantStatus[Req(r).tenant] = "suspended"}
                           \cup {x \in {"chain"} : Req(r).grant \in killed}]
  /\ UNCHANGED <<wl, tenantStatus, log, missed, grantVars, rateVars>>

\* NewTenant: the status is read once; any error is answered "not found".
LookupTenant(r) ==
  /\ pc[r] = "tenant"
  /\ \/ /\ Req(r).token = "tenantless"
        /\ Refuse(r, 401)
     \/ /\ Req(r).token = "ok"
        /\ load.faults
        /\ Refuse(r, 404)
     \/ /\ Req(r).token = "ok"
        /\ tenantStatus[Req(r).tenant] = "suspended"
        /\ Refuse(r, 403)
     \/ /\ Req(r).token = "ok"
        /\ tenantStatus[Req(r).tenant] = "active"
        /\ Goto(r, IF Req(r).grant = NoGrant THEN "limits" ELSE "envelope")
        /\ UNCHANGED ctx
  /\ UNCHANGED <<wl, tenantStatus, log, missed, grantVars, rateVars>>

\* AdminTenantsHandler.Update; Delete answers "not implemented".
SetTenantStatus(t, s) ==
  /\ tenantStatus[t] # s
  /\ tenantStatus' = [tenantStatus EXCEPT ![t] = s]
  /\ ctx' = [r \in Reqs |->
               IF s = "active" /\ r \in DOMAIN load.reqs /\ Req(r).tenant = t
                 THEN [ctx[r] EXCEPT !.void = @ \ {"tenant"}]
                 ELSE ctx[r]]
  /\ UNCHANGED <<wl, pc, log, missed, grantVars, rateVars>>

-----------------------------------------------------------------------------
(* Delegation *)

\* The checks that need nothing but the envelope and the token.
CheckEnvelope(r) ==
  /\ pc[r] = "envelope"
  /\ IF EnvelopeValid(Req(r).grant, Req(r).tenant, Req(r).user,
                      ScopesOf[Req(r).user], Req(r).ancestors)
       THEN Goto(r, "generation") /\ UNCHANGED ctx
       ELSE Refuse(r, 403)
  /\ UNCHANGED <<wl, tenantStatus, log, missed, grantVars, rateVars>>

\* GetChainGeneration; if it fails the check is skipped.  The comparison with
\* the root's HITL class follows, but the context holds a root grant only when
\* it is the grant presented, which is as strict as itself.
CheckGeneration(r) ==
  /\ pc[r] = "generation"
  /\ LET next == IF Envelope[Req(r).grant].parent = NoGrant THEN "budget" ELSE "fanout"
     IN  \/ ChainRevoked(Req(r).grant) /\ Refuse(r, 403)
         \/ ~ChainRevoked(Req(r).grant) /\ Goto(r, next) /\ UNCHANGED ctx
         \/ /\ load.faults
            /\ Goto(r, next)
            /\ ctx' = [ctx EXCEPT ![r].blind = TRUE]
  /\ UNCHANGED <<wl, tenantStatus, log, missed, grantVars, rateVars>>

\* CountActiveChildren; skipped if it fails.
CheckFanOut(r) ==
  /\ pc[r] = "fanout"
  /\ \/ ~ValidateFanOut(Req(r).grant) /\ Refuse(r, 403)
     \/ /\ ValidateFanOut(Req(r).grant) \/ load.faults
        /\ Goto(r, "budget")
        /\ UNCHANGED ctx
  /\ UNCHANGED <<wl, tenantStatus, log, missed, grantVars, rateVars>>

\* DecrementBudget, for an envelope that claims a budget; main.go sets FailOpen
\* to false, so an error refuses the request, with or without the decrement.
SpendBudget(r) ==
  /\ pc[r] = "budget"
  /\ LET e == Envelope[Req(r).grant]
     IN  \/ /\ e.budget = 0
            /\ Goto(r, "limits")
            /\ UNCHANGED <<ctx, grantVars>>
         \/ /\ e.budget > 0
            /\ Spend(e.chain)
            /\ Goto(r, "limits")
            /\ ctx' = [ctx EXCEPT ![r].paid = TRUE]
         \/ /\ e.budget > 0
            /\ pool[e.chain] = 0 \/ load.faults
            /\ Refuse(r, 403)
            /\ UNCHANGED grantVars
         \/ /\ e.budget > 0 /\ load.faults
            /\ Spend(e.chain)
            /\ Refuse(r, 403)
  /\ UNCHANGED <<wl, tenantStatus, log, missed, rateVars>>

-----------------------------------------------------------------------------
(* Rate limit *)

\* The limits of all three buckets are resolved first, one lookup per bucket and
\* scope; a lookup that fails counts as no quota.
ResolveLimits(r) ==
  /\ pc[r] = "limits"
  /\ LET there == {s \in {<<Req(r).tenant, NoUser>>, <<Req(r).tenant, Req(r).user>>} :
                     GetByScope(s) # NoQuota}
     IN  \E found \in [Buckets -> IF load.faults THEN SUBSET there ELSE {there}] :
           ctx' = [ctx EXCEPT
                     ![r].limits = [b \in Buckets |-> GetEffectiveLimit(found[b], b)],
                     ![r].stamp = now]
  /\ Goto(r, "requests")
  /\ UNCHANGED <<wl, tenantStatus, log, missed, grantVars, rateVars>>

NextBucket == [requests |-> "tokens", tokens |-> "tool_execs", tool_execs |-> "audit"]

\* On to the next bucket, whose call takes the time anew, or out of the limiter.
NextCharge(r, b) ==
  /\ Goto(r, NextBucket[b])
  /\ ctx' = IF NextBucket[b] \in Buckets
              THEN [ctx EXCEPT ![r].stamp = now]
              ELSE [ctx EXCEPT ![r].stamp = 0, ![r].limits = NoQuota]

\* The outcome of a Redis error: let through or answered 500.
LimiterFails(r, b) == IF load.failOpen THEN NextCharge(r, b) ELSE Refuse(r, 500)

\* Allow, bucket after bucket.  The buckets charged before a refusal stay charged.
ChargeBucket(r, b) ==
  /\ pc[r] = b
  /\ LET k == <<Req(r).tenant, b>>
         limit == ctx[r].limits[b]
         stamp == ctx[r].stamp
     IN  \/ Charge(k, limit, stamp) /\ NextCharge(r, b)
         \/ /\ ~Allowed(k, limit, stamp)
            /\ Goto(r, "done")
            /\ ctx' = [ctx EXCEPT ![r].status = 429,
                                  ![r].refusal = [bucket |-> b, tat |-> tat[k].at,
                                                  retry |-> RetryAfter(k, limit, stamp)]]
            /\ UNCHANGED rateVars
         \/ load.faults /\ LimiterFails(r, b) /\ UNCHANGED rateVars
         \/ load.faults /\ Charge(k, limit, stamp) /\ LimiterFails(r, b)
  /\ UNCHANGED <<wl, tenantStatus, log, missed, grantVars>>

-----------------------------------------------------------------------------
(* Audit, guardrails and handler *)

\* NewAudit before the handler.
AuditRequest(r) ==
  /\ pc[r] = "audit"
  /\ MayAppend([req |-> r, type |-> "http_request", severity |-> "info", code |-> 0])
  /\ Goto(r, IF Req(r).path = "chat" THEN "guard" ELSE "handler")
  /\ UNCHANGED <<wl, ctx, tenantStatus, grantVars, rateVars>>

\* NewGuardrails up to the classification.  A body that cannot be read passes.
\* The classifier of type "local" answers at once, the others over HTTP.
ReadBody(r) ==
  /\ pc[r] = "guard"
  /\ \/ load.faults /\ Goto(r, "handler") /\ UNCHANGED ctx
     \/ /\ ~load.guard.send
        /\ Goto(r, "verdict")
        /\ ctx' = [ctx EXCEPT ![r].checked = TRUE]
     \/ /\ load.guard.send /\ load.guard.type = "local"
        /\ Goto(r, "verdict")
        /\ \E a \in load.answers :
             ctx' = [ctx EXCEPT ![r].checked = TRUE, ![r].ext = a]
     \/ /\ load.guard.send /\ load.guard.type # "local"
        /\ Goto(r, "classify")
        /\ ctx' = [ctx EXCEPT ![r].checked = TRUE]
  /\ UNCHANGED <<wl, tenantStatus, log, missed, grantVars, rateVars>>

\* Mutant: an answer of 5xx starts the count anew.
Retry_Restarted(r, outcome) ==
  /\ UNCHANGED pc
  /\ ctx' = [ctx EXCEPT ![r].attempt = IF outcome = "5xx" THEN 0 ELSE @ + 1]

\* The next turn of the loop in Do.
Retry(r, outcome) == UNCHANGED pc /\ ctx' = [ctx EXCEPT ![r].attempt = @ + 1]

\* One turn of GuardrailHTTPClient.Do.  Its circuit breaker guards a function
\* that does nothing and never opens.  A transport error or a 5xx answer is
\* retried, unless the attempts are used up; so is it not when the request's
\* context ends during the backoff.  Another status or an answer that does not
\* decode is an error at once.
Attempt(r) ==
  /\ pc[r] = "classify"
  /\ \/ /\ ctx[r].attempt < MaxAttempts
        /\ \E outcome \in {"transport", "5xx"} : Retry(r, outcome)
     \/ Goto(r, "verdict") /\ ctx' = [ctx EXCEPT ![r].ext = Unavailable]
     \/ /\ Goto(r, "verdict")
        /\ \E a \in load.answers : ctx' = [ctx EXCEPT ![r].ext = a]
  /\ UNCHANGED <<wl, tenantStatus, log, missed, grantVars, rateVars>>

\* CheckInput's result: the local verdict and the service's combined.
Verdict(r) ==
  LET local == ClassifyLocally(load.guard, Req(r).text, "input")
      ext == IF ctx[r].ext \in {NoAnswer, Unavailable} THEN Unavailable
             ELSE ParseAnswer(load.guard.type, ctx[r].ext)
  IN  classify(load.guard, local, ext)

\* The rest of NewGuardrails: an error lets the request through, a violation is
\* audited and answered 400.
Judge(r) ==
  /\ pc[r] = "verdict"
  /\ \/ /\ Verdict(r) = Unavailable
        /\ Goto(r, "handler")
        /\ UNCHANGED <<ctx, log, missed>>
     \/ /\ Verdict(r) # Unavailable
        /\ \E found \in classificationToViolation(Verdict(r)) :
             \/ /\ found = {}
                /\ Goto(r, "handler")
                /\ UNCHANGED <<ctx, log, missed>>
             \/ \E v \in found :
                  /\ MayAppend([req |-> r, type |-> "guardrail_violation",
                             severity |-> v.severity, code |-> 0])
                  /\ Goto(r, "post")
                  /\ ctx' = [ctx EXCEPT ![r].status = 400, ![r].statusCode = 400,
                                        ![r].rule = v.rule]
  /\ UNCHANGED <<wl, tenantStatus, grantVars, rateVars>>

\* Mutant: the wrapper forwards the header and does not note it.
WriteHeader_Forward(r, code) == ctx' = [ctx EXCEPT ![r].status = code, ![r].served = TRUE]

\* The writers of audit and guardrails around the handler's: the status is noted
\* and forwarded.  flushGuardrails runs inside WriteHeader, when nothing has been
\* written to its buffer yet, and returns.
WriteHeader(r, code) ==
  ctx' = [ctx EXCEPT ![r].status = code, ![r].statusCode = code, ![r].served = TRUE]

\* The handler answers, or panics: chi's Recoverer, outside the chain, answers
\* 500 and the audit middleware does not get to its second event.
Handle(r) ==
  /\ pc[r] = "handler"
  /\ \/ /\ \E code \in load.codes : WriteHeader(r, code)
        /\ Goto(r, "post")
     \/ /\ load.faults
        /\ ctx' = [ctx EXCEPT ![r].status = 500, ![r].served = TRUE, ![r].panicked = TRUE]
        /\ Goto(r, "done")
  /\ UNCHANGED <<wl, tenantStatus, log, missed, grantVars, rateVars>>

\* NewAudit after the handler.
AuditResponse(r) ==
  /\ pc[r] = "post"
  /\ MayAppend([req |-> r, type |-> "http_response", severity |-> Severity(ctx[r].statusCode),
             code |-> ctx[r].statusCode])
  /\ Goto(r, "done")
  /\ UNCHANGED <<wl, ctx, tenantStatus, grantVars, rateVars>>

-----------------------------------------------------------------------------
RequestStep(r) ==
  \/ Authenticate(r) \/ LookupTenant(r)
  \/ CheckEnvelope(r) \/ CheckGeneration(r) \/ CheckFanOut(r) \/ SpendBudget(r)
  \/ ResolveLimits(r) \/ \E b \in Buckets : ChargeBucket(r, b)
  \/ AuditRequest(r) \/ ReadBody(r) \/ Attempt(r) \/ Judge(r)
  \/ Handle(r) \/ AuditResponse(r)

\* What administrators and the clock do meanwhile, as far as the workload has it.
AdminStep ==
  \/ \E t \in Tenants, s \in load.statuses : SetTenantStatus(t, s)
  \/ /\ \/ \E g \in load.issues : Draft(g) \/ Create(g)
        \/ \E c \in load.revokes : InitBudget(c) \/ RevokeByChain(c)
        \/ \E g \in load.lapses : Lapse(g)
     /\ UNCHANGED <<gateVars, rateVars>>
  \/ /\ \/ \E q \in load.quotas : CreateQuota(q.scope, q.limits)
        \/ now < load.until /\ Tick
     /\ UNCHANGED <<gateVars, grantVars>>

AllDone == \A r \in Reqs : pc[r] = "done"

\* All requests are answered: nothing more has to happen.
Finished == AllDone /\ UNCHANGED vars

Next == (\E r \in Reqs : RequestStep(r)) \/ AdminStep \/ Finished

\* Some goroutine of a request that can move does, every call in it returns; the
\* issuer of the grants that requests wait for finishes its work.
Fairness ==
  /\ WF_vars(\E r \in Reqs : RequestStep(r))
  /\ WF_vars(/\ \E g \in load.issues : Draft(g) \/ Create(g)
             /\ UNCHANGED <<gateVars, rateVars>>)

Spec == Init /\ [][Next]_vars /\ Fairness

-----------------------------------------------------------------------------
(* Properties *)

\* A request whose tenant is suspended all the while, or whose chain of grants was
\* revoked before it came, is not served, whatever the issuer and administrators
\* do meanwhile; only one for which the generation could not be read may be
\* (delegation.go:152-168, tenant.go:50-81).
VoidRequestRefused ==
  \A r \in Reqs :
    ctx[r].served => /\ "tenant" \notin ctx[r].void
                     /\ "chain" \in ctx[r].void => ctx[r].blind

\* However many requests race for the budget of a chain and whatever answers are
\* lost, those let through and what is left never exceed what was put in
\* (delegation_budget.go:26-44).
BudgetNeverOverdrawn ==
  \A c \in Chains :
    Cardinality({r \in Reqs : ctx[r].paid /\ Envelope[Req(r).grant].chain = c})
      + pool[c] <= funded[c]

\* The time a refused client is told to wait is enough: the same request would be
\* admitted then, if no other is before it and the bucket is large enough for it
\* (ratelimit.go:74-75).
RetryAfterHonest ==
  \A r \in Reqs :
    LET d == ctx[r].refusal
        limit == ctx[r].limits[d.bucket]
        later == ctx[r].stamp + d.retry
    IN  d.bucket # "" /\ CostIn(d.bucket) <= limit + 1 =>
          Fits(Larger(d.tat, later) + Increment(d.bucket, limit), limit, later)

\* The response event of a request, appended or missed, is the only one and tells
\* the status that the client received, at its severity; a request has one as
\* soon as it has gone through the audit middleware to the end, and none if it
\* was refused earlier or panicked (audit.go:64-103).
AuditTellsOutcome ==
  \A r \in Reqs :
    LET told == {e \in log \cup missed : e.req = r /\ e.type = "http_response"}
    IN  IF pc[r] = "done" /\ (ctx[r].served \/ ctx[r].rule # "") /\ ~ctx[r].panicked
          THEN told = {[req |-> r, type |-> "http_response", code |-> ctx[r].status,
                        severity |-> IF ctx[r].status >= 500 THEN "critical"
                                     ELSE IF ctx[r].status >= 400 THEN "warn"
                                     ELSE "info"]}
          ELSE told = {}

\* What the local rules find in a text, and what the answer of a service claims.
LocalClaims(r) == {v.rule : v \in LocalCheck(load.guard, Req(r).text, "input")}

Claims(a) ==
  IF a \in {NoAnswer, Unavailable} THEN {}
  ELSE CASE load.guard.type = "openai" -> {s.category : s \in {x \in a.scores : x.detected}}
         [] load.guard.type = "anthropic" ->
              {s.category : s \in {x \in a.scores : /\ ~a.prose /\ x.detected
                                                    /\ x.confidence >= ThresholdOf(x.category, 70)}}
         [] load.guard.type = "llamaguard" -> IF a.verdict = "unsafe" THEN a.names ELSE {}
         [] load.guard.type = "local" -> IF a.matched THEN {"local_pattern"} ELSE {}

\* A chat request whose text was judged is served only if the configured
\* classifiers do not, by the configured logic, object: neither of them with
\* any_violation and weighted, not both to the same category with all_violation.
\* Exceptions are an external classifier that failed, with fail_open and
\* fail_closed, and a category without a name (composite.go:76-186, 391-526).
\* And a request is refused for a rule that the local guardrail found or a
\* category that the service claimed, never for one that was only listed
\* (composite.go:615-652).
BlockedForCause ==
  \A r \in Reqs :
    LET failed == load.guard.send /\ ctx[r].ext = Unavailable
        claims == Claims(ctx[r].ext)
    IN  /\ ctx[r].served /\ ctx[r].checked =>
             \/ failed /\ load.guard.failBehavior # "fallback_local"
             \/ "" \in LocalClaims(r) \cup claims
             \/ LocalClaims(r) \cup claims = {}
             \/ /\ load.guard.send /\ ~failed
                /\ load.guard.mergeLogic = "all_violation"
                /\ LocalClaims(r) \cap claims = {}
        /\ ctx[r].rule # "" => ctx[r].rule \in LocalClaims(r) \cup claims

\* Every request is answered, although classifiers are retried, every stage may
\* fail and administrators move in between (http_client.go:200-243).
EveryRequestAnswered == <>AllDone
==============================================================================
