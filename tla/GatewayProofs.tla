----------------------------- MODULE GatewayProofs -----------------------------
(***************************************************************************)
(* Proofs about the limiter of RateLimit by itself, called with any limit   *)
(* for any bucket, on any time read up to now, in any order; and about the  *)
(* pipeline of Gateway, for any requests, grants, quotas, configurations    *)
(* of the guardrails and answers of their services.                         *)
(***************************************************************************)
EXTENDS Gateway, FiniteSetTheorems, TLAPS

(* The limiter *)

\* RateConforms is about the loads and the ceiling; the step needs the arrival
\* time between the two, which is what the script compares and stores.
Between(t, b) ==
  /\ t \in [at : Nat, exp : Nat]
  /\ b \in [spans : SUBSET [start : Nat, load : Nat], ceiling : Nat]
  /\ \A s \in b.spans : s.start + s.load <= t.at
  /\ t.at <= b.ceiling
  /\ t.at <= t.exp

\* The inductive invariant of the limiter.
RateInv ==
  /\ now \in Nat
  /\ tat \in [Keys -> [at : Nat, exp : Nat]]
  /\ bursts \in [Keys -> [spans : SUBSET [start : Nat, load : Nat], ceiling : Nat]]
  /\ \A k \in Keys : Between(tat[k], bursts[k])

-----------------------------------------------------------------------------
\* The emission interval and the increment of a positive limit are numbers.
LEMMA Increments ==
  ASSUME NEW b \in Buckets, NEW limit \in 1..Window
  PROVE  EmissionInterval(limit) \in Nat /\ Increment(b, limit) \in Nat
<1>1. limit \in Nat \ {0} /\ Window \in Nat
  BY RateLimitConstants
<1>2. EmissionInterval(limit) \in Nat
  BY <1>1 DEF EmissionInterval
<1>3. CostIn(b) \in Nat
  BY Zenon, RateLimitConstants DEF CostIn
<1>. QED
  BY <1>2, <1>3 DEF Increment

\* An arrival time is never before the stamp, nor before the one stored.
LEMMA ArrivalBounds ==
  ASSUME NEW k \in Keys, NEW stamp \in Nat, tat[k].at \in Nat
  PROVE  /\ Arrival(k, stamp) \in Nat
         /\ stamp <= Arrival(k, stamp)
         /\ Live(k) => tat[k].at <= Arrival(k, stamp)
  BY DEF Arrival, Larger

\* Nothing has been admitted at the start.
LEMMA RateInvInit == RateInit => RateInv
  BY DEF RateInit, RateInv, Between, NoKey, NoBurst

\* What the script stores for an admitted request.
LEMMA AdmittedBetween ==
  ASSUME RateInv, NEW k \in Keys, NEW limit \in 1..Window, NEW stamp \in 0..now,
         Allowed(k, limit, stamp)
  PROVE  Between([at |-> NewTat(k, limit, stamp), exp |-> now + KeyTtl(limit)],
                 Admitted(k, limit, stamp))
<1> DEFINE inc == Increment(k[2], limit)
           old == IF Live(k) THEN bursts[k].spans ELSE {}
           new == NewTat(k, limit, stamp)
           top == stamp + Window + EmissionInterval(limit)
<1>1. k[2] \in Buckets /\ stamp \in Nat /\ now \in Nat /\ stamp <= now /\ Window \in Nat
  BY RateLimitConstants DEF Keys, RateInv
<1>2. EmissionInterval(limit) \in Nat /\ inc \in Nat
  BY Zenon, <1>1, Increments
<1>3. /\ tat[k].at \in Nat
      /\ bursts[k].spans \subseteq [start : Nat, load : Nat]
      /\ \A s \in bursts[k].spans : s.start + s.load <= tat[k].at
  BY Zenon DEF RateInv, Between
<1>4. /\ Arrival(k, stamp) \in Nat
      /\ stamp <= Arrival(k, stamp)
      /\ Live(k) => tat[k].at <= Arrival(k, stamp)
  BY Zenon, <1>1, <1>3, ArrivalBounds
<1>5. new = Arrival(k, stamp) + inc /\ new \in Nat
  BY <1>2, <1>4 DEF NewTat
<1>6. top \in Nat /\ new <= top
  BY <1>1, <1>2 DEF Allowed, Fits
<1>7. now + KeyTtl(limit) \in Nat /\ top <= now + KeyTtl(limit)
  BY <1>1, <1>2 DEF KeyTtl
<1>8. ASSUME NEW s \in old
      PROVE  /\ [start |-> s.start, load |-> s.load + inc] \in [start : Nat, load : Nat]
             /\ s.start + (s.load + inc) <= new
  <2>1. Live(k) /\ s \in bursts[k].spans
    BY Zenon, <1>8
  <2>2. s.start \in Nat /\ s.load \in Nat /\ s.start + s.load <= tat[k].at
    BY Zenon, <1>3, <2>1
  <2>. QED
    BY <1>2, <1>3, <1>4, <1>5, <2>1, <2>2
<1>9. [start |-> stamp, load |-> inc] \in [start : Nat, load : Nat] /\ stamp + inc <= new
  BY <1>1, <1>2, <1>4, <1>5
<1> DEFINE spans == {[start |-> s.start, load |-> s.load + inc] : s \in old}
                      \cup {[start |-> stamp, load |-> inc]}
<1>10. Admitted(k, limit, stamp) = [spans |-> spans, ceiling |-> top]
  BY Zenon DEF Admitted
<1>11. \A s \in spans : s \in [start : Nat, load : Nat] /\ s.start + s.load <= new
  BY <1>8, <1>9
<1> HIDE DEF inc, old, new, top, spans
<1>12. [at |-> new, exp |-> now + KeyTtl(limit)] \in [at : Nat, exp : Nat]
  BY Zenon, <1>5, <1>7
<1>13. [spans |-> spans, ceiling |-> top] \in [spans : SUBSET [start : Nat, load : Nat], ceiling : Nat]
  BY Zenon, <1>6, <1>11
<1>14. new <= now + KeyTtl(limit)
  BY <1>5, <1>6, <1>7
<1>15. Between([at |-> new, exp |-> now + KeyTtl(limit)], [spans |-> spans, ceiling |-> top])
  BY Zenon, <1>6, <1>11, <1>12, <1>13, <1>14 DEF Between
<1>. QED
  BY Zenon, <1>10, <1>15 DEF new

\* A charge changes one bucket, to what the script stores.
LEMMA ChargeKeeps ==
  ASSUME RateInv, NEW k \in Keys, NEW limit \in 1..Window, NEW stamp \in 0..now,
         Charge(k, limit, stamp)
  PROVE  RateInv'
<1> DEFINE t == [at |-> NewTat(k, limit, stamp), exp |-> now + KeyTtl(limit)]
           b == Admitted(k, limit, stamp)
<1>1. Between(t, b)
  BY Zenon, AdmittedBetween DEF Charge
<1>2. now' = now /\ tat' = [tat EXCEPT ![k] = t] /\ bursts' = [bursts EXCEPT ![k] = b]
  BY Zenon DEF Charge
<1>3. t \in [at : Nat, exp : Nat] /\ b \in [spans : SUBSET [start : Nat, load : Nat], ceiling : Nat]
  BY Zenon, <1>1 DEF Between
<1> HIDE DEF t, b
<1>4. now' \in Nat
  BY Zenon, <1>2 DEF RateInv
<1>5. /\ tat' \in [Keys -> [at : Nat, exp : Nat]]
      /\ bursts' \in [Keys -> [spans : SUBSET [start : Nat, load : Nat], ceiling : Nat]]
  BY Zenon, <1>2, <1>3 DEF RateInv
<1>6. ASSUME NEW j \in Keys PROVE Between(tat'[j], bursts'[j])
  <2>1. CASE j = k
    <3>1. tat'[j] = t /\ bursts'[j] = b
      BY Zenon, <1>2, <2>1 DEF RateInv
    <3>. QED
      BY Zenon, <1>1, <3>1
  <2>2. CASE j # k
    <3>1. tat'[j] = tat[j] /\ bursts'[j] = bursts[j]
      BY Zenon, <1>2, <2>2 DEF RateInv
    <3>2. Between(tat[j], bursts[j])
      BY Zenon DEF RateInv
    <3>. QED
      BY Zenon, <3>1, <3>2
  <2>. QED
    BY Zenon, <2>1, <2>2
<1>. QED
  BY Zenon, <1>4, <1>5, <1>6 DEF RateInv

\* Time and quotas leave the buckets alone.
LEMMA RateInvStep ==
  ASSUME RateInv, [RateNext]_rateVars
  PROVE  RateInv'
<1>1. ASSUME NEW k \in Keys, NEW limit \in 1..Window, NEW stamp \in 0..now, Charge(k, limit, stamp)
      PROVE  RateInv'
  BY Zenon, <1>1, ChargeKeeps
<1>2. ASSUME NEW s \in Scopes, NEW q \in Quota, CreateQuota(s, q) PROVE RateInv'
  BY Zenon, <1>2 DEF CreateQuota, RateInv
<1>3. CASE Tick
  BY <1>3 DEF Tick, RateInv
<1>4. CASE UNCHANGED rateVars
  BY Zenon, <1>4 DEF rateVars, RateInv
<1>. QED
  BY Zenon, <1>1, <1>2, <1>3, <1>4 DEF RateNext

\* For any window, limits and clocks: what a bucket admits stays within the rate,
\* one window and one request, and a key that expires had nothing to remember
\* (the GCRA script of ratelimit.go).
THEOREM LimiterConforms == RateSpec => []RateConforms
<1>1. RateInv => RateConforms
  <2>. SUFFICES ASSUME RateInv, NEW k \in Keys
                PROVE  /\ \A s \in bursts[k].spans : s.start + s.load <= bursts[k].ceiling
                       /\ tat[k].at <= tat[k].exp
    BY Zenon DEF RateConforms
  <2>1. Between(tat[k], bursts[k])
    BY Zenon DEF RateInv
  <2>2. ASSUME NEW s \in bursts[k].spans PROVE s.start + s.load <= bursts[k].ceiling
    <3>1. s \in [start : Nat, load : Nat] /\ tat[k].at \in Nat /\ bursts[k].ceiling \in Nat
      BY Zenon, <2>1, <2>2 DEF Between
    <3>2. s.start + s.load <= tat[k].at /\ tat[k].at <= bursts[k].ceiling
      BY Zenon, <2>1, <2>2 DEF Between
    <3>. QED
      BY <3>1, <3>2
  <2>. QED
    BY Zenon, <2>1, <2>2 DEF Between
<1>. QED
  BY <1>1, RateInvInit, RateInvStep, PTL DEF RateSpec

-----------------------------------------------------------------------------
(* The pipeline: what every step leaves in shape *)

\* What the middleware keeps of a request.
Fields == {"status", "statusCode", "limits", "stamp", "attempt", "ext", "rule", "checked",
           "served", "panicked", "paid", "void", "blind", "refusal"}

\* The fields that are yes or no.
Flags(r) ==
  /\ ctx[r].served \in BOOLEAN /\ ctx[r].panicked \in BOOLEAN /\ ctx[r].paid \in BOOLEAN
  /\ ctx[r].blind \in BOOLEAN /\ ctx[r].checked \in BOOLEAN

\* The types on which the other invariants rest.
Shape ==
  /\ wl \in DOMAIN Workloads
  /\ pc \in [Reqs -> Stages]
  /\ DOMAIN ctx = Reqs
  /\ \A r \in Reqs :
       /\ DOMAIN ctx[r] = Fields
       /\ Flags(r)
       /\ pc[r] # "done" => r \in DOMAIN load.reqs

\* A workload is chosen at the start and stays.
LEMMA LoadStays ==
  ASSUME wl' = wl
  PROVE  load' = load /\ \A r : Req(r)' = Req(r)
  BY Zenon DEF load, Req

\* Every request starts with all its fields.
LEMMA ShapeInit == Init => Shape
<1> SUFFICES ASSUME Init PROVE Shape
  BY Zenon
<1>1. wl \in DOMAIN Workloads /\ pc \in [Reqs -> Stages] /\ \A r \in Reqs : pc[r] # "done" => r \in DOMAIN load.reqs
  BY Zenon DEF Init, Stages
<1>2. DOMAIN ctx = Reqs /\ \A r \in Reqs : ctx[r] = FreshCtx
  BY Zenon DEF Init
<1>3. /\ DOMAIN FreshCtx = Fields
      /\ FreshCtx.served \in BOOLEAN /\ FreshCtx.panicked \in BOOLEAN /\ FreshCtx.paid \in BOOLEAN
      /\ FreshCtx.blind \in BOOLEAN /\ FreshCtx.checked \in BOOLEAN
  BY Zenon DEF FreshCtx, Fields
<1>. QED  BY Zenon, <1>1, <1>2, <1>3 DEF Shape, Flags

\* What a step may leave alone in the context of its request.
SameOutcome(r) ==
  /\ ctx'[r].served = ctx[r].served /\ ctx'[r].panicked = ctx[r].panicked /\ ctx'[r].rule = ctx[r].rule
\* Parts of the context that a step leaves as they are.
SameVoid(r) == ctx'[r].void = ctx[r].void /\ ctx'[r].blind = ctx[r].blind
SamePaid(r) == ctx'[r].paid = ctx[r].paid
SameRate(r) ==
  /\ ctx'[r].limits = ctx[r].limits /\ ctx'[r].stamp = ctx[r].stamp /\ ctx'[r].refusal = ctx[r].refusal
SameGuard(r) == ctx'[r].ext = ctx[r].ext /\ ctx'[r].checked = ctx[r].checked

\* A step of r is about r, and leaves its context in shape.
Only(r) ==
  /\ wl' = wl
  /\ pc' \in [Reqs -> Stages] /\ DOMAIN ctx' = Reqs /\ DOMAIN ctx'[r] = Fields
  /\ \A q \in Reqs \ {r} : pc'[q] = pc[q] /\ ctx'[q] = ctx[q]

\* What authentication does: it starts the record of what makes the request void.
LEMMA AuthenticateDoes ==
  ASSUME Shape, NEW r \in Reqs, Authenticate(r)
  PROVE  /\ Only(r) /\ SameOutcome(r) /\ SamePaid(r) /\ SameRate(r) /\ SameGuard(r)
         /\ pc[r] = "start" /\ pc'[r] \in {"tenant", "done"} /\ ctx'[r].blind = ctx[r].blind
         /\ pc'[r] = "done" => ctx'[r].void = ctx[r].void
         /\ pc'[r] = "tenant" =>
              /\ "tenant" \in ctx'[r].void => tenantStatus[Req(r).tenant] = "suspended"
              /\ "chain" \in ctx'[r].void => Req(r).grant \in killed
  BY DEF Authenticate, Refuse, Goto, Shape, Only, SameOutcome, SamePaid, SameRate, SameGuard, Fields, Stages

\* What the tenant middleware does: only an active tenant goes on.
LEMMA LookupTenantDoes ==
  ASSUME Shape, NEW r \in Reqs, LookupTenant(r)
  PROVE  /\ Only(r) /\ SameOutcome(r) /\ SameVoid(r) /\ SamePaid(r) /\ SameRate(r) /\ SameGuard(r)
         /\ pc[r] = "tenant" /\ pc'[r] \in {"limits", "envelope", "done"}
         /\ pc'[r] # "done" => tenantStatus[Req(r).tenant] = "active"
         /\ pc'[r] = "limits" => Req(r).grant = NoGrant
         /\ pc'[r] = "envelope" => Req(r).grant # NoGrant
  BY DEF LookupTenant, Refuse, Goto, Shape, Only, SameOutcome, SameVoid, SamePaid, SameRate, SameGuard, Fields, Stages

\* What the checks of the grant itself do.
LEMMA CheckEnvelopeDoes ==
  ASSUME Shape, NEW r \in Reqs, CheckEnvelope(r)
  PROVE  /\ Only(r) /\ SameOutcome(r) /\ SameVoid(r) /\ SamePaid(r) /\ SameRate(r) /\ SameGuard(r)
         /\ pc[r] = "envelope" /\ pc'[r] \in {"generation", "done"}
  BY DEF CheckEnvelope, Refuse, Goto, Shape, Only, SameOutcome, SameVoid, SamePaid, SameRate, SameGuard, Fields, Stages

\* What the check of the generation does: on is who is not revoked, or whose
\* generation could not be read.
LEMMA CheckGenerationDoes ==
  ASSUME Shape, NEW r \in Reqs, CheckGeneration(r)
  PROVE  /\ Only(r) /\ SameOutcome(r) /\ SamePaid(r) /\ SameRate(r) /\ SameGuard(r)
         /\ ctx'[r].void = ctx[r].void /\ ctx'[r].blind \in BOOLEAN
         /\ pc[r] = "generation" /\ pc'[r] \in {"budget", "fanout", "done"}
         /\ pc'[r] # "done" => ctx'[r].blind \/ ~ChainRevoked(Req(r).grant)
         /\ ctx[r].blind => ctx'[r].blind
<1> DEFINE Rest == Only(r) /\ SameOutcome(r) /\ SamePaid(r) /\ SameRate(r) /\ SameGuard(r) /\ ctx'[r].void = ctx[r].void
<1> USE DEF Refuse, Goto, Shape, Only, SameOutcome, SamePaid, SameRate, SameGuard, Fields, Stages
<1>1. pc[r] = "generation" /\ wl' = wl
  BY Zenon DEF CheckGeneration
<1>2. ASSUME Refuse(r, 403)
      PROVE  Rest /\ pc'[r] = "done" /\ ctx'[r].blind = ctx[r].blind
  BY <1>1, <1>2
<1>3. ASSUME NEW next \in {"budget", "fanout"}, Goto(r, next), UNCHANGED ctx
      PROVE  Rest /\ pc'[r] = next /\ ctx'[r].blind = ctx[r].blind
  BY Zenon, <1>1, <1>3
<1>4. ASSUME NEW next \in {"budget", "fanout"}, Goto(r, next), ctx' = [ctx EXCEPT ![r].blind = TRUE]
      PROVE  Rest /\ pc'[r] = next /\ ctx'[r].blind = TRUE
  BY Zenon, <1>1, <1>4
<1>5. \E next \in {"budget", "fanout"} :
        \/ Refuse(r, 403)
        \/ ~ChainRevoked(Req(r).grant) /\ Goto(r, next) /\ UNCHANGED ctx
        \/ Goto(r, next) /\ ctx' = [ctx EXCEPT ![r].blind = TRUE]
  BY ONLY CheckGeneration(r), Zenon DEF CheckGeneration
<1> HIDE DEF Rest, Refuse, Goto
<1>6. ctx[r].blind \in BOOLEAN
  BY Zenon DEF Flags
<1>7. Rest /\ pc'[r] \in {"budget", "fanout", "done"} /\ ctx'[r].blind \in BOOLEAN
      /\ (pc'[r] # "done" => ctx'[r].blind \/ ~ChainRevoked(Req(r).grant)) /\ (ctx[r].blind => ctx'[r].blind)
  BY Zenon, <1>2, <1>3, <1>4, <1>5, <1>6
<1>. QED  BY Zenon, <1>1, <1>7 DEF Rest

\* What the check of the fan-out does.
LEMMA CheckFanOutDoes ==
  ASSUME Shape, NEW r \in Reqs, CheckFanOut(r)
  PROVE  /\ Only(r) /\ SameOutcome(r) /\ SameVoid(r) /\ SamePaid(r) /\ SameRate(r) /\ SameGuard(r)
         /\ pc[r] = "fanout" /\ pc'[r] \in {"budget", "done"}
  BY DEF CheckFanOut, Refuse, Goto, Shape, Only, SameOutcome, SameVoid, SamePaid, SameRate, SameGuard, Fields, Stages

\* What the budget script does: whoever paid has spent.
LEMMA SpendBudgetDoes ==
  ASSUME Shape, NEW r \in Reqs, SpendBudget(r)
  PROVE  /\ Only(r) /\ SameOutcome(r) /\ SameVoid(r) /\ SameRate(r) /\ SameGuard(r)
         /\ pc[r] = "budget" /\ pc'[r] \in {"limits", "done"} /\ ctx'[r].paid \in BOOLEAN
         /\ \/ UNCHANGED grantVars /\ SamePaid(r)
            \/ Spend(Envelope[Req(r).grant].chain) /\ (SamePaid(r) \/ ctx'[r].paid)
<1> DEFINE Rest == Only(r) /\ SameOutcome(r) /\ SameVoid(r) /\ SameRate(r) /\ SameGuard(r)
           c == Envelope[Req(r).grant].chain
<1> USE DEF Refuse, Goto, Shape, Only, SameOutcome, SamePaid, SameRate, SameGuard, SameVoid, Fields, Stages
<1>1. pc[r] = "budget" /\ wl' = wl
  BY Zenon DEF SpendBudget
<1>2. ASSUME Refuse(r, 403)
      PROVE  Rest /\ pc'[r] = "done" /\ SamePaid(r)
  BY <1>1, <1>2
<1>3. ASSUME Goto(r, "limits"), UNCHANGED ctx
      PROVE  Rest /\ pc'[r] = "limits" /\ SamePaid(r)
  BY Zenon, <1>1, <1>3
<1>4. ASSUME Goto(r, "limits"), ctx' = [ctx EXCEPT ![r].paid = TRUE]
      PROVE  Rest /\ pc'[r] = "limits" /\ ctx'[r].paid = TRUE
  BY Zenon, <1>1, <1>4
<1>5. \/ Goto(r, "limits") /\ UNCHANGED ctx /\ UNCHANGED grantVars
      \/ Spend(c) /\ Goto(r, "limits") /\ ctx' = [ctx EXCEPT ![r].paid = TRUE]
      \/ Refuse(r, 403) /\ UNCHANGED grantVars
      \/ Spend(c) /\ Refuse(r, 403)
  BY ONLY SpendBudget(r), Zenon DEF SpendBudget
<1> HIDE DEF Rest, Refuse, Goto, c, SamePaid
<1>6. ctx[r].paid \in BOOLEAN /\ (SamePaid(r) => ctx'[r].paid \in BOOLEAN)
  BY Zenon DEF SamePaid, Flags
<1>7. Rest /\ pc'[r] \in {"limits", "done"} /\ ctx'[r].paid \in BOOLEAN
      /\ (\/ UNCHANGED grantVars /\ SamePaid(r)
          \/ Spend(c) /\ (SamePaid(r) \/ ctx'[r].paid))
  BY Zenon, <1>2, <1>3, <1>4, <1>5, <1>6
<1>. QED  BY Zenon, <1>1, <1>7 DEF Rest, c

\* What the resolution of quotas does: a limit for each bucket, and the stamp.
LEMMA ResolveLimitsDoes ==
  ASSUME Shape, NEW r \in Reqs, ResolveLimits(r)
  PROVE  /\ Only(r) /\ SameOutcome(r) /\ SameVoid(r) /\ SamePaid(r) /\ SameGuard(r)
         /\ pc[r] = "limits" /\ pc'[r] = "requests"
         /\ ctx'[r].stamp = now /\ ctx'[r].refusal = ctx[r].refusal
         /\ \E found \in [Buckets -> SUBSET {<<Req(r).tenant, NoUser>>, <<Req(r).tenant, Req(r).user>>}] :
              ctx'[r].limits = [b \in Buckets |-> GetEffectiveLimit(found[b], b)]
<1>1. PICK found \in [Buckets -> SUBSET {<<Req(r).tenant, NoUser>>, <<Req(r).tenant, Req(r).user>>}] :
        ctx' = [ctx EXCEPT ![r].limits = [b \in Buckets |-> GetEffectiveLimit(found[b], b)], ![r].stamp = now]
  <2> DEFINE two == {<<Req(r).tenant, NoUser>>, <<Req(r).tenant, Req(r).user>>}
             there == {s \in two : GetByScope(s) # NoQuota}
             R == IF load.faults THEN SUBSET there ELSE {there}
  <2>1. PICK found \in [Buckets -> R] :
          ctx' = [ctx EXCEPT ![r].limits = [b \in Buckets |-> GetEffectiveLimit(found[b], b)], ![r].stamp = now]
    BY Zenon DEF ResolveLimits
  <2>2. R \subseteq SUBSET two
    BY Zenon
  <2> HIDE DEF two, R
  <2>3. found \in [Buckets -> SUBSET two]
    BY Zenon, <2>2
  <2>. QED  BY Zenon, <2>1, <2>3 DEF two
<1>2. pc' = [pc EXCEPT ![r] = "requests"] /\ pc[r] = "limits" /\ wl' = wl
  BY Zenon DEF ResolveLimits, Goto
<1>3. /\ ctx'[r].limits = [b \in Buckets |-> GetEffectiveLimit(found[b], b)]
      /\ SameOutcome(r) /\ SameVoid(r) /\ SamePaid(r) /\ SameGuard(r)
      /\ ctx'[r].stamp = now /\ ctx'[r].refusal = ctx[r].refusal /\ Only(r) /\ pc'[r] = "requests"
  BY Zenon, <1>1, <1>2 DEF Shape, Only, SameOutcome, SameVoid, SamePaid, SameGuard, Fields, Stages
<1>. QED  BY Zenon, <1>2, <1>3

\* The step of a bucket: charged, refused, or failed one way or the other.
LEMMA ChargeBucketDoes ==
  ASSUME Shape, NEW r \in Reqs, NEW b \in Buckets, ChargeBucket(r, b)
  PROVE  /\ Only(r) /\ SameOutcome(r) /\ SameVoid(r) /\ SamePaid(r) /\ SameGuard(r)
         /\ pc[r] = b /\ pc'[r] \in Buckets \cup {"audit", "done"}
         /\ UNCHANGED rateVars \/ Charge(<<Req(r).tenant, b>>, ctx[r].limits[b], ctx[r].stamp)
         /\ pc'[r] \in Buckets =>
              ctx'[r].limits = ctx[r].limits /\ ctx'[r].stamp = now /\ ctx'[r].refusal = ctx[r].refusal
         /\ pc'[r] = "audit" => ctx'[r].refusal = ctx[r].refusal
         /\ pc'[r] = "done" => SameRate(r) \/
              LET k == <<Req(r).tenant, b>> IN
              /\ ~Allowed(k, ctx[r].limits[b], ctx[r].stamp)
              /\ ctx'[r].limits = ctx[r].limits /\ ctx'[r].stamp = ctx[r].stamp
              /\ ctx'[r].refusal = [bucket |-> b, tat |-> tat[k].at,
                                    retry |-> RetryAfter(k, ctx[r].limits[b], ctx[r].stamp)]
<1> DEFINE Rest == Only(r) /\ SameOutcome(r) /\ SameVoid(r) /\ SamePaid(r) /\ SameGuard(r)
           k == <<Req(r).tenant, b>>
           limit == ctx[r].limits[b]
           stamp == ctx[r].stamp
           d == [bucket |-> b, tat |-> tat[k].at, retry |-> RetryAfter(k, limit, stamp)]
           Moved == /\ pc'[r] \in Buckets =>
                         ctx'[r].limits = ctx[r].limits /\ ctx'[r].stamp = now /\ ctx'[r].refusal = ctx[r].refusal
                    /\ pc'[r] = "audit" => ctx'[r].refusal = ctx[r].refusal
                    /\ pc'[r] \in Buckets \cup {"audit"}
           Refused == /\ pc'[r] = "done" /\ ctx'[r].limits = ctx[r].limits /\ ctx'[r].stamp = stamp
                      /\ ctx'[r].refusal = d
<1>1. pc[r] = b /\ wl' = wl
  BY Zenon DEF ChargeBucket
<1>2. \/ Charge(k, limit, stamp) /\ NextCharge(r, b)
      \/ /\ ~Allowed(k, limit, stamp) /\ Goto(r, "done") /\ UNCHANGED rateVars
         /\ ctx' = [ctx EXCEPT ![r].status = 429, ![r].refusal = d]
      \/ UNCHANGED rateVars /\ (NextCharge(r, b) \/ Refuse(r, 500))
      \/ Charge(k, limit, stamp) /\ (NextCharge(r, b) \/ Refuse(r, 500))
  BY ONLY ChargeBucket(r, b), Zenon DEF ChargeBucket, LimiterFails
<1> HIDE DEF d, k, limit
<1>3. NextCharge(r, b) => Rest /\ Moved
  <2>1. NextBucket[b] \in Buckets \cup {"audit"} /\ NextBucket[b] \in Stages
    BY DEF NextBucket, Buckets, Stages
  <2>2. SUFFICES ASSUME NextCharge(r, b) PROVE Rest /\ Moved
    BY Zenon
  <2>3. pc' = [pc EXCEPT ![r] = NextBucket[b]]
    BY Zenon, <2>2 DEF NextCharge, Goto
  <2>4. pc' \in [Reqs -> Stages] /\ pc'[r] = NextBucket[b] /\ \A q \in Reqs \ {r} : pc'[q] = pc[q]
    BY Zenon, <2>1, <2>3 DEF Shape
  <2>5. CASE NextBucket[b] \in Buckets
    <3>1. ctx' = [ctx EXCEPT ![r].stamp = now]
      BY Zenon, <2>2, <2>5 DEF NextCharge
    <3>. QED  BY Zenon, <1>1, <2>4, <2>5, <3>1 DEF Shape, Only, SameOutcome, SameVoid, SamePaid, SameGuard, Fields, Buckets
  <2>6. CASE NextBucket[b] \notin Buckets
    <3>1. ctx' = [ctx EXCEPT ![r].stamp = 0, ![r].limits = NoQuota]
      BY Zenon, <2>2, <2>6 DEF NextCharge
    <3>. QED  BY Zenon, <1>1, <2>1, <2>4, <2>6, <3>1 DEF Shape, Only, SameOutcome, SameVoid, SamePaid, SameGuard, Fields, Buckets
  <2>. QED  BY Zenon, <2>5, <2>6
<1>4. Refuse(r, 500) => Rest /\ SameRate(r) /\ pc'[r] = "done"
  BY <1>1 DEF Refuse, Goto, Shape, Only, SameOutcome, SameVoid, SamePaid, SameRate, SameGuard, Fields, Stages
<1>5. Goto(r, "done") /\ ctx' = [ctx EXCEPT ![r].status = 429, ![r].refusal = d] => Rest /\ Refused
  BY <1>1 DEF Goto, Shape, Only, SameOutcome, SameVoid, SamePaid, SameGuard, Fields, Stages
<1>6. Rest /\ (UNCHANGED rateVars \/ Charge(k, limit, stamp))
      /\ (Moved \/ (pc'[r] = "done" /\ SameRate(r)) \/ (Refused /\ ~Allowed(k, limit, stamp)))
  BY Zenon, <1>2, <1>3, <1>4, <1>5
<1>7. "done" \notin Buckets /\ "audit" \notin Buckets
  BY Zenon DEF Buckets
<1>. QED  BY Zenon, <1>1, <1>6, <1>7 DEF d, k, limit

\* What the audit middleware does on the way in.
LEMMA AuditRequestDoes ==
  ASSUME Shape, NEW r \in Reqs, AuditRequest(r)
  PROVE  /\ Only(r) /\ ctx'[r] = ctx[r] /\ pc[r] = "audit" /\ pc'[r] \in {"guard", "handler"}
         /\ MayAppend([req |-> r, type |-> "http_request", severity |-> "info", code |-> 0])
  BY Zenon DEF AuditRequest, Goto, Shape, Only, Stages

\* What the guardrails do with the body: pass it by, judge it, or ask a classifier.
LEMMA ReadBodyDoes ==
  ASSUME Shape, NEW r \in Reqs, ReadBody(r)
  PROVE  /\ Only(r) /\ SameOutcome(r) /\ SameVoid(r) /\ SamePaid(r) /\ SameRate(r)
         /\ pc[r] = "guard"
         /\ \/ pc'[r] = "handler" /\ SameGuard(r)
            \/ pc'[r] = "verdict" /\ ctx'[r].checked = TRUE /\ ~load.guard.send /\ ctx'[r].ext = ctx[r].ext
            \/ pc'[r] = "verdict" /\ ctx'[r].checked = TRUE /\ load.guard.send /\ ctx'[r].ext \in load.answers
            \/ pc'[r] = "classify" /\ ctx'[r].checked = TRUE /\ load.guard.send /\ ctx'[r].ext = ctx[r].ext
<1> DEFINE Rest == Only(r) /\ SameOutcome(r) /\ SameVoid(r) /\ SamePaid(r) /\ SameRate(r)
<1>1. pc[r] = "guard" /\ wl' = wl
  BY Zenon DEF ReadBody
<1>2. \/ Goto(r, "handler") /\ UNCHANGED ctx
      \/ ~load.guard.send /\ Goto(r, "verdict") /\ ctx' = [ctx EXCEPT ![r].checked = TRUE]
      \/ load.guard.send /\ Goto(r, "verdict") /\ \E a \in load.answers : ctx' = [ctx EXCEPT ![r].checked = TRUE, ![r].ext = a]
      \/ load.guard.send /\ Goto(r, "classify") /\ ctx' = [ctx EXCEPT ![r].checked = TRUE]
  BY ONLY ReadBody(r), Zenon DEF ReadBody
<1> USE DEF Goto, Shape, Only, SameOutcome, SameVoid, SamePaid, SameRate, SameGuard, Fields, Stages
<1>3. Goto(r, "handler") /\ UNCHANGED ctx => Rest /\ pc'[r] = "handler" /\ SameGuard(r)
  BY Zenon, <1>1
<1>4. ASSUME NEW st \in {"verdict", "classify"}, Goto(r, st), ctx' = [ctx EXCEPT ![r].checked = TRUE]
      PROVE  Rest /\ pc'[r] = st /\ ctx'[r].checked = TRUE /\ ctx'[r].ext = ctx[r].ext
  BY Zenon, <1>1, <1>4
<1>5. ASSUME NEW a \in load.answers, Goto(r, "verdict"), ctx' = [ctx EXCEPT ![r].checked = TRUE, ![r].ext = a]
      PROVE  Rest /\ pc'[r] = "verdict" /\ ctx'[r].checked = TRUE /\ ctx'[r].ext = a
  BY Zenon, <1>1, <1>5
<1> HIDE DEF Rest, Goto, SameGuard
<1>6. Rest /\ (\/ pc'[r] = "handler" /\ SameGuard(r)
               \/ pc'[r] = "verdict" /\ ctx'[r].checked = TRUE /\ ~load.guard.send /\ ctx'[r].ext = ctx[r].ext
               \/ pc'[r] = "verdict" /\ ctx'[r].checked = TRUE /\ load.guard.send /\ ctx'[r].ext \in load.answers
               \/ pc'[r] = "classify" /\ ctx'[r].checked = TRUE /\ load.guard.send /\ ctx'[r].ext = ctx[r].ext)
  BY Zenon, <1>2, <1>3, <1>4, <1>5
<1>. QED  BY Zenon, <1>1, <1>6 DEF Rest

\* What an attempt at the classifier does: it answers, fails for good or is repeated.
LEMMA AttemptDoes ==
  ASSUME Shape, NEW r \in Reqs, Attempt(r)
  PROVE  /\ Only(r) /\ SameOutcome(r) /\ SameVoid(r) /\ SamePaid(r) /\ SameRate(r)
         /\ pc[r] = "classify" /\ ctx'[r].checked = ctx[r].checked
         /\ \/ pc'[r] = "classify" /\ ctx'[r].ext = ctx[r].ext
            \/ pc'[r] = "verdict" /\ ctx'[r].ext \in load.answers \cup {Unavailable}
<1> DEFINE Rest == Only(r) /\ SameOutcome(r) /\ SameVoid(r) /\ SamePaid(r) /\ SameRate(r) /\ ctx'[r].checked = ctx[r].checked
<1>1. pc[r] = "classify" /\ wl' = wl
  BY Zenon DEF Attempt
<1>2. \/ UNCHANGED pc /\ ctx' = [ctx EXCEPT ![r].attempt = @ + 1]
      \/ Goto(r, "verdict") /\ \E a \in load.answers \cup {Unavailable} : ctx' = [ctx EXCEPT ![r].ext = a]
  BY ONLY Attempt(r), Zenon DEF Attempt, Retry
<1> USE DEF Goto, Shape, Only, SameOutcome, SameVoid, SamePaid, SameRate, Fields, Stages
<1>3. UNCHANGED pc /\ ctx' = [ctx EXCEPT ![r].attempt = @ + 1] => Rest /\ pc'[r] = "classify" /\ ctx'[r].ext = ctx[r].ext
  BY Zenon, <1>1
<1>4. ASSUME NEW a \in load.answers \cup {Unavailable}, Goto(r, "verdict"), ctx' = [ctx EXCEPT ![r].ext = a]
      PROVE  Rest /\ pc'[r] = "verdict" /\ ctx'[r].ext = a
  BY Zenon, <1>1, <1>4
<1> HIDE DEF Rest, Goto
<1>5. Rest /\ (\/ pc'[r] = "classify" /\ ctx'[r].ext = ctx[r].ext
               \/ pc'[r] = "verdict" /\ ctx'[r].ext \in load.answers \cup {Unavailable})
  BY Zenon, <1>2, <1>3, <1>4
<1>. QED  BY Zenon, <1>1, <1>5 DEF Rest

\* What the verdict does: the handler is next, or the answer is 400 with a rule.
LEMMA JudgeDoes ==
  ASSUME Shape, NEW r \in Reqs, Judge(r)
  PROVE  /\ Only(r) /\ SameVoid(r) /\ SamePaid(r) /\ SameRate(r) /\ SameGuard(r)
         /\ ctx'[r].served = ctx[r].served /\ ctx'[r].panicked = ctx[r].panicked
         /\ pc[r] = "verdict"
         /\ \/ /\ pc'[r] = "handler" /\ ctx'[r].rule = ctx[r].rule /\ UNCHANGED <<log, missed>>
               /\ Verdict(r) = Unavailable \/ {} \in classificationToViolation(Verdict(r))
            \/ /\ pc'[r] = "post" /\ ctx'[r].status = 400 /\ ctx'[r].statusCode = 400
               /\ Verdict(r) # Unavailable
               /\ \E found \in classificationToViolation(Verdict(r)) : \E v \in found :
                    /\ ctx'[r].rule = v.rule
                    /\ MayAppend([req |-> r, type |-> "guardrail_violation", severity |-> v.severity, code |-> 0])
<1> DEFINE Rest == /\ Only(r) /\ SameVoid(r) /\ SamePaid(r) /\ SameRate(r) /\ SameGuard(r)
                   /\ ctx'[r].served = ctx[r].served /\ ctx'[r].panicked = ctx[r].panicked
           Viol(v) == MayAppend([req |-> r, type |-> "guardrail_violation", severity |-> v.severity, code |-> 0])
<1>1. pc[r] = "verdict" /\ wl' = wl
  BY Zenon DEF Judge
<1>2. \/ /\ Verdict(r) = Unavailable \/ {} \in classificationToViolation(Verdict(r))
         /\ Goto(r, "handler") /\ UNCHANGED ctx /\ UNCHANGED <<log, missed>>
      \/ \E found \in classificationToViolation(Verdict(r)) : \E v \in found :
           /\ Viol(v) /\ Goto(r, "post") /\ Verdict(r) # Unavailable
           /\ ctx' = [ctx EXCEPT ![r].status = 400, ![r].statusCode = 400, ![r].rule = v.rule]
  BY ONLY Judge(r), Zenon DEF Judge
<1> USE DEF Goto, Shape, Only, SameVoid, SamePaid, SameRate, SameGuard, Fields, Stages
<1>3. Goto(r, "handler") /\ UNCHANGED ctx => Rest /\ pc'[r] = "handler" /\ ctx'[r].rule = ctx[r].rule
  BY Zenon, <1>1
<1>4. ASSUME NEW v, Goto(r, "post"), ctx' = [ctx EXCEPT ![r].status = 400, ![r].statusCode = 400, ![r].rule = v.rule]
      PROVE  Rest /\ pc'[r] = "post" /\ ctx'[r].rule = v.rule /\ ctx'[r].status = 400 /\ ctx'[r].statusCode = 400
  BY <1>1, <1>4
<1> HIDE DEF Rest, Goto, Viol, Shape, Only, SameVoid, SamePaid, SameRate, SameGuard, Fields, Stages
<1>5. CASE /\ Verdict(r) = Unavailable \/ {} \in classificationToViolation(Verdict(r))
           /\ Goto(r, "handler") /\ UNCHANGED ctx /\ UNCHANGED <<log, missed>>
  <2>1. Rest /\ pc'[r] = "handler" /\ ctx'[r].rule = ctx[r].rule
    BY Zenon, <1>3, <1>5
  <2>. QED  BY Zenon, <1>1, <1>5, <2>1 DEF Rest
<1>6. CASE \E found \in classificationToViolation(Verdict(r)) : \E v \in found :
             /\ Viol(v) /\ Goto(r, "post") /\ Verdict(r) # Unavailable
             /\ ctx' = [ctx EXCEPT ![r].status = 400, ![r].statusCode = 400, ![r].rule = v.rule]
  <2>1. PICK found \in classificationToViolation(Verdict(r)) : \E v \in found :
          /\ Viol(v) /\ Goto(r, "post") /\ Verdict(r) # Unavailable
          /\ ctx' = [ctx EXCEPT ![r].status = 400, ![r].statusCode = 400, ![r].rule = v.rule]
    BY Zenon, <1>6
  <2>2. PICK v \in found :
          /\ Viol(v) /\ Goto(r, "post") /\ Verdict(r) # Unavailable
          /\ ctx' = [ctx EXCEPT ![r].status = 400, ![r].statusCode = 400, ![r].rule = v.rule]
    BY Zenon, <2>1
  <2>3. Rest /\ pc'[r] = "post" /\ ctx'[r].rule = v.rule /\ ctx'[r].status = 400 /\ ctx'[r].statusCode = 400
    BY Zenon, <1>4, <2>2
  <2>4. \E f \in classificationToViolation(Verdict(r)) : \E w \in f : ctx'[r].rule = w.rule /\ Viol(w)
    BY Zenon, <2>2, <2>3
  <2>. QED  BY Zenon, <1>1, <2>2, <2>3, <2>4 DEF Rest, Viol
<1>. QED  BY Zenon, <1>2, <1>5, <1>6

\* What the handler does: it answers or panics.
LEMMA HandleDoes ==
  ASSUME Shape, NEW r \in Reqs, Handle(r)
  PROVE  /\ Only(r) /\ SameVoid(r) /\ SamePaid(r) /\ SameRate(r) /\ SameGuard(r)
         /\ ctx'[r].served = TRUE /\ ctx'[r].rule = ctx[r].rule
         /\ pc[r] = "handler" /\ UNCHANGED <<log, missed>>
         /\ \/ /\ pc'[r] = "post" /\ ctx'[r].panicked = ctx[r].panicked
               /\ ctx'[r].status \in load.codes /\ ctx'[r].statusCode = ctx'[r].status
            \/ pc'[r] = "done" /\ ctx'[r].panicked = TRUE
<1> DEFINE Rest == /\ Only(r) /\ SameVoid(r) /\ SamePaid(r) /\ SameRate(r) /\ SameGuard(r)
                   /\ ctx'[r].served = TRUE /\ ctx'[r].rule = ctx[r].rule
<1>1. pc[r] = "handler" /\ wl' = wl /\ UNCHANGED <<log, missed>>
  BY Zenon DEF Handle
<1>2. \/ Goto(r, "post") /\ \E code \in load.codes :
           ctx' = [ctx EXCEPT ![r].status = code, ![r].statusCode = code, ![r].served = TRUE]
      \/ Goto(r, "done") /\ ctx' = [ctx EXCEPT ![r].status = 500, ![r].served = TRUE, ![r].panicked = TRUE]
  BY ONLY Handle(r), Zenon DEF Handle, WriteHeader
<1> USE DEF Goto, Shape, Only, SameVoid, SamePaid, SameRate, SameGuard, Fields, Stages
<1>3. ASSUME NEW code, Goto(r, "post"), ctx' = [ctx EXCEPT ![r].status = code, ![r].statusCode = code, ![r].served = TRUE]
      PROVE  Rest /\ pc'[r] = "post" /\ ctx'[r].panicked = ctx[r].panicked /\ ctx'[r].status = code /\ ctx'[r].statusCode = code
  BY Zenon, <1>1, <1>3
<1>4. Goto(r, "done") /\ ctx' = [ctx EXCEPT ![r].status = 500, ![r].served = TRUE, ![r].panicked = TRUE]
      => Rest /\ pc'[r] = "done" /\ ctx'[r].panicked = TRUE
  BY <1>1
<1> HIDE DEF Rest, Goto, Shape, Only, SameVoid, SamePaid, SameRate, SameGuard, Fields, Stages
<1>5. Rest /\ (\/ /\ pc'[r] = "post" /\ ctx'[r].panicked = ctx[r].panicked
                  /\ ctx'[r].status \in load.codes /\ ctx'[r].statusCode = ctx'[r].status
               \/ pc'[r] = "done" /\ ctx'[r].panicked = TRUE)
  BY Zenon, <1>2, <1>3, <1>4
<1>. QED  BY Zenon, <1>1, <1>5 DEF Rest

\* What the audit middleware does on the way out.
LEMMA AuditResponseDoes ==
  ASSUME Shape, NEW r \in Reqs, AuditResponse(r)
  PROVE  /\ Only(r) /\ ctx'[r] = ctx[r] /\ pc[r] = "post" /\ pc'[r] = "done"
         /\ MayAppend([req |-> r, type |-> "http_response", severity |-> Severity(ctx[r].statusCode),
                       code |-> ctx[r].statusCode])
  BY Zenon DEF AuditResponse, Goto, Shape, Only, Stages

\* What a change of a tenant's status does to a request: activation ends a suspension.
LEMMA SetTenantStatusDoes ==
  ASSUME Shape, NEW t \in Tenants, NEW st, SetTenantStatus(t, st), NEW r \in Reqs
  PROVE  /\ SameOutcome(r) /\ SamePaid(r) /\ SameRate(r) /\ SameGuard(r) /\ DOMAIN ctx'[r] = Fields
         /\ ctx'[r].blind = ctx[r].blind /\ ctx'[r].status = ctx[r].status /\ ctx'[r].statusCode = ctx[r].statusCode
         /\ IF st = "active" /\ r \in DOMAIN load.reqs /\ Req(r).tenant = t
              THEN ctx'[r].void = ctx[r].void \ {"tenant"} ELSE ctx'[r].void = ctx[r].void
<1>1. ctx'[r] = IF st = "active" /\ r \in DOMAIN load.reqs /\ Req(r).tenant = t
                  THEN [ctx[r] EXCEPT !.void = @ \ {"tenant"}] ELSE ctx[r]
  BY Zenon DEF SetTenantStatus
<1>2. DOMAIN ctx[r] = Fields
  BY Zenon DEF Shape
<1>. QED  BY Zenon, <1>1, <1>2 DEF SameOutcome, SamePaid, SameRate, SameGuard, Fields

\* A step of one request that keeps its flags keeps the shape.
LEMMA OnlyShape ==
  ASSUME Shape, NEW r \in Reqs, Only(r), pc[r] # "done", Flags(r)'
  PROVE  Shape'
<1>1. load' = load
  BY Zenon, LoadStays DEF Only
<1>2. ASSUME NEW q \in Reqs
      PROVE  DOMAIN ctx'[q] = Fields /\ Flags(q)' /\ (pc'[q] # "done" => q \in DOMAIN load'.reqs)
  <2>1. CASE q = r
    BY Zenon, <1>1, <2>1 DEF Only, Shape
  <2>2. CASE q # r
    <3>1. pc'[q] = pc[q] /\ ctx'[q] = ctx[q]
      BY Zenon, <2>2 DEF Only
    <3>. QED  BY Zenon, <1>1, <3>1 DEF Shape, Flags
  <2>. QED  BY Zenon, <2>1, <2>2
<1>. QED  BY Zenon, <1>2 DEF Only, Shape

\* Every step of a request keeps the shape and touches no other request.
LEMMA RequestShape ==
  ASSUME Shape, NEW r \in Reqs, RequestStep(r)
  PROVE  Shape' /\ Only(r) /\ UNCHANGED tenantStatus
<1> USE DEF Flags, SameOutcome, SameVoid, SamePaid, SameGuard
<1>1. Flags(r)
  BY Zenon DEF Shape
<1>2. Authenticate(r) => Only(r) /\ Flags(r)' /\ pc[r] # "done" /\ UNCHANGED tenantStatus
  BY Zenon, <1>1, AuthenticateDoes DEF Authenticate
<1>3. LookupTenant(r) => Only(r) /\ Flags(r)' /\ pc[r] # "done" /\ UNCHANGED tenantStatus
  BY Zenon, <1>1, LookupTenantDoes DEF LookupTenant
<1>4. CheckEnvelope(r) => Only(r) /\ Flags(r)' /\ pc[r] # "done" /\ UNCHANGED tenantStatus
  BY Zenon, <1>1, CheckEnvelopeDoes DEF CheckEnvelope
<1>5. CheckGeneration(r) => Only(r) /\ Flags(r)' /\ pc[r] # "done" /\ UNCHANGED tenantStatus
  BY Zenon, <1>1, CheckGenerationDoes DEF CheckGeneration
<1>6. CheckFanOut(r) => Only(r) /\ Flags(r)' /\ pc[r] # "done" /\ UNCHANGED tenantStatus
  BY Zenon, <1>1, CheckFanOutDoes DEF CheckFanOut
<1>7. SpendBudget(r) => Only(r) /\ Flags(r)' /\ pc[r] # "done" /\ UNCHANGED tenantStatus
  BY Zenon, <1>1, SpendBudgetDoes DEF SpendBudget
<1>8. ResolveLimits(r) => Only(r) /\ Flags(r)' /\ pc[r] # "done" /\ UNCHANGED tenantStatus
  BY Zenon, <1>1, ResolveLimitsDoes DEF ResolveLimits
<1>9. ASSUME NEW b \in Buckets, ChargeBucket(r, b)
      PROVE  Only(r) /\ Flags(r)' /\ pc[r] # "done" /\ UNCHANGED tenantStatus
  <2>1. b # "done"
    BY Zenon DEF Buckets
  <2>2. UNCHANGED tenantStatus
    BY Zenon, <1>9 DEF ChargeBucket
  <2>. QED  BY Zenon, <1>1, <1>9, <2>1, <2>2, ChargeBucketDoes
<1>10. AuditRequest(r) => Only(r) /\ Flags(r)' /\ pc[r] # "done" /\ UNCHANGED tenantStatus
  BY Zenon, <1>1, AuditRequestDoes DEF AuditRequest
<1>11. ReadBody(r) => Only(r) /\ Flags(r)' /\ pc[r] # "done" /\ UNCHANGED tenantStatus
  BY Zenon, <1>1, ReadBodyDoes DEF ReadBody
<1>12. Attempt(r) => Only(r) /\ Flags(r)' /\ pc[r] # "done" /\ UNCHANGED tenantStatus
  BY Zenon, <1>1, AttemptDoes DEF Attempt
<1>13. Judge(r) => Only(r) /\ Flags(r)' /\ pc[r] # "done" /\ UNCHANGED tenantStatus
  BY Zenon, <1>1, JudgeDoes DEF Judge
<1>14. Handle(r) => Only(r) /\ Flags(r)' /\ pc[r] # "done" /\ UNCHANGED tenantStatus
  BY Zenon, <1>1, HandleDoes DEF Handle
<1>15. AuditResponse(r) => Only(r) /\ Flags(r)' /\ pc[r] # "done" /\ UNCHANGED tenantStatus
  BY Zenon, <1>1, AuditResponseDoes DEF AuditResponse
<1> HIDE DEF Flags, SameOutcome, SameVoid, SamePaid, SameGuard
<1>16. Only(r) /\ Flags(r)' /\ pc[r] # "done" /\ UNCHANGED tenantStatus
  BY Zenon, <1>2, <1>3, <1>4, <1>5, <1>6, <1>7, <1>8, <1>9, <1>10, <1>11, <1>12, <1>13, <1>14, <1>15 DEF RequestStep
<1>. QED  BY Zenon, <1>16, OnlyShape

\* The administrators: one changes the contexts, and only what they are void for.
Elsewhere == UNCHANGED gateVars

\* The steps of the system by what they do to requests.
LEMMA StepKinds ==
  ASSUME [Next]_vars
  PROVE  \/ \E r \in Reqs : RequestStep(r)
         \/ \E t \in Tenants, st \in load.statuses : SetTenantStatus(t, st)
         \/ Elsewhere
<1>1. AdminStep => Elsewhere \/ \E t \in Tenants, st \in load.statuses : SetTenantStatus(t, st)
  BY Zenon DEF AdminStep, Elsewhere
<1>2. Finished \/ UNCHANGED vars => Elsewhere
  BY Zenon DEF Finished, vars, Elsewhere
<1>. QED  BY Zenon, <1>1, <1>2 DEF Next

\* Every step keeps the shape.
LEMMA ShapeStep ==
  ASSUME Shape, [Next]_vars
  PROVE  Shape'
<1>1. CASE Elsewhere
  BY Zenon, <1>1, LoadStays DEF Elsewhere, gateVars, Shape, Flags
<1>2. ASSUME NEW t \in Tenants, NEW st, SetTenantStatus(t, st)
      PROVE  Shape'
  <2>1. wl' = wl /\ pc' = pc /\ DOMAIN ctx' = Reqs
    BY Zenon, <1>2 DEF SetTenantStatus
  <2>2. load' = load
    BY Zenon, <2>1, LoadStays
  <2>3. \A r \in Reqs : DOMAIN ctx'[r] = Fields /\ Flags(r)'
    BY Zenon, <1>2, SetTenantStatusDoes DEF Shape, Flags, SameOutcome, SamePaid, SameGuard
  <2>. QED  BY Zenon, <2>1, <2>2, <2>3 DEF Shape
<1>. QED  BY Zenon, <1>1, <1>2, RequestShape, StepKinds

\* Both steps together.
LEMMA ShapeHolds == Spec => []Shape
<1>1. Shape /\ [Next]_vars => Shape'
  BY Zenon, ShapeStep
<1>. QED  BY <1>1, ShapeInit, PTL DEF Spec

-----------------------------------------------------------------------------
(* The audit trail *)

\* The response events of a request, appended or lost.
Told(r) == {e \in log \cup missed : e.req = r /\ e.type = "http_response"}

\* The event that tells what the client of a request saw.
Outcome(r) ==
  [req |-> r, type |-> "http_response", code |-> ctx[r].status,
   severity |-> IF ctx[r].status >= 500 THEN "critical"
                ELSE IF ctx[r].status >= 400 THEN "warn" ELSE "info"]

\* Nothing is told before the last step, which has the code from the wrapper and
\* finds it to be what the client got.
AuditSound(r) ==
  /\ pc[r] # "done" => Told(r) = {}
  /\ pc[r] \notin {"post", "done"} => ~ctx[r].served /\ ctx[r].rule = "" /\ ~ctx[r].panicked
  /\ pc[r] = "post" => /\ ctx[r].served \/ ctx[r].rule # ""
                       /\ ~ctx[r].panicked
                       /\ ctx[r].statusCode = ctx[r].status /\ ctx[r].status \in Nat
  /\ pc[r] = "done" => Told(r) = IF (ctx[r].served \/ ctx[r].rule # "") /\ ~ctx[r].panicked
                                   THEN {Outcome(r)} ELSE {}

\* An append adds its event to those of its request.
LEMMA ToldAfter ==
  ASSUME NEW e, MayAppend(e), NEW r
  PROVE  Told(r)' = IF e.req = r /\ e.type = "http_response" THEN Told(r) \cup {e} ELSE Told(r)
<1>1. log' \cup missed' = (log \cup missed) \cup {e}
  BY Zenon DEF MayAppend
<1>. QED  BY Zenon, <1>1 DEF Told

\* A step that appends nothing tells nothing.
LEMMA ToldStays ==
  ASSUME UNCHANGED <<log, missed>>, NEW r
  PROVE  Told(r)' = Told(r)
  BY Zenon DEF Told

\* What the severity of an event says of its code.
LEMMA SeverityTells ==
  ASSUME NEW code \in Nat
  PROVE  Severity(code) = IF code >= 500 THEN "critical" ELSE IF code >= 400 THEN "warn" ELSE "info"
  BY DEF Severity

\* A violation names its rule.
LEMMA ViolationNamed ==
  ASSUME NEW res, NEW found \in classificationToViolation(res), NEW v \in found
  PROVE  v.rule # ""
<1> DEFINE top == Top({c \in res.categories : c.detected /\ c.confidence > 0})
           Report(c) == IF c.category = "" THEN {}
                        ELSE {Violation(c.category, IF c.confidence >= c.threshold THEN "critical" ELSE "warn")}
<1>1. found \in IF res.violated /\ top # {} THEN {Report(c) : c \in top} ELSE {{}}
  BY Zenon DEF classificationToViolation
<1> HIDE DEF top
<1>2. PICK c \in top : found = Report(c)
  BY Zenon, <1>1
<1>3. c.category # "" /\ v = Violation(c.category, IF c.confidence >= c.threshold THEN "critical" ELSE "warn")
  BY Zenon, <1>2
<1>4. v.rule = c.category
  BY Zenon, <1>3 DEF Violation
<1>. QED  BY Zenon, <1>3, <1>4

\* The frame: the requests whose turn it is not.
LEMMA AuditFrame ==
  ASSUME NEW q \in Reqs, AuditSound(q), pc'[q] = pc[q], SameOutcome(q), Told(q)' = Told(q),
         ctx'[q].status = ctx[q].status, ctx'[q].statusCode = ctx[q].statusCode
  PROVE  AuditSound(q)'
<1>1. Outcome(q)' = Outcome(q)
  BY DEF Outcome
<1>. QED  BY Zenon, <1>1 DEF AuditSound, SameOutcome

\* A step before the answer, or a refusal.
LEMMA AuditEarly ==
  ASSUME NEW r \in Reqs, AuditSound(r), pc[r] \notin {"post", "done"}, pc'[r] # "post",
         SameOutcome(r), Told(r)' = Told(r)
  PROVE  AuditSound(r)'
  BY Zenon DEF AuditSound, SameOutcome

\* Every step of a request keeps what the log says of it and of the others.
LEMMA AuditRequestStep ==
  ASSUME Shape, NEW r \in Reqs, RequestStep(r), AuditSound(r)
  PROVE  AuditSound(r)' /\ \A q \in Reqs \ {r} : Told(q)' = Told(q)
<1> DEFINE Same == \A q : Told(q)' = Told(q)
           Early == pc[r] \notin {"post", "done"} /\ pc'[r] # "post" /\ SameOutcome(r) /\ Same
<1>1. Authenticate(r) => Early
  BY Zenon, ToldStays, AuthenticateDoes DEF Authenticate
<1>2. LookupTenant(r) => Early
  BY Zenon, ToldStays, LookupTenantDoes DEF LookupTenant
<1>3. CheckEnvelope(r) => Early
  BY Zenon, ToldStays, CheckEnvelopeDoes DEF CheckEnvelope
<1>4. CheckGeneration(r) => Early
  BY Zenon, ToldStays, CheckGenerationDoes DEF CheckGeneration
<1>5. CheckFanOut(r) => Early
  BY Zenon, ToldStays, CheckFanOutDoes DEF CheckFanOut
<1>6. SpendBudget(r) => Early
  BY Zenon, ToldStays, SpendBudgetDoes DEF SpendBudget
<1>7. ResolveLimits(r) => Early
  BY Zenon, ToldStays, ResolveLimitsDoes DEF ResolveLimits
<1>8. ASSUME NEW b \in Buckets, ChargeBucket(r, b) PROVE Early
  <2>1. b \notin {"post", "done"} /\ "post" \notin Buckets
    BY Zenon DEF Buckets
  <2>2. UNCHANGED <<log, missed>>
    BY Zenon, <1>8 DEF ChargeBucket
  <2>. QED  BY Zenon, <1>8, <2>1, <2>2, ToldStays, ChargeBucketDoes
<1>9. AuditRequest(r) => Early
  <2> SUFFICES ASSUME AuditRequest(r) PROVE Early
    BY Zenon
  <2> DEFINE e == [req |-> r, type |-> "http_request", severity |-> "info", code |-> 0]
  <2>1. e.type # "http_response"
    BY Zenon
  <2>2. MayAppend(e) /\ pc[r] = "audit" /\ pc'[r] \in {"guard", "handler"} /\ ctx'[r] = ctx[r]
    BY Zenon, AuditRequestDoes
  <2> HIDE DEF e
  <2>3. Same
    BY Zenon, <2>1, <2>2, ToldAfter
  <2>. QED  BY Zenon, <2>2, <2>3 DEF SameOutcome
<1>10. ReadBody(r) => Early
  BY Zenon, ToldStays, ReadBodyDoes DEF ReadBody
<1>11. Attempt(r) => Early
  BY Zenon, ToldStays, AttemptDoes DEF Attempt
<1>12. CASE Early
  BY Zenon, <1>12, AuditEarly
<1> HIDE DEF Early
<1>13. CASE Judge(r)
  <2>1. /\ pc[r] = "verdict" /\ ctx'[r].served = ctx[r].served /\ ctx'[r].panicked = ctx[r].panicked
        /\ ~ctx[r].served /\ ctx[r].rule = "" /\ ~ctx[r].panicked /\ Told(r) = {}
    BY Zenon, <1>13, JudgeDoes DEF AuditSound
  <2>2. CASE pc'[r] = "handler" /\ ctx'[r].rule = ctx[r].rule /\ UNCHANGED <<log, missed>>
    <3>1. Same
      BY Zenon, <2>2, ToldStays
    <3>. QED  BY Zenon, <2>1, <2>2, <3>1 DEF AuditSound
  <2>3. ASSUME pc'[r] = "post", ctx'[r].status = 400, ctx'[r].statusCode = 400,
               NEW found \in classificationToViolation(Verdict(r)), NEW v \in found, ctx'[r].rule = v.rule,
               MayAppend([req |-> r, type |-> "guardrail_violation", severity |-> v.severity, code |-> 0])
        PROVE  AuditSound(r)' /\ Same
    <3> DEFINE e == [req |-> r, type |-> "guardrail_violation", severity |-> v.severity, code |-> 0]
    <3>1. e.type # "http_response"
      BY Zenon
    <3>2. MayAppend(e)
      BY Zenon, <2>3
    <3> HIDE DEF e
    <3>3. Same
      BY Zenon, <3>1, <3>2, ToldAfter
    <3>4. v.rule # ""
      BY Zenon, ViolationNamed
    <3>5. 400 \in Nat
      OBVIOUS
    <3>. QED  BY Zenon, <2>1, <2>3, <3>3, <3>4, <3>5 DEF AuditSound
  <2>4. CASE pc'[r] # "handler"
    <3>1. /\ pc'[r] = "post" /\ ctx'[r].status = 400 /\ ctx'[r].statusCode = 400
          /\ \E found \in classificationToViolation(Verdict(r)) : \E v \in found :
               /\ ctx'[r].rule = v.rule
               /\ MayAppend([req |-> r, type |-> "guardrail_violation", severity |-> v.severity, code |-> 0])
      BY Zenon, <1>13, <2>4, JudgeDoes
    <3>. QED  BY Zenon, <2>3, <3>1
  <2>5. pc'[r] = "handler" => ctx'[r].rule = ctx[r].rule /\ UNCHANGED <<log, missed>>
    BY Zenon, <1>13, JudgeDoes
  <2>. QED  BY Zenon, <2>2, <2>4, <2>5
<1>14. CASE Handle(r)
  <2>1. /\ pc[r] = "handler" /\ ctx'[r].served = TRUE /\ UNCHANGED <<log, missed>>
        /\ ~ctx[r].panicked /\ Told(r) = {}
    BY Zenon, <1>14, HandleDoes DEF AuditSound
  <2>2. Same
    BY Zenon, <2>1, ToldStays
  <2>3. CASE pc'[r] = "post" /\ ctx'[r].panicked = ctx[r].panicked
             /\ ctx'[r].status \in load.codes /\ ctx'[r].statusCode = ctx'[r].status
    <3>1. load.codes \subseteq Nat
      BY Zenon, GatewayConstants DEF Shape, load
    <3>2. ctx'[r].status \in Nat
      BY Zenon, <2>3, <3>1
    <3>. QED  BY Zenon, <2>1, <2>2, <2>3, <3>2 DEF AuditSound
  <2>4. CASE pc'[r] = "done" /\ ctx'[r].panicked = TRUE
    BY Zenon, <2>1, <2>2, <2>4 DEF AuditSound
  <2>. QED  BY Zenon, <1>14, <2>3, <2>4, HandleDoes
<1>15. CASE AuditResponse(r)
  <2> DEFINE e == [req |-> r, type |-> "http_response", severity |-> Severity(ctx[r].statusCode),
                   code |-> ctx[r].statusCode]
  <2>1. pc[r] = "post" /\ pc'[r] = "done" /\ ctx'[r] = ctx[r] /\ MayAppend(e)
    BY Zenon, <1>15, AuditResponseDoes
  <2>2. e.type = "http_response" /\ e.req = r
    BY Zenon
  <2>3. /\ Told(r) = {}
        /\ ctx[r].served \/ ctx[r].rule # ""
        /\ ~ctx[r].panicked /\ ctx[r].statusCode = ctx[r].status /\ ctx[r].status \in Nat
    BY Zenon, <2>1 DEF AuditSound
  <2>4. Severity(ctx[r].statusCode) = IF ctx[r].status >= 500 THEN "critical"
                                      ELSE IF ctx[r].status >= 400 THEN "warn" ELSE "info"
    <3> DEFINE Sev(c) == IF c >= 500 THEN "critical" ELSE IF c >= 400 THEN "warn" ELSE "info"
    <3>1. \A c \in Nat : Severity(c) = Sev(c)
      BY Zenon, SeverityTells
    <3> HIDE DEF Sev
    <3>2. Severity(ctx[r].statusCode) = Sev(ctx[r].status)
      BY Zenon, <2>3, <3>1
    <3>. QED  BY Zenon, <3>2 DEF Sev
  <2>5. e = Outcome(r)
    BY Zenon, <2>3, <2>4 DEF Outcome
  <2> HIDE DEF e
  <2>6. Told(r)' = {e} /\ \A q \in Reqs \ {r} : Told(q)' = Told(q)
    <3>1. Told(r)' = Told(r) \cup {e}
      BY Zenon, <2>1, <2>2, ToldAfter
    <3>2. Told(r)' = {e}
      BY Zenon, <2>3, <3>1
    <3>. QED  BY Zenon, <2>1, <2>2, <3>2, ToldAfter
  <2>7. Outcome(r)' = Outcome(r)
    BY <2>1 DEF Outcome
  <2>. QED  BY Zenon, <2>1, <2>3, <2>5, <2>6, <2>7 DEF AuditSound
<1>. QED  BY Zenon, <1>1, <1>2, <1>3, <1>4, <1>5, <1>6, <1>7, <1>8, <1>9, <1>10, <1>11, <1>12, <1>13, <1>14, <1>15 DEF RequestStep

\* The inductive invariant of the outcomes.
AuditInv == Shape /\ \A r \in Reqs : AuditSound(r)

\* At first there is nothing to tell.
LEMMA AuditInvInit == Init => AuditInv
<1> SUFFICES ASSUME Init, NEW r \in Reqs PROVE AuditSound(r)
  BY Zenon, ShapeInit DEF AuditInv
<1>1. pc[r] \in {"start", "done"} /\ ctx[r] = FreshCtx /\ Told(r) = {}
  BY Zenon DEF Init, Told
<1>2. ~FreshCtx.served /\ FreshCtx.rule = "" /\ ~FreshCtx.panicked
  BY Zenon DEF FreshCtx
<1>. QED  BY Zenon, <1>1, <1>2 DEF AuditSound

\* Every step keeps the outcomes told.
LEMMA AuditInvStep ==
  ASSUME AuditInv, [Next]_vars
  PROVE  AuditInv'
<1>1. Shape /\ Shape'
  BY Zenon, ShapeStep DEF AuditInv
<1> SUFFICES ASSUME NEW q \in Reqs PROVE AuditSound(q)'
  BY Zenon, <1>1 DEF AuditInv
<1>2. AuditSound(q)
  BY Zenon DEF AuditInv
<1>3. ASSUME NEW r \in Reqs, RequestStep(r) PROVE AuditSound(q)'
  <2>1. Only(r) /\ AuditSound(r)
    BY Zenon, <1>1, <1>3, RequestShape DEF AuditInv
  <2>2. AuditSound(r)' /\ \A p \in Reqs \ {r} : Told(p)' = Told(p)
    BY Zenon, <1>1, <1>3, <2>1, AuditRequestStep
  <2>3. CASE q # r
    BY Zenon, <1>2, <2>1, <2>2, <2>3, AuditFrame DEF Only, SameOutcome
  <2>. QED  BY Zenon, <2>2, <2>3
<1>4. CASE Elsewhere
  <2>1. Told(q)' = Told(q)
    BY Zenon, <1>4, ToldStays DEF Elsewhere, gateVars
  <2>. QED  BY Zenon, <1>2, <1>4, <2>1, AuditFrame DEF Elsewhere, gateVars, SameOutcome
<1>5. ASSUME NEW t \in Tenants, NEW st, SetTenantStatus(t, st) PROVE AuditSound(q)'
  <2>1. Told(q)' = Told(q) /\ pc'[q] = pc[q]
    BY Zenon, <1>5, ToldStays DEF SetTenantStatus
  <2>. QED  BY Zenon, <1>1, <1>2, <1>5, <2>1, AuditFrame, SetTenantStatusDoes
<1>. QED  BY Zenon, <1>3, <1>4, <1>5, StepKinds

\* For any requests, handlers, verdicts and failures: a request that went through
\* the audit middleware to the end has one response event, which tells the status
\* that the client got, and no other request has one (audit.go:64-103).
THEOREM AuditTells == Spec => []AuditTellsOutcome
<1>1. AuditInv => AuditTellsOutcome
  <2> SUFFICES ASSUME AuditInv, NEW r \in Reqs
               PROVE  IF pc[r] = "done" /\ (ctx[r].served \/ ctx[r].rule # "") /\ ~ctx[r].panicked
                        THEN Told(r) = {Outcome(r)} ELSE Told(r) = {}
    BY Zenon DEF AuditTellsOutcome, Told, Outcome
  <2>. QED  BY Zenon DEF AuditInv, AuditSound
<1>2. AuditInv /\ [Next]_vars => AuditInv'
  BY Zenon, AuditInvStep
<1>. QED  BY <1>1, <1>2, AuditInvInit, PTL DEF Spec

-----------------------------------------------------------------------------
(* Revoked chains and suspended tenants *)

\* A grant that a revocation found has a generation below its chain's, forever:
\* the generation of a grant is read from the chain, which only grows.
KilledInv ==
  /\ row \in [Grants -> RowStatuses]
  /\ generation \in [Grants -> Nat]
  /\ killed \subseteq Grants
  /\ \A g \in Grants : generation[g] <= GetChainGeneration(Envelope[g].chain)
  /\ \A g \in killed : row[g] # "absent" /\ ChainRevoked(g)

\* The revoked rows of a chain.
Revoked(c) == {g \in InChain(c) : row[g] = "revoked"}

\* The generation of a chain is the number of its revoked rows.
LEMMA GenerationCounts ==
  ASSUME NEW c
  PROVE  /\ IsFiniteSet(Revoked(c)) /\ GetChainGeneration(c) \in Nat
         /\ GetChainGeneration(c) = Cardinality(Revoked(c))
<1>1. Revoked(c) \subseteq Grants
  BY Zenon DEF Revoked, InChain
<1>2. IsFiniteSet(Revoked(c))
  BY Zenon, <1>1, FS_Subset, DelegationConstants
<1>3. GetChainGeneration(c) = Cardinality(Revoked(c))
  BY Zenon DEF Revoked, GetChainGeneration
<1>. QED  BY Zenon, <1>2, <1>3, FS_CardinalityType

\* A step that revokes nothing leaves the generations of the chains alone.
LEMMA SameGenerations ==
  ASSUME \A g \in Grants : row'[g] = "revoked" <=> row[g] = "revoked"
  PROVE  \A c : GetChainGeneration(c)' = GetChainGeneration(c)
<1> SUFFICES ASSUME NEW c PROVE GetChainGeneration(c)' = GetChainGeneration(c)
  BY Zenon
<1>1. Revoked(c)' = Revoked(c)
  BY Zenon DEF Revoked, InChain
<1>. QED  BY Zenon, <1>1 DEF Revoked, GetChainGeneration

\* At first no chain was revoked.
LEMMA KilledInvInit == DelegationInit => KilledInv
<1> SUFFICES ASSUME DelegationInit PROVE KilledInv
  BY Zenon
<1>1. row \in [Grants -> RowStatuses] /\ generation \in [Grants -> Nat] /\ killed = {}
      /\ \A g \in Grants : generation[g] = 0
  BY Zenon DEF DelegationInit, RowStatuses
<1>2. \A g \in Grants : generation[g] <= GetChainGeneration(Envelope[g].chain)
  BY <1>1, GenerationCounts
<1>. QED  BY Zenon, <1>1, <1>2 DEF KilledInv

\* A generation read for a new grant is that of the rows.
LEMMA DraftKeepsKilled ==
  ASSUME KilledInv, NEW g \in Grants, Draft(g)
  PROVE  KilledInv'
<1> DEFINE n == GetChainGeneration(Envelope[g].chain)
<1>1. n \in Nat
  BY Zenon, GenerationCounts
<1>2. /\ row[g] = "absent" /\ row' = [row EXCEPT ![g] = "drafted"]
      /\ generation' = [generation EXCEPT ![g] = n] /\ killed' = killed
  BY Zenon DEF Draft
<1> HIDE DEF n
<1>3. row' \in [Grants -> RowStatuses] /\ generation' \in [Grants -> Nat]
  BY Zenon, <1>1, <1>2 DEF KilledInv, RowStatuses
<1>4. \A h \in Grants : row'[h] = "revoked" <=> row[h] = "revoked"
  BY Zenon, <1>2 DEF KilledInv
<1>5. \A c : GetChainGeneration(c)' = GetChainGeneration(c)
  BY Zenon, <1>4, SameGenerations
<1>6. ASSUME NEW h \in Grants
      PROVE  generation'[h] <= GetChainGeneration(Envelope[h].chain)'
  <2>1. GetChainGeneration(Envelope[h].chain)' = GetChainGeneration(Envelope[h].chain)
    BY Zenon, <1>5
  <2>2. generation'[h] = IF h = g THEN n ELSE generation[h]
    BY Zenon, <1>2 DEF KilledInv
  <2>3. n <= n
    BY <1>1
  <2>. QED  BY Zenon, <2>1, <2>2, <2>3 DEF KilledInv, n
<1>7. ASSUME NEW h \in killed
      PROVE  row'[h] # "absent" /\ ChainRevoked(h)'
  <2>1. h # g /\ h \in Grants /\ ChainRevoked(h) /\ row[h] # "absent"
    BY Zenon, <1>2 DEF KilledInv
  <2>2. generation'[h] = generation[h] /\ row'[h] = row[h]
    BY Zenon, <1>2, <2>1 DEF KilledInv
  <2>. QED  BY Zenon, <1>5, <2>1, <2>2 DEF ChainRevoked
<1>. QED  BY Zenon, <1>2, <1>3, <1>6, <1>7 DEF KilledInv

\* The rows change, no grant is revoked or taken back.
LEMMA KilledFrame ==
  ASSUME KilledInv, row' \in [Grants -> RowStatuses], UNCHANGED <<generation, killed>>,
         \A g \in Grants : /\ row'[g] = "revoked" <=> row[g] = "revoked"
                           /\ row[g] # "absent" => row'[g] # "absent"
  PROVE  KilledInv'
<1>1. \A c : GetChainGeneration(c)' = GetChainGeneration(c)
  BY Zenon, SameGenerations
<1>2. ASSUME NEW g \in killed PROVE row'[g] # "absent" /\ ChainRevoked(g)'
  BY Zenon, <1>1 DEF KilledInv, ChainRevoked
<1>3. ASSUME NEW g \in Grants PROVE generation'[g] <= GetChainGeneration(Envelope[g].chain)'
  BY Zenon, <1>1 DEF KilledInv
<1>. QED  BY Zenon, <1>2, <1>3 DEF KilledInv

\* A new row is not a revoked one.
LEMMA CreateKeepsKilled ==
  ASSUME KilledInv, NEW g \in Grants, Create(g)
  PROVE  KilledInv'
<1>1. Envelope[g].status \in {"issued", "active"}
  BY Zenon, DelegationConstants
<1>2. row' \in [Grants -> RowStatuses]
  BY Zenon, <1>1 DEF Create, KilledInv, RowStatuses
<1>3. \A h \in Grants : /\ row'[h] = "revoked" <=> row[h] = "revoked"
                        /\ row[h] # "absent" => row'[h] # "absent"
  BY Zenon, <1>1 DEF Create, KilledInv
<1>. QED  BY Zenon, <1>2, <1>3, KilledFrame DEF Create

\* A revocation raises the generation above that of the grants it revokes.
LEMMA RevokeKeepsKilled ==
  ASSUME KilledInv, NEW c, RevokeByChain(c)
  PROVE  KilledInv'
<1>1. PICK a \in InChain(c) : row[a] = "active"
  BY Zenon DEF RevokeByChain
<1>2. row' = [g \in Grants |-> IF g \in Revocable(c) THEN "revoked" ELSE row[g]]
  BY Zenon DEF RevokeByChain
<1>3. killed' = killed \cup {g \in InChain(c) : row[g] # "absent"} /\ generation' = generation
  BY Zenon DEF RevokeByChain
<1>4. row' \in [Grants -> RowStatuses]
  BY Zenon, <1>2 DEF KilledInv, RowStatuses
<1>5. \A g \in Grants : row[g] # "absent" => row'[g] # "absent"
  BY Zenon, <1>2
<1>6. ASSUME NEW d
      PROVE  /\ GetChainGeneration(d) <= GetChainGeneration(d)'
             /\ d = c => GetChainGeneration(d) < GetChainGeneration(d)'
  <2>1. Revoked(d) \subseteq Revoked(d)'
    BY Zenon, <1>2 DEF Revoked, InChain
  <2>2. IsFiniteSet(Revoked(d)') /\ GetChainGeneration(d)' = Cardinality(Revoked(d)')
    <3>1. Revoked(d)' \subseteq Grants
      BY Zenon DEF Revoked, InChain
    <3>2. GetChainGeneration(d)' = Cardinality(Revoked(d)')
      BY Zenon DEF Revoked, GetChainGeneration
    <3>. QED  BY Zenon, <3>1, <3>2, FS_Subset, DelegationConstants
  <2>3. /\ Cardinality(Revoked(d)) <= Cardinality(Revoked(d)')
        /\ Cardinality(Revoked(d)) = Cardinality(Revoked(d)') => Revoked(d) = Revoked(d)'
    BY Zenon, <2>1, <2>2, FS_Subset
  <2>4. ASSUME d = c PROVE Revoked(d) # Revoked(d)'
    <3>1. a \in Grants /\ a \in InChain(d) /\ a \in Revocable(c)
      BY Zenon, <1>1, <2>4 DEF InChain, Revocable
    <3>2. row'[a] = "revoked"
      BY Zenon, <1>2, <3>1
    <3>3. a \in Revoked(d)' /\ a \notin Revoked(d)
      BY Zenon, <1>1, <3>1, <3>2 DEF Revoked, InChain
    <3>. QED  BY Zenon, <3>3
  <2>5. GetChainGeneration(d) = Cardinality(Revoked(d)) /\ Cardinality(Revoked(d)) \in Nat
    BY Zenon, GenerationCounts
  <2>6. Cardinality(Revoked(d)') \in Nat
    BY Zenon, <2>2, FS_CardinalityType
  <2>. QED  BY <2>2, <2>3, <2>4, <2>5, <2>6
<1>7. \A d : GetChainGeneration(d) \in Nat
  BY Zenon, GenerationCounts
<1>8. \A d : GetChainGeneration(d)' \in Nat
  <2>1. SUFFICES ASSUME NEW d PROVE GetChainGeneration(d)' \in Nat
    BY Zenon
  <2>2. Revoked(d)' \subseteq Grants /\ GetChainGeneration(d)' = Cardinality(Revoked(d)')
    BY Zenon DEF Revoked, InChain, GetChainGeneration
  <2>. QED  BY Zenon, <2>2, FS_Subset, FS_CardinalityType, DelegationConstants
<1>9. ASSUME NEW g \in Grants
      PROVE  /\ generation'[g] <= GetChainGeneration(Envelope[g].chain)'
             /\ Envelope[g].chain = c \/ ChainRevoked(g) => ChainRevoked(g)'
  <2> SUFFICES ASSUME NEW n, n = GetChainGeneration(Envelope[g].chain),
                      NEW m, m = GetChainGeneration(Envelope[g].chain)'
               PROVE  /\ generation'[g] <= m
                      /\ Envelope[g].chain = c \/ generation[g] < n => generation'[g] < m
    BY Zenon DEF ChainRevoked
  <2>1. n \in Nat /\ m \in Nat /\ n <= m /\ (Envelope[g].chain = c => n < m)
    BY Zenon, <1>6, <1>7, <1>8
  <2>2. generation[g] \in Nat /\ generation[g] <= n /\ generation'[g] = generation[g]
    BY Zenon, <1>3 DEF KilledInv
  <2>. QED  BY <2>1, <2>2
<1>10. killed' \subseteq Grants
  BY Zenon, <1>3 DEF KilledInv, InChain
<1>11. ASSUME NEW g \in killed' PROVE row'[g] # "absent" /\ ChainRevoked(g)'
  <2>1. CASE g \in killed
    BY Zenon, <1>5, <1>9, <2>1 DEF KilledInv
  <2>2. CASE g \in InChain(c) /\ row[g] # "absent"
    BY Zenon, <1>5, <1>9, <2>2 DEF InChain
  <2>. QED  BY Zenon, <1>3, <1>11, <2>1, <2>2
<1>. QED  BY Zenon, <1>3, <1>4, <1>9, <1>10, <1>11 DEF KilledInv

\* Requests change of the grants no more than the pools.
LEMMA RequestGrants ==
  ASSUME NEW r \in Reqs, RequestStep(r), Shape
  PROVE  UNCHANGED <<row, generation, lapsed, killed, funded>>
<1> DEFINE Kept == UNCHANGED <<row, generation, lapsed, killed, funded>>
<1>1. UNCHANGED grantVars => Kept
  BY Zenon DEF grantVars
<1>2. \A c : Spend(c) => Kept
  BY Zenon DEF Spend
<1> HIDE DEF Kept
<1>3. Authenticate(r) \/ LookupTenant(r) \/ CheckEnvelope(r) \/ CheckGeneration(r) \/ CheckFanOut(r) => UNCHANGED grantVars
  BY Zenon DEF Authenticate, LookupTenant, CheckEnvelope, CheckGeneration, CheckFanOut
<1>4. ResolveLimits(r) \/ AuditRequest(r) \/ ReadBody(r) \/ Attempt(r) \/ Judge(r) => UNCHANGED grantVars
  BY Zenon DEF ResolveLimits, AuditRequest, ReadBody, Attempt, Judge
<1>5. Handle(r) \/ AuditResponse(r) \/ (\E b \in Buckets : ChargeBucket(r, b)) => UNCHANGED grantVars
  BY Zenon DEF Handle, AuditResponse, ChargeBucket
<1>6. SpendBudget(r) => Kept
  BY Zenon, <1>1, <1>2, SpendBudgetDoes
<1>7. Kept
  BY Zenon, <1>1, <1>3, <1>4, <1>5, <1>6 DEF RequestStep
<1>. QED  BY Zenon, <1>7 DEF Kept

\* Every step keeps it: what was revoked stays revoked.
LEMMA KilledInvStep ==
  ASSUME Shape, KilledInv, [Next]_vars
  PROVE  KilledInv' /\ killed \subseteq killed'
<1>1. CASE UNCHANGED <<row, generation, killed>>
  BY Zenon, <1>1, KilledFrame DEF KilledInv
<1>2. load.issues \subseteq Grants
  BY Zenon, GatewayConstants DEF Shape, load
<1>3. ASSUME NEW g \in Grants, Draft(g) \/ Create(g) PROVE KilledInv' /\ killed' = killed
  <2>1. killed' = killed
    BY Zenon, <1>3 DEF Draft, Create
  <2>. QED  BY Zenon, <1>3, <2>1, DraftKeepsKilled, CreateKeepsKilled
<1>4. ASSUME NEW c, RevokeByChain(c) PROVE KilledInv' /\ killed \subseteq killed'
  <2>1. killed \subseteq killed'
    BY Zenon, <1>4 DEF RevokeByChain
  <2>. QED  BY Zenon, <1>4, <2>1, RevokeKeepsKilled
<1>5. ASSUME NEW r \in Reqs, RequestStep(r) PROVE UNCHANGED <<row, generation, killed>>
  BY Zenon, <1>5, RequestGrants
<1>6. AdminStep => \/ \E g \in Grants : Draft(g) \/ Create(g)
                   \/ \E c : RevokeByChain(c)
                   \/ UNCHANGED <<row, generation, killed>>
  <2>1. (\E t \in Tenants, st \in load.statuses : SetTenantStatus(t, st)) => UNCHANGED <<row, generation, killed>>
    BY Zenon DEF SetTenantStatus, grantVars
  <2>2. (\E c \in load.revokes : InitBudget(c)) \/ (\E g \in load.lapses : Lapse(g)) => UNCHANGED <<row, generation, killed>>
    BY Zenon DEF InitBudget, Lapse
  <2>3. UNCHANGED grantVars => UNCHANGED <<row, generation, killed>>
    BY Zenon DEF grantVars
  <2>. QED  BY Zenon, <1>2, <2>1, <2>2, <2>3 DEF AdminStep
<1>7. Finished \/ UNCHANGED vars => UNCHANGED <<row, generation, killed>>
  BY Zenon DEF Finished, vars, grantVars
<1>. QED  BY Zenon, <1>1, <1>3, <1>4, <1>5, <1>6, <1>7 DEF Next

\* What a request is void for is noticed by the stage that asks for it: the tenant's
\* status, then the chain's generation, unless that could not be read.
VoidSound(r) ==
  /\ pc[r] = "start" => ctx[r].void = {}
  /\ "tenant" \in ctx[r].void =>
       /\ pc[r] \in {"tenant", "done"} /\ ~ctx[r].served
       /\ pc[r] = "tenant" => tenantStatus[Req(r).tenant] # "active"
  /\ "chain" \in ctx[r].void =>
       /\ Req(r).grant \in killed
       /\ \/ pc[r] \in {"tenant", "envelope", "generation"}
          \/ ctx[r].blind
          \/ pc[r] = "done" /\ ~ctx[r].served

\* Every step of a request keeps what is known of its being void.
LEMMA VoidRequestStep ==
  ASSUME Shape, KilledInv, NEW r \in Reqs, RequestStep(r), AuditSound(r), VoidSound(r)
  PROVE  VoidSound(r)'
<1>1. killed' = killed /\ tenantStatus' = tenantStatus /\ Req(r)' = Req(r)
  BY Zenon, RequestGrants, RequestShape, LoadStays DEF Only
<1>2. "done" \notin Buckets /\ "audit" \notin {"start", "tenant", "done"}
  BY Zenon DEF Buckets
<1>3. pc[r] \notin {"post", "done"} => ~ctx[r].served
  BY Zenon DEF AuditSound
<1> DEFINE Fixed == SameVoid(r) /\ pc'[r] # "start"
           Unserved == ctx'[r].served = ctx[r].served
           Late == {"fanout", "budget", "limits", "audit", "guard", "classify", "verdict"} \cup Buckets
<1>4. ASSUME pc[r] \in Late, Fixed, Unserved, pc'[r] \in Late \cup {"handler", "post", "done"}
      PROVE  VoidSound(r)'
  <2>1. pc[r] \notin {"tenant", "envelope", "generation", "done", "post"}
    BY Zenon, <1>4 DEF Buckets
  <2>. QED  BY Zenon, <1>1, <1>3, <1>4, <2>1 DEF VoidSound, SameVoid
<1>5. Authenticate(r) => VoidSound(r)'
  <2> SUFFICES ASSUME Authenticate(r) PROVE VoidSound(r)'
    BY Zenon
  <2>1. pc[r] = "start" /\ pc'[r] \in {"tenant", "done"} /\ ctx'[r].served = ctx[r].served
    BY Zenon, AuthenticateDoes DEF SameOutcome
  <2>2. CASE pc'[r] = "done"
    <3>1. ctx'[r].void = {}
      BY Zenon, <2>1, <2>2, AuthenticateDoes DEF VoidSound
    <3>. QED  BY Zenon, <2>2, <3>1 DEF VoidSound
  <2>3. CASE pc'[r] = "tenant"
    <3>1. /\ "tenant" \in ctx'[r].void => tenantStatus[Req(r).tenant] = "suspended"
          /\ "chain" \in ctx'[r].void => Req(r).grant \in killed
      BY Zenon, <2>3, AuthenticateDoes
    <3>. QED  BY Zenon, <1>1, <1>3, <2>1, <2>3, <3>1 DEF VoidSound
  <2>. QED  BY Zenon, <2>1, <2>2, <2>3
<1>6. LookupTenant(r) => VoidSound(r)'
  <2> SUFFICES ASSUME LookupTenant(r) PROVE VoidSound(r)'
    BY Zenon
  <2>1. /\ pc[r] = "tenant" /\ pc'[r] \in {"limits", "envelope", "done"} /\ ctx'[r].served = ctx[r].served
        /\ pc'[r] # "done" => tenantStatus[Req(r).tenant] = "active"
        /\ pc'[r] = "limits" => Req(r).grant = NoGrant
        /\ ctx'[r].void = ctx[r].void /\ ctx'[r].blind = ctx[r].blind
    BY Zenon, LookupTenantDoes DEF SameOutcome, SameVoid
  <2>2. "chain" \in ctx[r].void => Req(r).grant # NoGrant
    BY Zenon, DelegationConstants DEF VoidSound, KilledInv
  <2>3. ~ctx'[r].served
    BY Zenon, <1>3, <2>1
  <2>. QED  BY Zenon, <1>1, <2>1, <2>2, <2>3 DEF VoidSound
<1>7. CheckEnvelope(r) => VoidSound(r)'
  <2> SUFFICES ASSUME CheckEnvelope(r) PROVE VoidSound(r)'
    BY Zenon
  <2>1. /\ pc[r] = "envelope" /\ pc'[r] \in {"generation", "done"} /\ ctx'[r].served = ctx[r].served
        /\ ctx'[r].void = ctx[r].void /\ ctx'[r].blind = ctx[r].blind
    BY Zenon, CheckEnvelopeDoes DEF SameOutcome, SameVoid
  <2>2. ~ctx'[r].served
    BY Zenon, <1>3, <2>1
  <2>. QED  BY Zenon, <1>1, <2>1, <2>2 DEF VoidSound
<1>8. CheckGeneration(r) => VoidSound(r)'
  <2> SUFFICES ASSUME CheckGeneration(r) PROVE VoidSound(r)'
    BY Zenon
  <2>1. /\ pc[r] = "generation" /\ pc'[r] \in {"budget", "fanout", "done"} /\ ctx'[r].served = ctx[r].served
        /\ ctx'[r].void = ctx[r].void /\ (ctx[r].blind => ctx'[r].blind)
        /\ pc'[r] # "done" => ctx'[r].blind \/ ~ChainRevoked(Req(r).grant)
    BY Zenon, CheckGenerationDoes DEF SameOutcome
  <2>2. "chain" \in ctx[r].void => ChainRevoked(Req(r).grant)
    BY Zenon DEF VoidSound, KilledInv
  <2>3. ~ctx'[r].served
    BY Zenon, <1>3, <2>1
  <2>. QED  BY Zenon, <1>1, <2>1, <2>2, <2>3 DEF VoidSound
<1>9. CheckFanOut(r) => VoidSound(r)'
  BY Zenon, <1>4, CheckFanOutDoes DEF SameOutcome
<1>10. SpendBudget(r) => VoidSound(r)'
  BY Zenon, <1>4, SpendBudgetDoes DEF SameOutcome
<1>11. ResolveLimits(r) => VoidSound(r)'
  BY Zenon, <1>4, ResolveLimitsDoes DEF SameOutcome, Buckets
<1>12. ASSUME NEW b \in Buckets, ChargeBucket(r, b) PROVE VoidSound(r)'
  <2>1. "start" \notin Buckets
    BY Zenon DEF Buckets
  <2>. QED  BY Zenon, <1>4, <1>12, <2>1, ChargeBucketDoes DEF SameOutcome
<1>13. AuditRequest(r) => VoidSound(r)'
  BY Zenon, <1>4, AuditRequestDoes DEF SameVoid
<1>14. ReadBody(r) => VoidSound(r)'
  BY Zenon, <1>4, ReadBodyDoes DEF SameOutcome
<1>15. Attempt(r) => VoidSound(r)'
  BY Zenon, <1>4, AttemptDoes DEF SameOutcome
<1>16. Judge(r) => VoidSound(r)'
  BY Zenon, <1>4, JudgeDoes
<1>17. Handle(r) => VoidSound(r)'
  <2> SUFFICES ASSUME Handle(r) PROVE VoidSound(r)'
    BY Zenon
  <2>1. pc[r] = "handler" /\ pc'[r] \in {"post", "done"} /\ SameVoid(r)
    BY Zenon, HandleDoes
  <2>. QED  BY Zenon, <1>1, <2>1 DEF VoidSound, SameVoid
<1>18. AuditResponse(r) => VoidSound(r)'
  <2> SUFFICES ASSUME AuditResponse(r) PROVE VoidSound(r)'
    BY Zenon
  <2>1. pc[r] = "post" /\ pc'[r] = "done" /\ ctx'[r] = ctx[r]
    BY Zenon, AuditResponseDoes
  <2>. QED  BY Zenon, <1>1, <2>1 DEF VoidSound
<1> HIDE DEF Fixed, Unserved, Late
<1>. QED  BY Zenon, <1>5, <1>6, <1>7, <1>8, <1>9, <1>10, <1>11, <1>12, <1>13, <1>14, <1>15, <1>16, <1>17, <1>18 DEF RequestStep

\* The inductive invariant of void requests.
VoidInv == AuditInv /\ KilledInv /\ \A r \in Reqs : VoidSound(r)

\* At first no request is void.
LEMMA VoidInvInit == Init => VoidInv
<1> SUFFICES ASSUME Init, NEW r \in Reqs PROVE VoidSound(r)
  BY Zenon, AuditInvInit, KilledInvInit DEF VoidInv, Init
<1>1. ctx[r] = FreshCtx /\ FreshCtx.void = {}
  BY Zenon DEF Init, FreshCtx
<1>. QED  BY Zenon, <1>1 DEF VoidSound

\* Every step keeps it.
LEMMA VoidInvStep ==
  ASSUME VoidInv, [Next]_vars
  PROVE  VoidInv'
<1>1. AuditInv /\ Shape /\ KilledInv
  BY Zenon DEF VoidInv, AuditInv
<1>2. AuditInv' /\ KilledInv' /\ killed \subseteq killed'
  BY Zenon, <1>1, AuditInvStep, KilledInvStep
<1> SUFFICES ASSUME NEW q \in Reqs PROVE VoidSound(q)'
  BY Zenon, <1>2 DEF VoidInv
<1>3. VoidSound(q)
  BY Zenon DEF VoidInv
<1>4. ASSUME Req(q)' = Req(q), tenantStatus' = tenantStatus, pc'[q] = pc[q], ctx'[q] = ctx[q]
      PROVE  VoidSound(q)'
  BY Zenon, <1>2, <1>3, <1>4 DEF VoidSound
<1>5. ASSUME NEW r \in Reqs, RequestStep(r) PROVE VoidSound(q)'
  <2>1. Only(r) /\ tenantStatus' = tenantStatus /\ Req(q)' = Req(q)
    BY Zenon, <1>1, <1>5, RequestShape, LoadStays DEF Only
  <2>2. CASE q = r
    BY Zenon, <1>1, <1>5, <2>2, VoidRequestStep DEF VoidInv, AuditInv
  <2>3. CASE q # r
    BY Zenon, <1>4, <2>1, <2>3 DEF Only
  <2>. QED  BY Zenon, <2>2, <2>3
<1>6. CASE Elsewhere
  BY Zenon, <1>4, <1>6, LoadStays DEF Elsewhere, gateVars
<1>7. ASSUME NEW t \in Tenants, NEW st, SetTenantStatus(t, st) PROVE VoidSound(q)'
  <2>1. Req(q)' = Req(q) /\ pc'[q] = pc[q]
    BY Zenon, <1>7, LoadStays DEF SetTenantStatus
  <2>2. \A u : (u # t \/ st # "active") /\ tenantStatus[u] # "active" => tenantStatus'[u] # "active"
    BY <1>7 DEF SetTenantStatus
  <2>3. ctx'[q].served = ctx[q].served /\ ctx'[q].blind = ctx[q].blind
    BY Zenon, <1>1, <1>7, SetTenantStatusDoes DEF SameOutcome
  <2>4. CASE st = "active" /\ q \in DOMAIN load.reqs /\ Req(q).tenant = t
    <3>1. ctx'[q].void = ctx[q].void \ {"tenant"}
      BY Zenon, <1>1, <1>7, <2>4, SetTenantStatusDoes
    <3>2. /\ "tenant" \notin ctx'[q].void
          /\ "chain" \in ctx'[q].void => "chain" \in ctx[q].void
          /\ ctx[q].void = {} => ctx'[q].void = {}
      BY Zenon, <3>1
    <3>. QED  BY Zenon, <1>2, <1>3, <2>1, <2>3, <3>2 DEF VoidSound
  <2>5. CASE ~(st = "active" /\ q \in DOMAIN load.reqs /\ Req(q).tenant = t)
    <3>1. ctx'[q].void = ctx[q].void
      BY Zenon, <1>1, <1>7, <2>5, SetTenantStatusDoes
    <3>2. pc[q] = "tenant" => q \in DOMAIN load.reqs
      BY Zenon, <1>1 DEF Shape
    <3>3. pc[q] = "tenant" /\ tenantStatus[Req(q).tenant] # "active" => tenantStatus'[Req(q).tenant] # "active"
      BY Zenon, <2>2, <2>5, <3>2
    <3>. QED  BY Zenon, <1>2, <1>3, <2>1, <2>3, <3>1, <3>3 DEF VoidSound
  <2>. QED  BY Zenon, <2>4, <2>5
<1>. QED  BY Zenon, <1>5, <1>6, <1>7, StepKinds

\* For any requests, grants and administrators: a request whose tenant is suspended
\* all the while is not served, nor one with a grant that was revoked before it
\* came, unless the generation could not be read (tenant.go:50-81,
\* delegation.go:152-168).
THEOREM VoidRefused == Spec => []VoidRequestRefused
<1>1. VoidInv => VoidRequestRefused
  <2> SUFFICES ASSUME VoidInv, NEW r \in Reqs, ctx[r].served
               PROVE  "tenant" \notin ctx[r].void /\ ("chain" \in ctx[r].void => ctx[r].blind)
    BY Zenon DEF VoidRequestRefused
  <2>1. VoidSound(r) /\ AuditSound(r)
    BY Zenon DEF VoidInv, AuditInv
  <2>2. pc[r] \in {"post", "done"}
    BY Zenon, <2>1 DEF AuditSound
  <2>. QED  BY Zenon, <2>1, <2>2 DEF VoidSound
<1>2. VoidInv /\ [Next]_vars => VoidInv'
  BY Zenon, VoidInvStep
<1>. QED  BY <1>1, <1>2, VoidInvInit, PTL DEF Spec

-----------------------------------------------------------------------------
(* Budgets *)

\* The requests that paid from the budget of a chain.
Payers(c) == {r \in Reqs : ctx[r].paid /\ Envelope[Req(r).grant].chain = c}

\* The stages up to the budget.
Unpaid == {"start", "tenant", "envelope", "generation", "fanout", "budget"}

\* A request pays once, at the stage that has a grant for it.
BudgetSound(r) ==
  /\ pc[r] \in Unpaid => ~ctx[r].paid
  /\ pc[r] \in Unpaid \ {"start", "tenant"} => Req(r).grant \in Grants

\* The inductive invariant of the budgets.
BudgetInv ==
  /\ Shape
  /\ pool \in [Chains -> Nat] /\ funded \in [Chains -> Nat]
  /\ \A r \in Reqs : BudgetSound(r)
  /\ BudgetNeverOverdrawn

\* There are finitely many payers.
LEMMA PayersCounted ==
  ASSUME NEW c
  PROVE  IsFiniteSet(Payers(c)) /\ Cardinality(Payers(c)) \in Nat
<1>1. Payers(c) \subseteq Reqs
  BY Zenon DEF Payers
<1>2. IsFiniteSet(Payers(c))
  BY Zenon, <1>1, FS_Subset, GatewayConstants
<1>. QED  BY Zenon, <1>2, FS_CardinalityType

\* BudgetNeverOverdrawn in terms of the payers.
LEMMA NotOverdrawn ==
  BudgetNeverOverdrawn <=> \A c \in Chains : Cardinality(Payers(c)) + pool[c] <= funded[c]
  BY Zenon DEF BudgetNeverOverdrawn, Payers

\* At first nobody has paid.
LEMMA BudgetInvInit == Init => BudgetInv
<1> SUFFICES ASSUME Init PROVE BudgetInv
  BY Zenon
<1>1. /\ pool \in [Chains -> Nat] /\ funded \in [Chains -> Nat]
      /\ \A c \in Chains : pool[c] = 0 /\ funded[c] = 0
  BY Zenon DEF Init, DelegationInit
<1>2. \A r \in Reqs : ~ctx[r].paid /\ pc[r] \in {"start", "done"}
  BY Zenon DEF Init, FreshCtx
<1>3. \A c : Payers(c) = {}
  BY Zenon, <1>2 DEF Payers
<1>4. Cardinality({}) = 0
  BY Zenon, FS_EmptySet
<1>5. \A c \in Chains : Cardinality(Payers(c)) + pool[c] <= funded[c]
  BY <1>1, <1>3, <1>4
<1>6. \A r \in Reqs : BudgetSound(r)
  BY Zenon, <1>2 DEF BudgetSound, Unpaid
<1>. QED  BY Zenon, <1>1, <1>5, <1>6, ShapeInit, NotOverdrawn DEF BudgetInv

\* A step of r that does not pay, and one that may.
LEMMA BudgetRequestStep ==
  ASSUME Shape, NEW r \in Reqs, RequestStep(r), BudgetSound(r)
  PROVE  /\ BudgetSound(r)'
         /\ \/ SamePaid(r) /\ UNCHANGED grantVars
            \/ pc[r] = "budget" /\ Spend(Envelope[Req(r).grant].chain) /\ (SamePaid(r) \/ ctx'[r].paid)
<1>1. Only(r) /\ Req(r)' = Req(r)
  BY Zenon, RequestShape, LoadStays DEF Only
<1>2. ASSUME pc'[r] \notin Unpaid PROVE BudgetSound(r)'
  BY Zenon, <1>2 DEF BudgetSound
<1>3. {"limits", "requests", "tokens", "tool_execs", "audit", "guard", "classify", "verdict", "handler", "post", "done"} \cap Unpaid = {}
      /\ Buckets \cap Unpaid = {}
  BY Zenon DEF Unpaid, Buckets
<1> DEFINE Free == SamePaid(r) /\ UNCHANGED grantVars
<1>4. Authenticate(r) => Free /\ BudgetSound(r)'
  <2> SUFFICES ASSUME Authenticate(r) PROVE Free /\ BudgetSound(r)'
    BY Zenon
  <2>1. Free /\ pc[r] = "start" /\ pc'[r] \in {"tenant", "done"}
    BY Zenon, AuthenticateDoes DEF Authenticate
  <2>. QED  BY Zenon, <2>1 DEF BudgetSound, SamePaid, Unpaid
<1>5. LookupTenant(r) => Free /\ BudgetSound(r)'
  <2> SUFFICES ASSUME LookupTenant(r) PROVE Free /\ BudgetSound(r)'
    BY Zenon
  <2>1. Free /\ pc[r] = "tenant" /\ pc'[r] \in {"limits", "envelope", "done"}
        /\ (pc'[r] = "envelope" => Req(r).grant # NoGrant)
    BY Zenon, LookupTenantDoes DEF LookupTenant
  <2>2. Req(r).grant \in Grants \cup {NoGrant}
    <3>1. r \in DOMAIN load.reqs /\ wl \in DOMAIN Workloads
      BY Zenon, <2>1 DEF Shape
    <3>. QED  BY Zenon, <3>1, GatewayConstants DEF load, Req
  <2>. QED  BY Zenon, <1>1, <2>1, <2>2 DEF BudgetSound, SamePaid, Unpaid
<1>6. CheckEnvelope(r) => Free /\ BudgetSound(r)'
  <2> SUFFICES ASSUME CheckEnvelope(r) PROVE Free /\ BudgetSound(r)'
    BY Zenon
  <2>1. Free /\ pc[r] = "envelope" /\ pc'[r] \in {"generation", "done"}
    BY Zenon, CheckEnvelopeDoes DEF CheckEnvelope
  <2>. QED  BY Zenon, <1>1, <2>1 DEF BudgetSound, SamePaid, Unpaid
<1>7. CheckGeneration(r) => Free /\ BudgetSound(r)'
  <2> SUFFICES ASSUME CheckGeneration(r) PROVE Free /\ BudgetSound(r)'
    BY Zenon
  <2>1. Free /\ pc[r] = "generation" /\ pc'[r] \in {"budget", "fanout", "done"}
    BY Zenon, CheckGenerationDoes DEF CheckGeneration
  <2>. QED  BY Zenon, <1>1, <2>1 DEF BudgetSound, SamePaid, Unpaid
<1>8. CheckFanOut(r) => Free /\ BudgetSound(r)'
  <2> SUFFICES ASSUME CheckFanOut(r) PROVE Free /\ BudgetSound(r)'
    BY Zenon
  <2>1. Free /\ pc[r] = "fanout" /\ pc'[r] \in {"budget", "done"}
    BY Zenon, CheckFanOutDoes DEF CheckFanOut
  <2>. QED  BY Zenon, <1>1, <2>1 DEF BudgetSound, SamePaid, Unpaid
<1>9. SpendBudget(r) => /\ BudgetSound(r)'
                        /\ \/ Free
                           \/ pc[r] = "budget" /\ Spend(Envelope[Req(r).grant].chain) /\ (SamePaid(r) \/ ctx'[r].paid)
  <2> SUFFICES ASSUME SpendBudget(r) PROVE /\ BudgetSound(r)'
                        /\ \/ Free
                           \/ pc[r] = "budget" /\ Spend(Envelope[Req(r).grant].chain) /\ (SamePaid(r) \/ ctx'[r].paid)
    BY Zenon
  <2>1. BudgetSound(r)'
    BY Zenon, <1>2, <1>3, SpendBudgetDoes
  <2>. QED  BY Zenon, <2>1, SpendBudgetDoes
<1>10. ResolveLimits(r) => Free /\ BudgetSound(r)'
  BY Zenon, <1>2, <1>3, ResolveLimitsDoes DEF ResolveLimits
<1>11. ASSUME NEW b \in Buckets, ChargeBucket(r, b) PROVE Free /\ BudgetSound(r)'
  <2>1. UNCHANGED grantVars
    BY Zenon, <1>11 DEF ChargeBucket
  <2>2. SamePaid(r) /\ pc'[r] \in Buckets \cup {"audit", "done"}
    BY Zenon, <1>11, ChargeBucketDoes
  <2>. QED  BY Zenon, <1>2, <1>3, <2>1, <2>2
<1>12. AuditRequest(r) => Free /\ BudgetSound(r)'
  BY Zenon, <1>2, <1>3, AuditRequestDoes DEF AuditRequest, SamePaid
<1>13. ReadBody(r) => Free /\ BudgetSound(r)'
  BY Zenon, <1>2, <1>3, ReadBodyDoes DEF ReadBody
<1>14. Attempt(r) => Free /\ BudgetSound(r)'
  BY Zenon, <1>2, <1>3, AttemptDoes DEF Attempt
<1>15. Judge(r) => Free /\ BudgetSound(r)'
  <2> SUFFICES ASSUME Judge(r) PROVE Free /\ BudgetSound(r)'
    BY Zenon
  <2>1. UNCHANGED grantVars
    BY Zenon DEF Judge
  <2>2. SamePaid(r) /\ pc'[r] \in {"handler", "post"}
    BY Zenon, JudgeDoes
  <2>. QED  BY Zenon, <1>2, <1>3, <2>1, <2>2
<1>16. Handle(r) => Free /\ BudgetSound(r)'
  BY Zenon, <1>2, <1>3, HandleDoes DEF Handle
<1>17. AuditResponse(r) => Free /\ BudgetSound(r)'
  BY Zenon, <1>2, <1>3, AuditResponseDoes DEF AuditResponse, SamePaid
<1> HIDE DEF Free
<1>18. /\ BudgetSound(r)'
       /\ Free \/ (pc[r] = "budget" /\ Spend(Envelope[Req(r).grant].chain) /\ (SamePaid(r) \/ ctx'[r].paid))
  BY Zenon, <1>4, <1>5, <1>6, <1>7, <1>8, <1>9, <1>10, <1>11, <1>12, <1>13, <1>14, <1>15, <1>16, <1>17 DEF RequestStep
<1>. QED  BY Zenon, <1>18 DEF Free

\* The payers, when the step is one of r.
LEMMA PayersAfter ==
  ASSUME Shape, NEW r \in Reqs, Only(r), NEW c
  PROVE  /\ SamePaid(r) => Payers(c)' = Payers(c)
         /\ Payers(c)' \subseteq Payers(c) \cup {r}
         /\ Envelope[Req(r).grant].chain # c => Payers(c)' \subseteq Payers(c)
<1>1. \A q \in Reqs : Envelope[Req(q)'.grant].chain = Envelope[Req(q).grant].chain
  BY Zenon, LoadStays DEF Only
<1>2. \A q \in Reqs \ {r} : ctx'[q].paid = ctx[q].paid
  BY Zenon DEF Only
<1>. QED  BY Zenon, <1>1, <1>2 DEF Payers, SamePaid

\* A step in which nobody pays.
LEMMA PayersStay ==
  ASSUME wl' = wl, \A r \in Reqs : SamePaid(r), NEW c
  PROVE  Payers(c)' = Payers(c)
<1>1. \A q \in Reqs : Envelope[Req(q)'.grant].chain = Envelope[Req(q).grant].chain
  BY Zenon, LoadStays
<1>. QED  BY Zenon, <1>1 DEF Payers, SamePaid

\* Every step keeps it: a payment takes from the pool what it adds to the payers.
LEMMA BudgetInvStep ==
  ASSUME BudgetInv, [Next]_vars
  PROVE  BudgetInv'
<1>1. Shape /\ Shape' /\ pool \in [Chains -> Nat] /\ funded \in [Chains -> Nat]
  BY Zenon, ShapeStep DEF BudgetInv
<1>2. \A c \in Chains : Cardinality(Payers(c)) + pool[c] <= funded[c]
  BY Zenon, NotOverdrawn DEF BudgetInv
<1>3. \A c : IsFiniteSet(Payers(c)) /\ Cardinality(Payers(c)) \in Nat
  BY Zenon, PayersCounted
<1> DEFINE Bal == \A c \in Chains : Cardinality(Payers(c)') + pool'[c] <= funded'[c]
           Good == /\ pool' \in [Chains -> Nat] /\ funded' \in [Chains -> Nat]
                   /\ \A r \in Reqs : BudgetSound(r)'
                   /\ Bal
<1>4. Good => BudgetInv'
  BY Zenon, <1>1, NotOverdrawn DEF BudgetInv, BudgetNeverOverdrawn, Payers
<1>5. ASSUME wl' = wl, pc' = pc, \A r \in Reqs : SamePaid(r)
      PROVE  (\A r \in Reqs : BudgetSound(r)') /\ \A c : Payers(c)' = Payers(c)
  <2>1. \A r \in Reqs : BudgetSound(r)'
    BY Zenon, <1>5, LoadStays DEF BudgetInv, BudgetSound, SamePaid
  <2>. QED  BY Zenon, <1>5, <2>1, PayersStay
<1>6. CASE Elsewhere /\ UNCHANGED <<pool, funded>>
  <2>1. (\A r \in Reqs : BudgetSound(r)') /\ \A c : Payers(c)' = Payers(c)
    BY Zenon, <1>5, <1>6 DEF Elsewhere, gateVars, SamePaid
  <2>. QED  BY Zenon, <1>1, <1>2, <1>4, <1>6, <2>1
<1>7. ASSUME NEW t \in Tenants, NEW st, SetTenantStatus(t, st) PROVE BudgetInv'
  <2>1. wl' = wl /\ pc' = pc /\ UNCHANGED <<pool, funded>>
    BY Zenon, <1>7 DEF SetTenantStatus, grantVars
  <2>2. \A r \in Reqs : SamePaid(r)
    BY Zenon, <1>1, <1>7, SetTenantStatusDoes
  <2>3. (\A r \in Reqs : BudgetSound(r)') /\ \A c : Payers(c)' = Payers(c)
    BY Zenon, <1>5, <2>1, <2>2
  <2>. QED  BY Zenon, <1>1, <1>2, <1>4, <2>1, <2>3
<1>8. ASSUME NEW c \in Chains, InitBudget(c), Elsewhere PROVE BudgetInv'
  <2>1. PICK g \in Grants : funded' = [funded EXCEPT ![c] = Envelope[g].budget]
                            /\ pool' = [pool EXCEPT ![c] = Envelope[g].budget] /\ funded[c] = 0
    BY Zenon, <1>8 DEF InitBudget, InChain
  <2>2. Envelope[g].budget \in Nat
    BY Zenon, DelegationConstants
  <2>3. pool' \in [Chains -> Nat] /\ funded' \in [Chains -> Nat]
    BY Zenon, <1>1, <2>1, <2>2
  <2>4. (\A r \in Reqs : BudgetSound(r)') /\ \A d : Payers(d)' = Payers(d)
    BY Zenon, <1>5, <1>8 DEF Elsewhere, gateVars, SamePaid
  <2>5. ASSUME NEW d \in Chains PROVE Cardinality(Payers(d)) + pool'[d] <= funded'[d]
    <3>1. Cardinality(Payers(d)) \in Nat /\ pool[d] \in Nat /\ Cardinality(Payers(d)) + pool[d] <= funded[d]
      BY Zenon, <1>1, <1>2, <1>3, <2>5
    <3>2. pool'[d] = (IF d = c THEN Envelope[g].budget ELSE pool[d]) /\ funded'[d] = (IF d = c THEN Envelope[g].budget ELSE funded[d])
      BY Zenon, <1>1, <2>1
    <3>. QED  BY <2>1, <2>2, <3>1, <3>2
  <2>. QED  BY Zenon, <1>4, <2>3, <2>4, <2>5
<1>9. ASSUME NEW r \in Reqs, RequestStep(r) PROVE BudgetInv'
  <2>1. Only(r) /\ BudgetSound(r)
    BY Zenon, <1>1, <1>9, RequestShape DEF BudgetInv
  <2>2. BudgetSound(r)'
    BY Zenon, <1>1, <1>9, <2>1, BudgetRequestStep
  <2>3. ASSUME NEW q \in Reqs PROVE BudgetSound(q)'
    <3>1. CASE q # r
      BY Zenon, <2>1, <3>1, LoadStays DEF BudgetInv, BudgetSound, Only
    <3>. QED  BY Zenon, <2>2, <3>1
  <2>4. CASE SamePaid(r) /\ UNCHANGED grantVars
    <3>1. \A d : Payers(d)' = Payers(d)
      BY Zenon, <1>1, <2>1, <2>4, PayersAfter
    <3>2. UNCHANGED <<pool, funded>>
      BY Zenon, <2>4 DEF grantVars
    <3>. QED  BY Zenon, <1>1, <1>2, <1>4, <2>3, <3>1, <3>2
  <2>5. CASE pc[r] = "budget" /\ Spend(Envelope[Req(r).grant].chain) /\ (SamePaid(r) \/ ctx'[r].paid)
    <3> SUFFICES ASSUME NEW c, c = Envelope[Req(r).grant].chain PROVE BudgetInv'
      BY Zenon
    <3>1. c \in Chains
      BY Zenon, <2>1, <2>5, DelegationConstants DEF BudgetSound, Unpaid
    <3>2. pool[c] >= 1 /\ pool' = [pool EXCEPT ![c] = pool[c] - 1] /\ funded' = funded
      BY Zenon, <2>5 DEF Spend
    <3>3. pool' \in [Chains -> Nat] /\ funded' \in [Chains -> Nat]
      BY <1>1, <3>1, <3>2
    <3>4. ASSUME NEW d \in Chains PROVE Cardinality(Payers(d)') + pool'[d] <= funded'[d]
      <4>1. Cardinality(Payers(d)) \in Nat /\ pool[d] \in Nat /\ funded[d] \in Nat /\ Cardinality(Payers(d)) + pool[d] <= funded[d]
        BY Zenon, <1>1, <1>2, <1>3, <3>4
      <4>2. IsFiniteSet(Payers(d)) /\ Payers(d)' \subseteq Payers(d) \cup {r} /\ (d # c => Payers(d)' \subseteq Payers(d))
        BY Zenon, <1>1, <1>3, <2>1, PayersAfter
      <4>3. CASE d # c
        <5>1. Cardinality(Payers(d)') \in Nat /\ Cardinality(Payers(d)') <= Cardinality(Payers(d))
          BY Zenon, <4>2, <4>3, FS_Subset, FS_CardinalityType
        <5>2. pool'[d] = pool[d]
          BY Zenon, <1>1, <3>2, <4>3
        <5>. QED  BY <3>2, <4>1, <5>1, <5>2
      <4>4. CASE d = c
        <5>1. /\ IsFiniteSet(Payers(d) \cup {r})
              /\ Cardinality(Payers(d) \cup {r}) = IF r \in Payers(d) THEN Cardinality(Payers(d)) ELSE Cardinality(Payers(d)) + 1
          BY Zenon, <4>2, FS_AddElement
        <5>2. Cardinality(Payers(d)') \in Nat /\ Cardinality(Payers(d)') <= Cardinality(Payers(d) \cup {r})
          BY Zenon, <4>2, <5>1, FS_Subset, FS_CardinalityType
        <5>3. pool'[d] = pool[d] - 1
          BY Zenon, <1>1, <3>2, <4>4
        <5>. QED  BY <3>2, <4>1, <4>4, <5>1, <5>2, <5>3
      <4>. QED  BY Zenon, <4>3, <4>4
    <3>. QED  BY Zenon, <1>4, <2>3, <3>3, <3>4
  <2>. QED  BY Zenon, <1>1, <1>9, <2>1, <2>4, <2>5, BudgetRequestStep
<1> HIDE DEF Bal, Good
<1>10. AdminStep => \/ \E t \in Tenants, st \in load.statuses : SetTenantStatus(t, st)
                    \/ \E c \in Chains : InitBudget(c) /\ Elsewhere
                    \/ Elsewhere /\ UNCHANGED <<pool, funded>>
  <2>1. load.revokes \subseteq Chains
    BY Zenon, <1>1, GatewayConstants DEF Shape, load
  <2>2. (\E g \in load.issues : Draft(g) \/ Create(g)) => UNCHANGED <<pool, funded>>
    BY Zenon DEF Draft, Create
  <2>3. (\E g \in load.lapses : Lapse(g)) \/ (\E c \in load.revokes : RevokeByChain(c)) => UNCHANGED <<pool, funded>>
    BY Zenon DEF Lapse, RevokeByChain
  <2>4. UNCHANGED grantVars => UNCHANGED <<pool, funded>>
    BY Zenon DEF grantVars
  <2>5. \A c \in load.revokes : c \in Chains
    BY Zenon, <2>1
  <2>. QED  BY Zenon, <2>2, <2>3, <2>4, <2>5 DEF AdminStep, Elsewhere
<1>11. Finished \/ UNCHANGED vars => Elsewhere /\ UNCHANGED <<pool, funded>>
  BY Zenon DEF Finished, vars, grantVars, Elsewhere
<1>. QED  BY Zenon, <1>6, <1>7, <1>8, <1>9, <1>10, <1>11 DEF Next

\* For any number of requests racing for the budget of a chain, answers lost and
\* grants issued or revoked meanwhile: those that got through and what is left
\* never exceed what was put in (delegation_budget.go:26-44).
THEOREM BudgetKept == Spec => []BudgetNeverOverdrawn
<1>1. BudgetInv => BudgetNeverOverdrawn
  BY Zenon DEF BudgetInv
<1>2. BudgetInv /\ [Next]_vars => BudgetInv'
  BY Zenon, BudgetInvStep
<1>. QED  BY <1>1, <1>2, BudgetInvInit, PTL DEF Spec

-----------------------------------------------------------------------------
(* The limiter as the pipeline calls it *)

\* The promise that a refused client gets with the time to wait.
Honest(r) ==
  LET d == ctx[r].refusal
      limit == ctx[r].limits[d.bucket]
      later == ctx[r].stamp + d.retry
  IN  d.bucket # "" /\ CostIn(d.bucket) <= limit + 1 =>
        Fits(Larger(d.tat, later) + Increment(d.bucket, limit), limit, later)

\* The limits are resolved and the time is read before the script is called; a
\* refusal is the last thing that happens to a request.
RateSound(r) ==
  /\ pc[r] \in Buckets => /\ ctx[r].limits \in [Buckets -> 1..Window]
                          /\ ctx[r].stamp \in Nat /\ ctx[r].stamp <= now
  /\ pc[r] # "done" => ctx[r].refusal.bucket = ""
  /\ Honest(r)

\* The limiter and the stored quotas.
QuotasInv == RateInv /\ quota \in [Scopes -> Quota \cup {NoQuota}]

\* The inductive invariant of the limits.
LimitsInv == Shape /\ QuotasInv /\ \A r \in Reqs : RateSound(r)

\* The largest of zero and at most two numbers is one of them.
LEMMA MaxOfFew ==
  ASSUME NEW x \in Nat, NEW y \in Nat, NEW S, S \subseteq {0, x, y}, 0 \in S
  PROVE  MaxOf(S) \in S
<1>1. \E m \in S : \A z \in S : z <= m
  <2>1. CASE x \in S /\ (y \in S => y <= x)
    BY <2>1
  <2>2. CASE y \in S /\ (x \in S => x <= y)
    BY <2>2
  <2>3. CASE x \notin S /\ y \notin S
    BY <2>3
  <2>. QED  BY <2>1, <2>2, <2>3
<1>. QED  BY Zenon, <1>1 DEF MaxOf

\* The limits of a quota fit the window.
LEMMA QuotaLimits ==
  ASSUME NEW q \in Quota \cup {NoQuota}, NEW b \in Buckets
  PROVE  q[b] \in 0..Window /\ (q \in Quota => q[b] # 0)
  BY RateLimitConstants DEF Quota, NoQuota

\* Whatever quotas are found, the limit is positive and at most the window.
LEMMA EffectiveLimits ==
  ASSUME QuotasInv, NEW s \in Scopes, NEW t \in Scopes, NEW found \in SUBSET {s, t}, NEW b \in Buckets
  PROVE  GetEffectiveLimit(found, b) \in 1..Window
<1> DEFINE S == {0} \cup {GetByScope(z)[b] : z \in found}
<1>1. quota[s][b] \in 0..Window /\ quota[t][b] \in 0..Window
  <2>1. quota[s] \in Quota \cup {NoQuota} /\ quota[t] \in Quota \cup {NoQuota}
    BY Zenon DEF QuotasInv
  <2>. QED  BY Zenon, <2>1, QuotaLimits
<1>2. DefaultQuota[b] \in 1..Window
  BY Zenon, RateLimitConstants DEF Quota
<1>3. S \subseteq {0, quota[s][b], quota[t][b]} /\ 0 \in S
  BY Zenon DEF GetByScope
<1>4. GetEffectiveLimit(found, b) = IF MaxOf(S) = 0 THEN DefaultQuota[b] ELSE MaxOf(S)
  BY Zenon DEF GetEffectiveLimit
<1>5. Window \in Nat
  BY Zenon, RateLimitConstants
<1> HIDE DEF S
<1>6. quota[s][b] \in Nat /\ quota[t][b] \in Nat
  BY <1>1, <1>5
<1>7. MaxOf(S) \in S
  BY Zenon, <1>3, <1>6, MaxOfFew
<1>8. MaxOf(S) \in 0..Window
  <2>1. MaxOf(S) \in {0, quota[s][b], quota[t][b]}
    BY Zenon, <1>3, <1>7
  <2>2. 0 \in 0..Window
    BY <1>5
  <2>. QED  BY Zenon, <1>1, <2>1, <2>2
<1>. QED  BY <1>2, <1>4, <1>5, <1>8

\* A request asks for the quotas of its tenant and of its user.
LEMMA ScopesOfRequest ==
  ASSUME Shape, NEW r \in Reqs, pc[r] # "done"
  PROVE  /\ Req(r).tenant \in Tenants
         /\ <<Req(r).tenant, NoUser>> \in Scopes /\ <<Req(r).tenant, Req(r).user>> \in Scopes
<1>1. r \in DOMAIN load.reqs /\ wl \in DOMAIN Workloads
  BY Zenon DEF Shape
<1>2. Req(r).tenant \in Tenants /\ Req(r).user \in Users
  BY Zenon, <1>1, GatewayConstants DEF load, Req
<1>. QED  BY Zenon, <1>2 DEF Scopes

\* Multiplication keeps the order.
LEMMA Multiples ==
  ASSUME NEW a \in Nat, NEW x \in Nat, NEW y \in Nat, x <= y
  PROVE  a * x <= a * y
  OBVIOUS

\* As many intervals as the limit says fit the window.
LEMMA IntervalFits ==
  ASSUME NEW limit \in 1..Window
  PROVE  EmissionInterval(limit) * limit <= Window
<1>1. limit \in Nat \ {0} /\ Window \in Nat
  BY RateLimitConstants
<1>. QED  BY <1>1 DEF EmissionInterval

\* What is refused waits long enough: the increment of a request that the bucket
\* is large enough for is at most the window and one interval.
LEMMA RefusalHonest ==
  ASSUME QuotasInv, NEW k \in Keys, NEW limit \in 1..Window, NEW stamp \in Nat,
         ~Allowed(k, limit, stamp), CostIn(k[2]) <= limit + 1,
         NEW later, later = stamp + RetryAfter(k, limit, stamp)
  PROVE  Fits(Larger(tat[k].at, later) + Increment(k[2], limit), limit, later)
<1> SUFFICES ASSUME NEW ei, ei = EmissionInterval(limit), NEW inc, inc = Increment(k[2], limit),
                    NEW at, at = tat[k].at, NEW arr, arr = Arrival(k, stamp)
             PROVE  Larger(at, later) + inc <= later + Window + ei
  BY Zenon DEF Fits
<1>1. limit \in Nat \ {0} /\ Window \in Nat /\ k[2] \in Buckets
  BY RateLimitConstants DEF Keys
<1>2. ei \in Nat /\ inc \in Nat
  BY Zenon, <1>1, Increments
<1>3. at \in Nat /\ arr \in Nat /\ (Live(k) => at <= arr)
  <2>1. tat[k].at \in Nat
    BY Zenon DEF QuotasInv, RateInv
  <2>. QED  BY Zenon, <2>1, ArrivalBounds
<1>4. ~Live(k) => arr = stamp
  BY Zenon DEF Arrival
<1>5. inc <= Window + ei
  <2>1. CostIn(k[2]) \in Nat
    BY Zenon, RateLimitConstants DEF CostIn
  <2>2. ei * CostIn(k[2]) <= ei * (limit + 1)
    <3>1. limit + 1 \in Nat
      BY <1>1
    <3>. QED  BY Zenon, <1>2, <2>1, <3>1, Multiples
  <2>3. ei * limit <= Window
    BY Zenon, IntervalFits
  <2>4. ei * (limit + 1) = ei * limit + ei /\ ei * limit \in Nat
    BY <1>1, <1>2
  <2>5. inc = ei * CostIn(k[2]) /\ ei * CostIn(k[2]) \in Nat
    BY Zenon, <1>2, <2>1 DEF Increment
  <2>. QED  BY <1>1, <1>2, <2>2, <2>3, <2>4, <2>5
<1>6. ~(arr + inc <= stamp + Window + ei)
  BY Zenon DEF Allowed, Fits, NewTat
<1>7. later = stamp + (arr + inc - stamp - Window)
  BY <1>1, <1>2, <1>3 DEF RetryAfter, NewTat
<1>. QED  BY <1>1, <1>2, <1>3, <1>4, <1>5, <1>6, <1>7 DEF Larger

\* A refusal at bucket b, as the step records it.
LEMMA RefusedHonest ==
  ASSUME Shape, QuotasInv, NEW r \in Reqs, RateSound(r), NEW b \in Buckets, pc[r] = b,
         NEW k, k = <<Req(r).tenant, b>>, ~Allowed(k, ctx[r].limits[b], ctx[r].stamp),
         ctx'[r].limits = ctx[r].limits, ctx'[r].stamp = ctx[r].stamp,
         ctx'[r].refusal = [bucket |-> b, tat |-> tat[k].at,
                            retry |-> RetryAfter(k, ctx[r].limits[b], ctx[r].stamp)]
  PROVE  Honest(r)'
<1> DEFINE limit == ctx[r].limits[b]
           stamp == ctx[r].stamp
           later == stamp + RetryAfter(k, limit, stamp)
<1>1. pc[r] # "done"
  BY Zenon DEF Buckets
<1>2. k \in Keys /\ k[2] = b
  BY Zenon, <1>1, ScopesOfRequest DEF Keys
<1>3. limit \in 1..Window /\ stamp \in Nat
  BY Zenon DEF RateSound
<1>4. CostIn(b) <= limit + 1 => Fits(Larger(tat[k].at, later) + Increment(b, limit), limit, later)
  BY Zenon, <1>2, <1>3, RefusalHonest
<1>5. /\ ctx'[r].refusal.bucket = b /\ ctx'[r].refusal.tat = tat[k].at
      /\ ctx'[r].refusal.retry = RetryAfter(k, limit, stamp)
  OBVIOUS
<1>6. ctx'[r].limits[b] = limit /\ ctx'[r].stamp = stamp
  BY Zenon
<1> SUFFICES ASSUME CostIn(b) <= limit + 1
             PROVE  Fits(Larger(tat[k].at, later) + Increment(b, limit), limit, later)
  BY Zenon, <1>5, <1>6 DEF Honest
<1>. QED  BY Zenon, <1>4

\* Every step of a request is one of the limiter or leaves it alone.
LEMMA RateRequestStep ==
  ASSUME Shape, QuotasInv, NEW r \in Reqs, RequestStep(r), RateSound(r)
  PROVE  /\ RateSound(r)'
         /\ [RateNext]_rateVars /\ now' = now /\ quota' = quota
<1> DEFINE Apart == pc[r] # "done" /\ SameRate(r) /\ pc'[r] \notin Buckets /\ UNCHANGED rateVars
<1>1. ASSUME Apart PROVE RateSound(r)'
  BY Zenon, <1>1 DEF RateSound, Honest, SameRate
<1>2. {"tenant", "limits", "envelope", "generation", "fanout", "budget", "audit", "guard", "classify",
       "verdict", "handler", "post", "done"} \cap Buckets = {}
  BY Zenon DEF Buckets
<1>3. Authenticate(r) \/ LookupTenant(r) => Apart
  BY Zenon, <1>2, AuthenticateDoes, LookupTenantDoes DEF Authenticate, LookupTenant
<1>4. CheckEnvelope(r) \/ CheckGeneration(r) => Apart
  BY Zenon, <1>2, CheckEnvelopeDoes, CheckGenerationDoes DEF CheckEnvelope, CheckGeneration
<1>5. CheckFanOut(r) \/ SpendBudget(r) => Apart
  BY Zenon, <1>2, CheckFanOutDoes, SpendBudgetDoes DEF CheckFanOut, SpendBudget
<1>6. AuditRequest(r) \/ AuditResponse(r) => Apart
  BY Zenon, <1>2, AuditRequestDoes, AuditResponseDoes DEF AuditRequest, AuditResponse, SameRate
<1>7. ReadBody(r) => Apart
  BY Zenon, <1>2, ReadBodyDoes DEF ReadBody
<1>8. Attempt(r) => Apart
  BY Zenon, <1>2, AttemptDoes DEF Attempt
<1>9. Judge(r) => Apart
  <2> SUFFICES ASSUME Judge(r) PROVE Apart
    BY Zenon
  <2>1. UNCHANGED rateVars
    BY Zenon DEF Judge
  <2>2. pc[r] = "verdict" /\ SameRate(r) /\ pc'[r] \in {"handler", "post"}
    BY Zenon, JudgeDoes
  <2>. QED  BY Zenon, <1>2, <2>1, <2>2
<1>10. Handle(r) => Apart
  <2> SUFFICES ASSUME Handle(r) PROVE Apart
    BY Zenon
  <2>1. UNCHANGED rateVars
    BY Zenon DEF Handle
  <2>2. pc[r] = "handler" /\ SameRate(r) /\ pc'[r] \in {"done", "post"}
    BY Zenon, HandleDoes
  <2>. QED  BY Zenon, <1>2, <2>1, <2>2
<1>11. CASE ResolveLimits(r)
  <2>1. /\ pc[r] = "limits" /\ pc'[r] = "requests" /\ ctx'[r].stamp = now /\ ctx'[r].refusal = ctx[r].refusal
        /\ UNCHANGED rateVars
    BY Zenon, <1>11, ResolveLimitsDoes DEF ResolveLimits
  <2>2. PICK found \in [Buckets -> SUBSET {<<Req(r).tenant, NoUser>>, <<Req(r).tenant, Req(r).user>>}] :
          ctx'[r].limits = [b \in Buckets |-> GetEffectiveLimit(found[b], b)]
    BY Zenon, <1>11, ResolveLimitsDoes
  <2>3. \A b \in Buckets : GetEffectiveLimit(found[b], b) \in 1..Window
    <3>1. SUFFICES ASSUME NEW b \in Buckets PROVE GetEffectiveLimit(found[b], b) \in 1..Window
      BY Zenon
    <3>2. found[b] \in SUBSET {<<Req(r).tenant, NoUser>>, <<Req(r).tenant, Req(r).user>>}
      BY Zenon, <2>2
    <3>3. <<Req(r).tenant, NoUser>> \in Scopes /\ <<Req(r).tenant, Req(r).user>> \in Scopes
      BY Zenon, <2>1, ScopesOfRequest
    <3>. QED  BY Zenon, <3>2, <3>3, EffectiveLimits
  <2>4. ctx'[r].limits \in [Buckets -> 1..Window]
    BY Zenon, <2>2, <2>3
  <2>5. now \in Nat /\ now' = now /\ quota' = quota
    BY Zenon, <2>1 DEF QuotasInv, RateInv, rateVars
  <2>6. now <= now
    BY <2>5
  <2>7. ctx'[r].refusal.bucket = ""
    BY Zenon, <2>1 DEF RateSound
  <2>. QED  BY Zenon, <2>1, <2>4, <2>5, <2>6, <2>7 DEF RateSound, Honest
<1>12. ASSUME NEW b \in Buckets, ChargeBucket(r, b) PROVE RateSound(r)' /\ [RateNext]_rateVars /\ now' = now /\ quota' = quota
  <2> DEFINE k == <<Req(r).tenant, b>>
  <2>1. pc[r] = b /\ pc'[r] \in Buckets \cup {"audit", "done"} /\ b # "done"
    BY Zenon, <1>2, <1>12, ChargeBucketDoes
  <2>2. k \in Keys
    <3>1. Req(r).tenant \in Tenants
      BY Zenon, <2>1, ScopesOfRequest
    <3>. QED  BY Zenon, <3>1 DEF Keys
  <2>3. ctx[r].limits \in [Buckets -> 1..Window] /\ ctx[r].stamp \in Nat /\ ctx[r].stamp <= now
    BY Zenon, <2>1 DEF RateSound
  <2>4. ctx[r].limits[b] \in 1..Window /\ ctx[r].stamp \in 0..now /\ now \in Nat
    BY <2>3 DEF QuotasInv, RateInv
  <2>5. UNCHANGED rateVars \/ Charge(k, ctx[r].limits[b], ctx[r].stamp)
    BY Zenon, <1>12, ChargeBucketDoes
  <2>6. now' = now /\ quota' = quota
    BY Zenon, <2>5 DEF Charge, rateVars
  <2> HIDE DEF k
  <2>7. [RateNext]_rateVars
    BY Zenon, <2>2, <2>4, <2>5 DEF RateNext
  <2>8. ctx[r].refusal.bucket = ""
    BY Zenon, <2>1 DEF RateSound
  <2>9. CASE pc'[r] \in Buckets
    <3>1. ctx'[r].limits = ctx[r].limits /\ ctx'[r].stamp = now /\ ctx'[r].refusal = ctx[r].refusal
      BY Zenon, <1>12, <2>9, ChargeBucketDoes
    <3>2. now <= now
      BY <2>4
    <3>3. RateSound(r)'
      BY Zenon, <2>3, <2>4, <2>6, <2>8, <3>1, <3>2 DEF RateSound, Honest
    <3>. QED  BY Zenon, <2>6, <2>7, <3>3
  <2>10. CASE pc'[r] = "audit"
    <3>1. ctx'[r].refusal = ctx[r].refusal
      BY Zenon, <1>12, <2>10, ChargeBucketDoes
    <3>2. RateSound(r)'
      BY Zenon, <1>2, <2>8, <2>10, <3>1 DEF RateSound, Honest
    <3>. QED  BY Zenon, <2>6, <2>7, <3>2
  <2>11. CASE pc'[r] = "done"
    <3>1. Honest(r)'
      <4>1. CASE SameRate(r)
        BY Zenon, <2>8, <4>1 DEF Honest, SameRate
      <4>2. CASE /\ ~Allowed(k, ctx[r].limits[b], ctx[r].stamp)
                 /\ ctx'[r].limits = ctx[r].limits /\ ctx'[r].stamp = ctx[r].stamp
                 /\ ctx'[r].refusal = [bucket |-> b, tat |-> tat[k].at,
                                       retry |-> RetryAfter(k, ctx[r].limits[b], ctx[r].stamp)]
        BY Zenon, <2>1, <4>2, RefusedHonest DEF k
      <4>. QED  BY Zenon, <1>12, <2>11, <4>1, <4>2, ChargeBucketDoes DEF k
    <3>2. RateSound(r)'
      BY Zenon, <1>2, <2>11, <3>1 DEF RateSound
    <3>. QED  BY Zenon, <2>6, <2>7, <3>2
  <2>. QED  BY Zenon, <2>1, <2>9, <2>10, <2>11
<1>13. Apart \/ ResolveLimits(r) => [RateNext]_rateVars /\ now' = now /\ quota' = quota
  BY Zenon DEF rateVars, ResolveLimits
<1> HIDE DEF Apart
<1>. QED  BY Zenon, <1>1, <1>3, <1>4, <1>5, <1>6, <1>7, <1>8, <1>9, <1>10, <1>11, <1>12, <1>13 DEF RequestStep

\* At first nothing was admitted.
LEMMA LimitsInvInit == Init => LimitsInv
<1> SUFFICES ASSUME Init PROVE LimitsInv
  BY Zenon
<1>1. RateInv
  BY Zenon, RateInvInit DEF Init
<1>2. quota \in [Scopes -> Quota \cup {NoQuota}]
  BY Zenon DEF Init, RateInit
<1>3. \A r \in Reqs : ctx[r].refusal.bucket = "" /\ pc[r] \notin Buckets
  <2>1. \A r \in Reqs : ctx[r] = FreshCtx /\ pc[r] \in {"start", "done"}
    BY Zenon DEF Init
  <2>2. FreshCtx.refusal.bucket = ""
    BY Zenon DEF FreshCtx
  <2>3. {"start", "done"} \cap Buckets = {}
    BY Zenon DEF Buckets
  <2>. QED  BY Zenon, <2>1, <2>2, <2>3
<1>4. \A r \in Reqs : RateSound(r)
  BY Zenon, <1>3 DEF RateSound, Honest
<1>. QED  BY Zenon, <1>1, <1>2, <1>4, ShapeInit DEF LimitsInv, QuotasInv

\* Every step keeps it and is one of the limiter or leaves it alone.
LEMMA LimitsInvStep ==
  ASSUME LimitsInv, [Next]_vars
  PROVE  LimitsInv' /\ [RateNext]_rateVars
<1>1. Shape /\ Shape' /\ QuotasInv /\ RateInv
  BY Zenon, ShapeStep DEF LimitsInv, QuotasInv
<1>2. ASSUME NEW q \in Reqs, pc'[q] = pc[q], SameRate(q), now \in Nat, now' \in Nat, now <= now'
      PROVE  RateSound(q)'
  <2>1. RateSound(q)
    BY Zenon DEF LimitsInv
  <2>2. pc[q] \in Buckets => ctx[q].stamp <= now'
    <3>1. \A s \in Nat : s <= now => s <= now'
      BY <1>2
    <3>. QED  BY Zenon, <2>1, <3>1 DEF RateSound
  <2>. QED  BY Zenon, <1>2, <2>1, <2>2 DEF RateSound, SameRate, Honest
<1>3. now \in Nat
  BY Zenon, <1>1 DEF RateInv
<1>4. ASSUME [RateNext]_rateVars, quota' \in [Scopes -> Quota \cup {NoQuota}], \A q \in Reqs : RateSound(q)'
      PROVE  LimitsInv' /\ [RateNext]_rateVars
  <2>1. RateInv'
    BY Zenon, <1>1, <1>4, RateInvStep
  <2>. QED  BY Zenon, <1>1, <1>4, <2>1 DEF LimitsInv, QuotasInv
<1>5. quota \in [Scopes -> Quota \cup {NoQuota}]
  BY Zenon, <1>1 DEF QuotasInv
<1>6. ASSUME NEW r \in Reqs, RequestStep(r) PROVE LimitsInv' /\ [RateNext]_rateVars
  <2>1. Only(r) /\ RateSound(r)
    BY Zenon, <1>1, <1>6, RequestShape DEF LimitsInv
  <2>2. RateSound(r)' /\ [RateNext]_rateVars /\ now' = now /\ quota' = quota
    BY Zenon, <1>1, <1>6, <2>1, RateRequestStep
  <2>3. now <= now
    BY <1>3
  <2>4. ASSUME NEW q \in Reqs, q # r PROVE RateSound(q)'
    BY Zenon, <1>2, <1>3, <2>1, <2>2, <2>3, <2>4 DEF Only, SameRate
  <2>. QED  BY Zenon, <1>4, <1>5, <2>2, <2>4
<1>7. ASSUME NEW t \in Tenants, NEW st, SetTenantStatus(t, st) PROVE LimitsInv' /\ [RateNext]_rateVars
  <2>1. UNCHANGED rateVars /\ pc' = pc
    BY Zenon, <1>7 DEF SetTenantStatus
  <2>2. now' = now /\ quota' = quota
    BY Zenon, <2>1 DEF rateVars
  <2>3. now <= now
    BY <1>3
  <2>4. \A q \in Reqs : RateSound(q)'
    BY Zenon, <1>1, <1>2, <1>3, <1>7, <2>1, <2>2, <2>3, SetTenantStatusDoes
  <2>. QED  BY Zenon, <1>4, <1>5, <2>1, <2>2, <2>4
<1>8. ASSUME Elsewhere, [RateNext]_rateVars, now' \in Nat, now <= now', quota' \in [Scopes -> Quota \cup {NoQuota}]
      PROVE  LimitsInv' /\ [RateNext]_rateVars
  <2>1. \A q \in Reqs : RateSound(q)'
    BY Zenon, <1>2, <1>3, <1>8 DEF Elsewhere, gateVars, SameRate
  <2>. QED  BY Zenon, <1>4, <1>8, <2>1
<1>9. CASE Elsewhere /\ UNCHANGED rateVars
  <2>1. now' = now /\ quota' = quota
    BY Zenon, <1>9 DEF rateVars
  <2>2. now <= now
    BY <1>3
  <2>. QED  BY Zenon, <1>3, <1>5, <1>8, <1>9, <2>1, <2>2
<1>10. CASE Elsewhere /\ Tick
  <2>1. now' \in Nat /\ now <= now' /\ quota' = quota
    BY <1>3, <1>10 DEF Tick
  <2>. QED  BY Zenon, <1>5, <1>8, <1>10, <2>1 DEF RateNext
<1>11. ASSUME Elsewhere, NEW q \in load.quotas, CreateQuota(q.scope, q.limits) PROVE LimitsInv' /\ [RateNext]_rateVars
  <2>1. q.scope \in Scopes /\ q.limits \in Quota
    BY Zenon, <1>1, GatewayConstants DEF Shape, load
  <2>2. now' = now /\ quota' = [quota EXCEPT ![q.scope] = q.limits]
    BY Zenon, <1>11 DEF CreateQuota
  <2>3. now' \in Nat /\ now <= now'
    BY <1>3, <2>2
  <2>4. quota' \in [Scopes -> Quota \cup {NoQuota}]
    BY Zenon, <1>5, <2>1, <2>2
  <2>5. RateNext
    BY Zenon, <1>11, <2>1 DEF RateNext
  <2>. QED  BY Zenon, <1>8, <1>11, <2>3, <2>4, <2>5
<1>12. AdminStep => \/ \E t \in Tenants, st \in load.statuses : SetTenantStatus(t, st)
                    \/ Elsewhere /\ (UNCHANGED rateVars \/ Tick \/ \E q \in load.quotas : CreateQuota(q.scope, q.limits))
  BY Zenon DEF AdminStep, Elsewhere
<1>13. Finished \/ UNCHANGED vars => Elsewhere /\ UNCHANGED rateVars
  BY Zenon DEF Finished, vars, Elsewhere
<1>. QED  BY Zenon, <1>6, <1>7, <1>9, <1>10, <1>11, <1>12, <1>13 DEF Next

\* Every call of the pipeline is one that the limiter by itself makes: for a bucket
\* of a tenant, with a positive limit and a time not ahead of the clock, whichever
\* lookups of quotas failed (middleware/ratelimit.go, quota_resolver.go).
THEOREM PipelineCallsLimiter == Spec => RateSpec
<1>1. Init => RateInit
  BY Zenon DEF Init
<1>2. LimitsInv /\ [Next]_vars => LimitsInv' /\ [RateNext]_rateVars
  BY Zenon, LimitsInvStep
<1>. QED  BY <1>1, <1>2, LimitsInvInit, PTL DEF Spec, RateSpec

\* So the buckets stay within the rate in the pipeline too (the GCRA script of
\* ratelimit.go).
THEOREM PipelineConforms == Spec => []RateConforms
  BY PipelineCallsLimiter, LimiterConforms, PTL

\* For any limits, costs, stamps and races: the time that a refused client is told
\* to wait is enough for the same request, if the bucket is large enough for it
\* (ratelimit.go:74-75).
THEOREM RetryHonest == Spec => []RetryAfterHonest
<1>1. LimitsInv => RetryAfterHonest
  BY Zenon DEF LimitsInv, RateSound, Honest, RetryAfterHonest
<1>2. LimitsInv /\ [Next]_vars => LimitsInv'
  BY Zenon, LimitsInvStep
<1>. QED  BY <1>1, <1>2, LimitsInvInit, PTL DEF Spec

-----------------------------------------------------------------------------
(* Guardrails: what the operators make of a set of categories *)

\* Categories as classifiers and rules report them: what is detected has some confidence.
CatsOK(cats) ==
  \A c \in cats : /\ c.detected \in BOOLEAN /\ c.confidence \in 0..100
                  /\ c.detected => c.confidence > 0

\* The names of the detected categories.
Detections(cats) == {c.category : c \in {x \in cats : x.detected}}

\* No category is reported twice.
Once(cats) == \A c \in cats, d \in cats : c.category = d.category => c = d

\* Of a set of detections that is not empty some have the highest confidence.
LEMMA TopThere ==
  ASSUME NEW D, D # {}, \A d \in D : d.confidence \in 0..100
  PROVE  Top(D) # {}
<1> DEFINE T == {100 - d.confidence : d \in D}
<1>1. T \subseteq Nat /\ T # {}
  <2>1. \A d \in D : 100 - d.confidence \in Nat
    <3>1. SUFFICES ASSUME NEW d \in D PROVE 100 - d.confidence \in Nat
      BY Zenon
    <3>2. \A x \in 0..100 : 100 - x \in Nat
      OBVIOUS
    <3>. QED  BY Zenon, <3>2
  <2>. QED  BY Zenon, <2>1
<1>2. PICK x \in T : \A y \in T : ~(<<y, x>> \in OpToRel(<, Nat))
  BY Zenon, <1>1, NatLessThanWellFounded, WFMin
<1>3. PICK d \in D : x = 100 - d.confidence
  BY Zenon, <1>2
<1>4. ASSUME NEW e \in D PROVE e.confidence <= d.confidence
  <2>1. e.confidence \in 0..100 /\ d.confidence \in 0..100
    BY Zenon
  <2>2. \A u, v \in 0..100 : ~(100 - u < 100 - v) => u <= v
    OBVIOUS
  <2>3. 100 - e.confidence \in T /\ 100 - e.confidence \in Nat /\ x \in Nat
    BY Zenon, <1>1
  <2>4. ~(<<100 - e.confidence, x>> \in OpToRel(<, Nat))
    BY Zenon, <1>2, <2>3
  <2>5. ~(100 - e.confidence < x)
    BY Zenon, <2>3, <2>4 DEF OpToRel
  <2>. QED  BY Zenon, <1>3, <2>1, <2>2, <2>5
<1>. QED  BY Zenon, <1>3, <1>4 DEF Top

\* What is reported was detected; nothing is reported only if nothing was found,
\* or what was found has no name.
LEMMA ReportSound ==
  ASSUME NEW res, CatsOK(res.categories)
  PROVE  /\ \A found \in classificationToViolation(res) : \A v \in found :
              v.rule \in Detections(res.categories)
         /\ {} \in classificationToViolation(res) =>
              \/ ~res.violated
              \/ "" \in Detections(res.categories)
              \/ Detections(res.categories) = {}
<1> DEFINE D == {c \in res.categories : c.detected /\ c.confidence > 0}
           top == Top(D)
           Report(c) == IF c.category = "" THEN {}
                        ELSE {Violation(c.category, IF c.confidence >= c.threshold THEN "critical" ELSE "warn")}
<1>1. classificationToViolation(res) = IF res.violated /\ top # {} THEN {Report(c) : c \in top} ELSE {{}}
  BY Zenon DEF classificationToViolation
<1>2. top \subseteq D
  BY Zenon DEF Top
<1>3. \A c \in D : c.category \in Detections(res.categories)
  BY Zenon DEF Detections
<1>4. D # {} => top # {}
  <2>1. \A c \in D : c.confidence \in 0..100
    BY Zenon DEF CatsOK
  <2> HIDE DEF D
  <2>. QED  BY Zenon, <2>1, TopThere
<1>5. D = {} => Detections(res.categories) = {}
  <2>1. \A c \in res.categories : c.detected => c \in D
    BY Zenon DEF CatsOK
  <2> HIDE DEF D
  <2>. QED  BY Zenon, <2>1 DEF Detections
<1> HIDE DEF D, top
<1>6. ASSUME NEW found \in classificationToViolation(res), NEW v \in found
      PROVE  v.rule \in Detections(res.categories)
  <2>1. PICK c \in top : found = Report(c)
    BY Zenon, <1>1, <1>6
  <2>2. v = Violation(c.category, IF c.confidence >= c.threshold THEN "critical" ELSE "warn")
    BY Zenon, <1>6, <2>1
  <2>3. v.rule = c.category
    BY Zenon, <2>2 DEF Violation
  <2>. QED  BY Zenon, <1>2, <1>3, <2>1, <2>3
<1>7. ASSUME {} \in classificationToViolation(res), res.violated, Detections(res.categories) # {}
      PROVE  "" \in Detections(res.categories)
  <2>1. top # {}
    BY Zenon, <1>4, <1>5, <1>7
  <2>2. PICK c \in top : {} = Report(c)
    BY Zenon, <1>1, <1>7, <2>1
  <2>3. c.category = ""
    BY Zenon, <2>2
  <2>. QED  BY Zenon, <1>2, <1>3, <2>2, <2>3
<1>. QED  BY Zenon, <1>6, <1>7

\* The fields of a classification.
LEMMA ResultFields ==
  ASSUME NEW violated, NEW categories
  PROVE  /\ Result(violated, categories).violated = violated
         /\ Result(violated, categories).categories = categories
         /\ Result(violated, categories) # Unavailable
<1>1. /\ Result(violated, categories).violated = violated
      /\ Result(violated, categories).categories = categories
  BY Zenon DEF Result
<1>2. DOMAIN Result(violated, categories) = {"violated", "categories"} /\ DOMAIN Unavailable = {"error"}
  BY Zenon DEF Result, Unavailable
<1>. QED  BY Zenon, <1>1, <1>2

\* The local verdict: every category is a detection.
LEMMA LocalCats ==
  ASSUME NEW found, NEW local, local = violationToClassification(found)
  PROVE  /\ CatsOK(local.categories) /\ \A c \in local.categories : c.detected
         /\ Detections(local.categories) = {v.rule : v \in found}
         /\ local.violated = (found # {}) /\ local # Unavailable
<1> DEFINE Conf(v) == CASE v.severity = "critical" -> 95 [] v.severity \in {"warn", ""} -> 70 [] OTHER -> 90
           Cat(v) == Category(v.rule, TRUE, Conf(v), 70)
<1>1. local = Result(found # {}, {Cat(v) : v \in found})
  BY Zenon DEF violationToClassification
<1>2. \A v : Conf(v) \in 0..100 /\ Conf(v) > 0
  OBVIOUS
<1> HIDE DEF Conf
<1>3. \A v : Cat(v).category = v.rule /\ Cat(v).detected = TRUE /\ Cat(v).confidence = Conf(v)
  BY Zenon DEF Category
<1> HIDE DEF Cat
<1>4. local.categories = {Cat(v) : v \in found} /\ local.violated = (found # {}) /\ local # Unavailable
  BY Zenon, <1>1, ResultFields
<1>5. CatsOK(local.categories) /\ \A c \in local.categories : c.detected
  BY Zenon, <1>2, <1>3, <1>4 DEF CatsOK
<1>6. Detections(local.categories) = {v.rule : v \in found}
  <2>1. \A c \in local.categories : \E v \in found : c.category = v.rule
    BY Zenon, <1>3, <1>4
  <2>2. \A v \in found : Cat(v) \in local.categories /\ Cat(v).detected /\ Cat(v).category = v.rule
    BY Zenon, <1>3, <1>4
  <2>. QED  BY Zenon, <2>1, <2>2 DEF Detections
<1>. QED  BY Zenon, <1>4, <1>5, <1>6

\* No category at all.
LEMMA NoCats ==
  /\ CatsOK({}) /\ Once({}) /\ Detections({}) = {}
  BY Zenon DEF CatsOK, Once, Detections

\* What a service's answer is parsed to: its claims are what is detected.
LEMMA AnswerCats ==
  ASSUME NEW a, Answered(load.guard.type, a),
         load.guard.type \in {"openai", "anthropic", "llamaguard", "local"},
         NEW ext, ext = ParseAnswer(load.guard.type, a)
  PROVE  /\ CatsOK(ext.categories) /\ Once(ext.categories)
         /\ Detections(ext.categories) = Claims(a) /\ ext # Unavailable
<1>1. a \notin {NoAnswer, Unavailable}
  BY Zenon DEF Answered
<1>2. Safe.categories = {} /\ Safe # Unavailable
  BY Zenon, ResultFields DEF Safe
<1> DEFINE Goal == /\ CatsOK(ext.categories) /\ Once(ext.categories)
                   /\ Detections(ext.categories) = Claims(a) /\ ext # Unavailable
<1>3. ASSUME ext = Safe, Claims(a) = {} PROVE Goal
  BY Zenon, <1>2, <1>3, NoCats
<1>4. CASE load.guard.type = "openai"
  <2> DEFINE Rep(name) == IF ThresholdOf(name, 0) = 0 THEN 70 ELSE Thresholds[name]
             Cat(s) == Category(s.category, s.detected, s.confidence, Rep(s.category))
  <2>1. ext = Result(a.flagged, {Cat(s) : s \in a.scores})
    <3>1. ext = ParseOpenAI(a)
      BY Zenon, <1>4 DEF ParseAnswer
    <3>. QED  BY Zenon, <3>1 DEF ParseOpenAI
  <2> HIDE DEF Rep
  <2>2. \A s : Cat(s).category = s.category /\ Cat(s).detected = s.detected /\ Cat(s).confidence = s.confidence
    BY Zenon DEF Category
  <2> HIDE DEF Cat
  <2>3. ext.categories = {Cat(s) : s \in a.scores} /\ ext # Unavailable
    BY Zenon, <2>1, ResultFields
  <2>4. \A s \in a.scores : /\ s.detected \in BOOLEAN /\ s.confidence \in 0..100
                            /\ s.detected => s.confidence > 0
                            /\ \A t \in a.scores : s.category = t.category => s = t
    BY Zenon, <1>4 DEF Answered
  <2>5. CatsOK(ext.categories)
    <3> SUFFICES ASSUME NEW c \in ext.categories
                 PROVE  c.detected \in BOOLEAN /\ c.confidence \in 0..100 /\ (c.detected => c.confidence > 0)
      BY Zenon DEF CatsOK
    <3>1. PICK s \in a.scores : c = Cat(s)
      BY Zenon, <2>3
    <3>. QED  BY Zenon, <2>2, <2>4, <3>1
  <2>6. Once(ext.categories)
    <3> SUFFICES ASSUME NEW c \in ext.categories, NEW d \in ext.categories, c.category = d.category
                 PROVE  c = d
      BY Zenon DEF Once
    <3>1. PICK s \in a.scores : c = Cat(s)
      BY Zenon, <2>3
    <3>2. PICK t \in a.scores : d = Cat(t)
      BY Zenon, <2>3
    <3>3. s.category = t.category
      BY Zenon, <2>2, <3>1, <3>2
    <3>. QED  BY Zenon, <2>4, <3>1, <3>2, <3>3
  <2>7. Claims(a) = {s.category : s \in {x \in a.scores : x.detected}}
    BY Zenon, <1>1, <1>4 DEF Claims
  <2>8. Detections(ext.categories) = Claims(a)
    <3>1. \A c \in ext.categories : \E s \in a.scores : c.category = s.category /\ c.detected = s.detected
      BY Zenon, <2>2, <2>3
    <3>2. \A s \in a.scores : \E c \in ext.categories : c.category = s.category /\ c.detected = s.detected
      BY Zenon, <2>2, <2>3
    <3>. QED  BY <2>7, <3>1, <3>2 DEF Detections
  <2>. QED  BY Zenon, <2>3, <2>5, <2>6, <2>8
<1>5. CASE load.guard.type = "anthropic"
  <2> DEFINE Det(s) == s.detected /\ s.confidence >= ThresholdOf(s.category, 70)
             Cat(s) == Category(s.category, Det(s), s.confidence, ThresholdOf(s.category, 70))
             cats == {Cat(s) : s \in a.scores}
  <2>1. ext = IF a.prose THEN Safe ELSE Result(\E c \in cats : c.detected, cats)
    <3>1. ext = ParseAnthropic(a)
      BY Zenon, <1>5 DEF ParseAnswer
    <3>. QED  BY Zenon, <3>1 DEF ParseAnthropic
  <2>2. Claims(a) = {s.category : s \in {x \in a.scores : ~a.prose /\ x.detected /\ x.confidence >= ThresholdOf(x.category, 70)}}
    BY Zenon, <1>1, <1>5 DEF Claims
  <2>3. Claims(a) = {s.category : s \in {x \in a.scores : ~a.prose /\ Det(x)}}
    BY Zenon, <2>2
  <2>4. \A s : Det(s) \in BOOLEAN /\ (Det(s) => s.detected)
    BY Zenon
  <2> HIDE DEF Det
  <2>5. \A s : Cat(s).category = s.category /\ Cat(s).detected = Det(s) /\ Cat(s).confidence = s.confidence
    BY Zenon DEF Category
  <2> HIDE DEF Cat
  <2>6. CASE a.prose
    <3>1. Claims(a) = {}
      BY Zenon, <2>3, <2>6
    <3>. QED  BY Zenon, <1>3, <2>1, <2>6, <3>1
  <2>7. CASE ~a.prose
    <3>1. ext.categories = cats /\ ext # Unavailable
      <4> HIDE DEF cats
      <4>1. PICK violated : ext = Result(violated, cats)
        BY Zenon, <2>1, <2>7
      <4>. QED  BY Zenon, <4>1, ResultFields
    <3>2. \A s \in a.scores : /\ s.confidence \in 0..100
                              /\ s.detected => s.confidence > 0
                              /\ \A t \in a.scores : s.category = t.category => s = t
      BY Zenon, <1>5 DEF Answered
    <3>3. CatsOK(cats)
      BY Zenon, <2>4, <2>5, <3>2 DEF CatsOK
    <3>4. Once(cats)
      <4> SUFFICES ASSUME NEW c \in cats, NEW d \in cats, c.category = d.category
                   PROVE  c = d
        BY Zenon DEF Once
      <4>1. PICK s \in a.scores : c = Cat(s)
        BY Zenon
      <4>2. PICK t \in a.scores : d = Cat(t)
        BY Zenon
      <4>3. s.category = t.category
        BY Zenon, <2>5, <4>1, <4>2
      <4>. QED  BY Zenon, <3>2, <4>1, <4>2, <4>3
    <3>5. Detections(cats) = Claims(a)
      <4>1. \A c \in cats : \E s \in a.scores : c.category = s.category /\ c.detected = Det(s)
        BY Zenon, <2>5
      <4>2. \A s \in a.scores : \E c \in cats : c.category = s.category /\ c.detected = Det(s)
        BY Zenon, <2>5
      <4>3. Claims(a) = {s.category : s \in {x \in a.scores : Det(x)}}
        BY Zenon, <2>3, <2>7
      <4> HIDE DEF cats
      <4>. QED  BY <4>1, <4>2, <4>3 DEF Detections
    <3>. QED  BY Zenon, <3>1, <3>3, <3>4, <3>5
  <2>. QED  BY Zenon, <2>6, <2>7
<1>6. CASE load.guard.type = "llamaguard"
  <2> DEFINE Cat(c) == Category(c, TRUE, 80, ThresholdOf(c, 50))
  <2>1. ext = IF a.verdict = "unsafe" THEN Result(TRUE, {Cat(c) : c \in a.names}) ELSE Safe
    <3>1. ext = ParseLlamaGuard(a)
      BY Zenon, <1>6 DEF ParseAnswer
    <3>. QED  BY Zenon, <3>1 DEF ParseLlamaGuard
  <2>2. Claims(a) = IF a.verdict = "unsafe" THEN a.names ELSE {}
    BY Zenon, <1>1, <1>6 DEF Claims
  <2>3. \A c : Cat(c).category = c /\ Cat(c).detected = TRUE /\ Cat(c).confidence = 80
    BY Zenon DEF Category
  <2>4. 80 \in 0..100 /\ 80 > 0
    OBVIOUS
  <2> HIDE DEF Cat
  <2>5. CASE a.verdict = "unsafe"
    <3>1. ext.categories = {Cat(c) : c \in a.names} /\ ext # Unavailable
      <4>1. ext = Result(TRUE, {Cat(c) : c \in a.names})
        BY Zenon, <2>1, <2>5
      <4>. QED  BY Zenon, <4>1, ResultFields
    <3>2. \A d \in ext.categories : d = Cat(d.category) /\ d.category \in a.names /\ d.detected = TRUE /\ d.confidence = 80
      <4>1. SUFFICES ASSUME NEW d \in ext.categories
                     PROVE  d = Cat(d.category) /\ d.category \in a.names /\ d.detected = TRUE /\ d.confidence = 80
        BY Zenon
      <4>2. PICK c \in a.names : d = Cat(c)
        BY Zenon, <3>1
      <4>3. Cat(c).category = c /\ Cat(c).detected = TRUE /\ Cat(c).confidence = 80
        BY Zenon, <2>3
      <4>. QED  BY Zenon, <4>2, <4>3
    <3>3. CatsOK(ext.categories) /\ Once(ext.categories)
      BY Zenon, <2>4, <3>2 DEF CatsOK, Once
    <3>4. Detections(ext.categories) = Claims(a)
      <4>1. \A c \in ext.categories : c.category \in a.names /\ c.detected
        BY Zenon, <2>3, <3>2
      <4>2. \A n \in a.names : \E c \in ext.categories : c.category = n
        BY Zenon, <2>3, <3>1
      <4>. QED  BY <2>2, <2>5, <4>1, <4>2 DEF Detections
    <3>. QED  BY Zenon, <3>1, <3>3, <3>4
  <2>6. CASE a.verdict # "unsafe"
    BY Zenon, <1>3, <2>1, <2>2, <2>6
  <2>. QED  BY Zenon, <2>5, <2>6
<1>7. CASE load.guard.type = "local"
  <2> DEFINE c == Category("local_pattern", TRUE, 70, 70)
  <2>1. ext = IF a.matched THEN Result(TRUE, {c}) ELSE Safe
    <3>1. ext = ParseLocal(a)
      BY Zenon, <1>7 DEF ParseAnswer
    <3>. QED  BY Zenon, <3>1 DEF ParseLocal
  <2>2. Claims(a) = IF a.matched THEN {"local_pattern"} ELSE {}
    BY Zenon, <1>1, <1>7 DEF Claims
  <2>3. c.category = "local_pattern" /\ c.detected = TRUE /\ c.confidence = 70
    BY Zenon DEF Category
  <2>4. 70 \in 0..100 /\ 70 > 0
    OBVIOUS
  <2> HIDE DEF c
  <2>5. CASE a.matched
    <3>1. ext.categories = {c} /\ ext # Unavailable
      BY Zenon, <2>1, <2>5, ResultFields
    <3>2. CatsOK(ext.categories) /\ Once(ext.categories)
      BY Zenon, <2>3, <2>4, <3>1 DEF CatsOK, Once
    <3>3. Detections(ext.categories) = Claims(a)
      BY <2>2, <2>3, <2>5, <3>1 DEF Detections
    <3>. QED  BY Zenon, <3>1, <3>2, <3>3
  <2>6. CASE ~a.matched
    BY Zenon, <1>3, <2>1, <2>2, <2>6
  <2>. QED  BY Zenon, <2>5, <2>6
<1>. QED  BY Zenon, <1>4, <1>5, <1>6, <1>7

\* What the merge keeps, and when it calls the text a violation.
LEMMA MergeSound ==
  ASSUME NEW logic \in MergeLogics, NEW local, NEW ext,
         CatsOK(local.categories), CatsOK(ext.categories), Once(ext.categories),
         \A c \in local.categories : c.detected,
         NEW m, m = mergeResults(logic, local, ext)
  PROVE  /\ m # Unavailable /\ CatsOK(m.categories)
         /\ Detections(m.categories) \subseteq Detections(local.categories) \cup Detections(ext.categories)
         /\ m.violated => Detections(m.categories) # {}
         /\ ~m.violated =>
              \/ Detections(local.categories) \cup Detections(ext.categories) = {}
              \/ /\ logic = "all_violation"
                 /\ Detections(local.categories) \cap Detections(ext.categories) = {}
<1> DEFINE all == local.categories \cup ext.categories
           names == {d.category : d \in all}
           Detected(name, res) == {d \in Listed(name, res) : d.detected}
           Counts(n) == MergeDetects(logic, n, local, ext)
           Kept(n) == IF Counts(n) THEN Best(Detected(n, local), Detected(n, ext))
                      ELSE Best(Listed(n, local), Listed(n, ext))
           cats == UNION {Kept(n) : n \in names}
<1>1. m = Result(\E n \in names : Counts(n), cats)
  BY Zenon DEF mergeResults
<1>2. m # Unavailable /\ m.categories = cats /\ m.violated = (\E n \in names : Counts(n))
  <2> HIDE DEF cats, names, Counts
  <2>. QED  BY Zenon, <1>1, ResultFields
<1>3. \A S, T : Best(S, T) \subseteq S \cup T /\ (Top(S \cup T) # {} => Best(S, T) # {})
  BY Zenon DEF Best, Top
<1>4. \A n : Detected(n, local) \subseteq local.categories /\ Detected(n, ext) \subseteq ext.categories
             /\ Listed(n, local) \subseteq local.categories /\ Listed(n, ext) \subseteq ext.categories
  BY Zenon DEF Listed
<1>5. \A n : Kept(n) \subseteq all
  BY Zenon, <1>3, <1>4
<1>6. cats \subseteq all
  <2> HIDE DEF Kept, all
  <2>. QED  BY Zenon, <1>5
<1>7. CatsOK(cats)
  BY Zenon, <1>6 DEF CatsOK
<1>8. Detections(cats) \subseteq Detections(local.categories) \cup Detections(ext.categories)
  <2> HIDE DEF cats
  <2>. QED  BY Zenon, <1>6 DEF Detections
<1>9. \A n : Counts(n) => \E d \in Detected(n, local) \cup Detected(n, ext) : TRUE
  <2> SUFFICES ASSUME NEW n, Counts(n) PROVE \E d \in Detected(n, local) \cup Detected(n, ext) : TRUE
    BY Zenon
  <2>1. \E d \in Listed(n, local) \cup Listed(n, ext) : d.detected
    <3>1. CASE logic \in {"any_violation", "weighted"}
      BY Zenon, <3>1 DEF MergeDetects
    <3>2. CASE logic = "all_violation"
      BY Zenon, <3>2 DEF MergeDetects
    <3>. QED  BY Zenon, <3>1, <3>2 DEF MergeLogics
  <2>. QED  BY Zenon, <2>1
<1>10. ASSUME NEW n \in names, Counts(n) PROVE Detections(cats) # {}
  <2> DEFINE D == Detected(n, local) \cup Detected(n, ext)
  <2>1. D # {}
    BY Zenon, <1>9, <1>10
  <2>2. \A d \in D : d \in all /\ d.detected
    BY Zenon, <1>4
  <2>3. \A d \in D : d.confidence \in 0..100
    BY Zenon, <2>2 DEF CatsOK
  <2>4. Kept(n) = Best(Detected(n, local), Detected(n, ext))
    BY Zenon, <1>10
  <2> HIDE DEF D
  <2>5. Top(D) # {}
    BY Zenon, <2>1, <2>3, TopThere
  <2>6. Kept(n) # {} /\ Kept(n) \subseteq D
    BY Zenon, <1>3, <2>4, <2>5 DEF D
  <2>7. PICK d \in Kept(n) : d \in D
    BY Zenon, <2>6
  <2> HIDE DEF Kept, names
  <2>8. d \in cats
    BY Zenon, <1>10, <2>7
  <2>. QED  BY Zenon, <2>2, <2>7, <2>8 DEF Detections
<1>11. ASSUME \A n \in names : ~Counts(n)
       PROVE  \/ Detections(local.categories) \cup Detections(ext.categories) = {}
              \/ /\ logic = "all_violation"
                 /\ Detections(local.categories) \cap Detections(ext.categories) = {}
  <2>1. CASE logic \in {"any_violation", "weighted"}
    <3>1. ASSUME NEW d \in all, d.detected PROVE FALSE
      <4>1. d.category \in names /\ d \in Listed(d.category, local) \cup Listed(d.category, ext)
        BY Zenon, <3>1 DEF Listed
      <4>2. Counts(d.category)
        BY Zenon, <2>1, <3>1, <4>1 DEF MergeDetects
      <4>. QED  BY Zenon, <1>11, <4>1, <4>2
    <3>. QED  BY Zenon, <3>1 DEF Detections
  <2>2. CASE logic = "all_violation"
    <3>1. ASSUME NEW n \in Detections(local.categories), n \in Detections(ext.categories) PROVE FALSE
      <4>1. PICK d \in local.categories : d.category = n
        BY Zenon, <3>1 DEF Detections
      <4>2. PICK e \in ext.categories : e.detected /\ e.category = n
        BY Zenon, <3>1 DEF Detections
      <4>3. n \in names /\ d \in Listed(n, local) /\ e \in Listed(n, ext)
        BY Zenon, <4>1, <4>2 DEF Listed
      <4>4. \A x \in Listed(n, local) \cup Listed(n, ext) : x.detected
        BY Zenon, <4>2 DEF Listed, Once
      <4>5. Counts(n)
        BY Zenon, <2>2, <4>3, <4>4 DEF MergeDetects
      <4>. QED  BY Zenon, <1>11, <4>3, <4>5
    <3>2. Detections(local.categories) \cap Detections(ext.categories) = {}
      BY Zenon, <3>1
    <3>. QED  BY Zenon, <2>2, <3>2
  <2>. QED  BY Zenon, <2>1, <2>2 DEF MergeLogics
<1> HIDE DEF names, Counts, cats
<1>. QED  BY Zenon, <1>2, <1>7, <1>8, <1>10, <1>11

-----------------------------------------------------------------------------
(* Guardrails in the pipeline *)

\* Why a text that was let through could be: the configured logic has no objection.
Passed(r) ==
  LET failed == load.guard.send /\ ctx[r].ext = Unavailable
      claims == Claims(ctx[r].ext)
  IN  \/ failed /\ load.guard.failBehavior # "fallback_local"
      \/ "" \in LocalClaims(r) \cup claims
      \/ LocalClaims(r) \cup claims = {}
      \/ /\ load.guard.send /\ ~failed
         /\ load.guard.mergeLogic = "all_violation"
         /\ LocalClaims(r) \cap claims = {}

\* A classifier is asked only where it is configured, once the body was read, and
\* what it answered stays until the verdict.
GuardSound(r) ==
  /\ ctx[r].ext \in {NoAnswer} \cup IF load.guard.send THEN load.answers \cup {Unavailable} ELSE {}
  /\ pc[r] \notin {"classify", "verdict", "handler", "post", "done"} =>
       ~ctx[r].checked /\ ctx[r].ext = NoAnswer
  /\ pc[r] = "classify" => load.guard.send
  /\ pc[r] = "verdict" /\ load.guard.send => ctx[r].ext # NoAnswer
  /\ (pc[r] = "handler" \/ ctx[r].served) /\ ctx[r].checked => Passed(r)
  /\ ctx[r].rule # "" => ctx[r].rule \in LocalClaims(r) \cup Claims(ctx[r].ext)

\* To have asked nobody is not to have had no answer.
LEMMA NoAnswerApart == NoAnswer # Unavailable
<1>1. DOMAIN NoAnswer = {"answer"} /\ DOMAIN Unavailable = {"error"}
  BY Zenon DEF NoAnswer, Unavailable
<1>. QED  BY Zenon, <1>1

\* The verdict: what it lets through and what it reports.
LEMMA VerdictSound ==
  ASSUME Shape, NEW r \in Reqs, GuardSound(r), pc[r] = "verdict"
  PROVE  /\ Verdict(r) = Unavailable \/ {} \in classificationToViolation(Verdict(r)) => Passed(r)
         /\ Verdict(r) # Unavailable =>
              \A found \in classificationToViolation(Verdict(r)) : \A v \in found :
                v.rule \in LocalClaims(r) \cup Claims(ctx[r].ext)
<1> SUFFICES ASSUME NEW V, V = Verdict(r)
             PROVE  /\ V = Unavailable \/ {} \in classificationToViolation(V) => Passed(r)
                    /\ V # Unavailable =>
                         \A found \in classificationToViolation(V) : \A v \in found :
                           v.rule \in LocalClaims(r) \cup Claims(ctx[r].ext)
  BY Zenon
<1> DEFINE g == load.guard
           found0 == LocalCheck(g, Req(r).text, "input")
           local == violationToClassification(found0)
           claims == Claims(ctx[r].ext)
           ext == IF ctx[r].ext \in {NoAnswer, Unavailable} THEN Unavailable
                  ELSE ParseAnswer(g.type, ctx[r].ext)
           Goal == /\ V = Unavailable \/ {} \in classificationToViolation(V) => Passed(r)
                   /\ V # Unavailable =>
                        \A found \in classificationToViolation(V) : \A v \in found :
                          v.rule \in LocalClaims(r) \cup claims
<1>1. V = classify(g, local, ext)
  BY Zenon DEF Verdict, ClassifyLocally
<1>2. /\ g.send \in BOOLEAN /\ g.mergeLogic \in MergeLogics
      /\ g.type \in {"openai", "anthropic", "llamaguard", "local"}
      /\ \A a \in load.answers : Answered(g.type, a)
  BY Zenon, GatewayConstants DEF Shape, load
<1>3. LocalClaims(r) = {v.rule : v \in found0}
  BY Zenon DEF LocalClaims
<1> HIDE DEF found0
<1>4. /\ CatsOK(local.categories) /\ \A c \in local.categories : c.detected
      /\ Detections(local.categories) = LocalClaims(r)
      /\ local.violated = (found0 # {}) /\ local # Unavailable
  BY Zenon, <1>3, LocalCats
<1> HIDE DEF local
<1>5. local.violated <=> LocalClaims(r) # {}
  BY Zenon, <1>3, <1>4
<1>6. ctx[r].ext \in {NoAnswer, Unavailable} => claims = {}
  BY Zenon DEF Claims
\* The local verdict alone.
<1>7. ASSUME V = local, ctx[r].ext \in {NoAnswer, Unavailable} PROVE Goal
  <2>1. V # Unavailable /\ ({} \in classificationToViolation(V) => "" \in LocalClaims(r) \/ LocalClaims(r) = {})
    BY Zenon, <1>4, <1>5, <1>7, ReportSound
  <2>2. \A found \in classificationToViolation(V) : \A v \in found : v.rule \in LocalClaims(r)
    BY Zenon, <1>4, <1>7, ReportSound
  <2>3. claims = {}
    BY Zenon, <1>6, <1>7
  <2>. QED  BY Zenon, <2>1, <2>2, <2>3 DEF Passed
<1>8. CASE ~g.send
  <2>1. ctx[r].ext = NoAnswer
    BY Zenon, <1>8 DEF GuardSound
  <2>2. V = local
    BY Zenon, <1>1, <1>8 DEF classify
  <2>. QED  BY Zenon, <1>7, <2>1, <2>2
<1>9. CASE g.send /\ ctx[r].ext = Unavailable
  <2>1. V = FailBehaviorResult(g.failBehavior, local)
    BY Zenon, <1>1, <1>9 DEF classify
  <2>2. CASE g.failBehavior = "fallback_local"
    <3>1. V = local
      BY Zenon, <2>1, <2>2 DEF FailBehaviorResult
    <3>. QED  BY Zenon, <1>7, <1>9, <3>1
  <2>3. CASE g.failBehavior \notin {"fallback_local", "fail_open", "fail_closed"}
    <3>1. V = local
      BY Zenon, <2>1, <2>3 DEF FailBehaviorResult
    <3>. QED  BY Zenon, <1>7, <1>9, <3>1
  <2>4. CASE g.failBehavior \in {"fail_open", "fail_closed"}
    <3>1. V = Unavailable \/ V = Safe
      BY Zenon, <2>1, <2>4 DEF FailBehaviorResult
    <3>2. Safe.categories = {}
      BY Zenon, ResultFields DEF Safe
    <3>3. \A found \in classificationToViolation(Safe) : \A v \in found : FALSE
      BY Zenon, <3>2, NoCats, ReportSound
    <3>4. Passed(r)
      BY Zenon, <1>9, <2>4 DEF Passed
    <3>. QED  BY Zenon, <3>1, <3>3, <3>4
  <2>. QED  BY Zenon, <2>2, <2>3, <2>4
<1>10. CASE g.send /\ ctx[r].ext # Unavailable
  <2>1. ctx[r].ext \in load.answers /\ ctx[r].ext # NoAnswer
    BY Zenon, <1>10 DEF GuardSound
  <2>2. Answered(g.type, ctx[r].ext) /\ ext = ParseAnswer(g.type, ctx[r].ext)
    BY Zenon, <1>2, <1>10, <2>1
  <2>3. /\ CatsOK(ext.categories) /\ Once(ext.categories)
        /\ Detections(ext.categories) = claims /\ ext # Unavailable
    BY Zenon, <1>2, <2>2, AnswerCats
  <2> HIDE DEF ext, claims
  <2>4. V = mergeResults(g.mergeLogic, local, ext)
    BY Zenon, <1>1, <1>10, <2>3 DEF classify
  <2>5. /\ V # Unavailable /\ CatsOK(V.categories)
        /\ Detections(V.categories) \subseteq LocalClaims(r) \cup claims
        /\ V.violated => Detections(V.categories) # {}
        /\ ~V.violated =>
              \/ LocalClaims(r) \cup claims = {}
              \/ /\ g.mergeLogic = "all_violation"
                 /\ LocalClaims(r) \cap claims = {}
    <3> DEFINE lc == Detections(local.categories)
               ec == Detections(ext.categories)
    <3>1. /\ V # Unavailable /\ CatsOK(V.categories)
          /\ Detections(V.categories) \subseteq lc \cup ec
          /\ V.violated => Detections(V.categories) # {}
          /\ ~V.violated => lc \cup ec = {} \/ (g.mergeLogic = "all_violation" /\ lc \cap ec = {})
      <4> SUFFICES ASSUME NEW logic \in MergeLogics, logic = g.mergeLogic, V = mergeResults(logic, local, ext)
                   PROVE  /\ V # Unavailable /\ CatsOK(V.categories)
                          /\ Detections(V.categories) \subseteq lc \cup ec
                          /\ V.violated => Detections(V.categories) # {}
                          /\ ~V.violated => lc \cup ec = {} \/ (logic = "all_violation" /\ lc \cap ec = {})
        BY Zenon, <1>2, <2>4
      <4>. QED  BY Zenon, <1>4, <2>3, MergeSound
    <3>. QED  BY Zenon, <1>4, <2>3, <3>1
  <2>6. \A found \in classificationToViolation(V) : \A v \in found : v.rule \in LocalClaims(r) \cup claims
    BY Zenon, <2>5, ReportSound
  <2>7. {} \in classificationToViolation(V) =>
          \/ LocalClaims(r) \cup claims = {}
          \/ "" \in LocalClaims(r) \cup claims
          \/ g.mergeLogic = "all_violation" /\ LocalClaims(r) \cap claims = {}
    BY Zenon, <2>5, ReportSound
  <2>8. {} \in classificationToViolation(V) => Passed(r)
    BY Zenon, <1>10, <2>7 DEF Passed, claims
  <2>. QED  BY Zenon, <2>5, <2>6, <2>8 DEF claims
<1>11. Goal
  BY Zenon, <1>2, <1>8, <1>9, <1>10
<1>. QED  BY Zenon, <1>11

\* What is claimed depends on the workload and the answer alone.
LEMMA ClaimsStay ==
  ASSUME load' = load
  PROVE  \A a : Claims(a)' = Claims(a)
<1> SUFFICES ASSUME NEW a PROVE Claims(a)' = Claims(a)
  BY Zenon
<1> DEFINE C(l) == IF a \in {NoAnswer, Unavailable} THEN {}
                   ELSE CASE l.guard.type = "openai" -> {s.category : s \in {x \in a.scores : x.detected}}
                          [] l.guard.type = "anthropic" ->
                               {s.category : s \in {x \in a.scores : /\ ~a.prose /\ x.detected
                                                                     /\ x.confidence >= ThresholdOf(x.category, 70)}}
                          [] l.guard.type = "llamaguard" -> IF a.verdict = "unsafe" THEN a.names ELSE {}
                          [] l.guard.type = "local" -> IF a.matched THEN {"local_pattern"} ELSE {}
<1>1. Claims(a) = C(load) /\ Claims(a)' = C(load')
  BY Zenon DEF Claims
<1> HIDE DEF C
<1>. QED  BY Zenon, <1>1

\* A step of another request keeps the claim.
LEMMA GuardFrame ==
  ASSUME NEW q \in Reqs, GuardSound(q), load' = load, Req(q)' = Req(q), pc'[q] = pc[q],
         ctx'[q].ext = ctx[q].ext, ctx'[q].checked = ctx[q].checked,
         ctx'[q].served = ctx[q].served, ctx'[q].rule = ctx[q].rule
  PROVE  GuardSound(q)'
<1>1. LocalClaims(q)' = LocalClaims(q) /\ \A a : Claims(a)' = Claims(a)
  BY Zenon, ClaimsStay DEF LocalClaims
<1>2. Passed(q)' = Passed(q)
  BY Zenon, <1>1 DEF Passed
<1>. QED  BY Zenon, <1>1, <1>2 DEF GuardSound

\* Every step of a request keeps what is known of its verdict.
LEMMA GuardRequestStep ==
  ASSUME Shape, NEW r \in Reqs, RequestStep(r), AuditSound(r), GuardSound(r)
  PROVE  GuardSound(r)'
<1>1. load' = load /\ Req(r)' = Req(r)
  BY Zenon, RequestShape, LoadStays DEF Only
<1>2. LocalClaims(r)' = LocalClaims(r) /\ \A a : Claims(a)' = Claims(a)
  BY Zenon, <1>1, ClaimsStay DEF LocalClaims
<1>3. ctx'[r].ext = ctx[r].ext => Passed(r)' = Passed(r)
  BY Zenon, <1>1, <1>2 DEF Passed
<1>4. pc[r] \notin {"post", "done"} => ~ctx[r].served /\ ctx[r].rule = ""
  BY Zenon DEF AuditSound
<1> DEFINE Early(s) == s \notin {"classify", "verdict", "handler", "post", "done"}
           Still == SameOutcome(r) /\ SameGuard(r)
<1>5. ASSUME Early(pc[r]), Still, pc'[r] \notin {"classify", "verdict"} PROVE GuardSound(r)'
  BY Zenon, <1>1, <1>2, <1>4, <1>5 DEF GuardSound, SameOutcome, SameGuard
<1>6. \A b \in Buckets : Early(b) /\ b \notin {"classify", "verdict"}
  BY Zenon DEF Buckets
<1>7. Authenticate(r) \/ LookupTenant(r) => GuardSound(r)'
  BY Zenon, <1>5, AuthenticateDoes, LookupTenantDoes
<1>8. CheckEnvelope(r) \/ CheckGeneration(r) => GuardSound(r)'
  BY Zenon, <1>5, CheckEnvelopeDoes, CheckGenerationDoes
<1>9. CheckFanOut(r) \/ SpendBudget(r) => GuardSound(r)'
  BY Zenon, <1>5, CheckFanOutDoes, SpendBudgetDoes
<1>10. ResolveLimits(r) => GuardSound(r)'
  BY Zenon, <1>5, ResolveLimitsDoes
<1>11. ASSUME NEW b \in Buckets, ChargeBucket(r, b) PROVE GuardSound(r)'
  <2>1. pc[r] = b /\ Still /\ pc'[r] \in Buckets \cup {"audit", "done"}
    BY Zenon, <1>11, ChargeBucketDoes
  <2>. QED  BY Zenon, <1>5, <1>6, <2>1
<1>12. AuditRequest(r) => GuardSound(r)'
  BY Zenon, <1>5, AuditRequestDoes DEF SameOutcome, SameGuard
<1>13. CASE ReadBody(r)
  <2>1. pc[r] = "guard" /\ SameOutcome(r) /\ ~ctx[r].checked /\ ctx[r].ext = NoAnswer
    BY Zenon, <1>13, ReadBodyDoes DEF GuardSound
  <2>2. ~ctx'[r].served /\ ctx'[r].rule = ""
    BY Zenon, <1>4, <2>1 DEF SameOutcome
  <2>3. CASE pc'[r] = "handler" /\ SameGuard(r)
    BY Zenon, <1>5, <2>1, <2>3
  <2>4. CASE pc'[r] = "verdict" /\ ~load.guard.send /\ ctx'[r].ext = ctx[r].ext
    BY Zenon, <1>1, <2>1, <2>2, <2>4 DEF GuardSound
  <2>5. CASE pc'[r] = "verdict" /\ load.guard.send /\ ctx'[r].ext \in load.answers
    <3>1. ctx'[r].ext # NoAnswer
      BY Zenon, <2>5, GatewayConstants DEF Shape, load, Answered
    <3>. QED  BY Zenon, <1>1, <2>2, <2>5, <3>1 DEF GuardSound
  <2>6. CASE pc'[r] = "classify" /\ load.guard.send /\ ctx'[r].ext = ctx[r].ext
    BY Zenon, <1>1, <2>1, <2>2, <2>6 DEF GuardSound
  <2>. QED  BY Zenon, <1>13, <2>3, <2>4, <2>5, <2>6, ReadBodyDoes
<1>14. CASE Attempt(r)
  <2>1. pc[r] = "classify" /\ SameOutcome(r) /\ ctx'[r].checked = ctx[r].checked
    BY Zenon, <1>14, AttemptDoes
  <2>2. ~ctx'[r].served /\ ctx'[r].rule = ""
    BY Zenon, <1>4, <2>1 DEF SameOutcome
  <2>3. CASE pc'[r] = "classify" /\ ctx'[r].ext = ctx[r].ext
    BY Zenon, <1>1, <2>1, <2>2, <2>3 DEF GuardSound
  <2>4. CASE pc'[r] = "verdict" /\ ctx'[r].ext \in load.answers \cup {Unavailable}
    <3>1. ctx'[r].ext # NoAnswer
      BY Zenon, <2>4, GatewayConstants, NoAnswerApart DEF Shape, load, Answered
    <3>2. load.guard.send
      BY Zenon, <2>1, <1>14 DEF GuardSound
    <3>. QED  BY Zenon, <1>1, <2>2, <2>4, <3>1, <3>2 DEF GuardSound
  <2>. QED  BY Zenon, <1>14, <2>3, <2>4, AttemptDoes
<1>15. CASE Judge(r)
  <2>1. pc[r] = "verdict" /\ SameGuard(r) /\ ctx'[r].served = ctx[r].served
    BY Zenon, <1>15, JudgeDoes
  <2>2. ~ctx'[r].served /\ ctx[r].rule = ""
    BY Zenon, <1>4, <2>1
  <2>3. CASE pc'[r] = "handler"
    <3>1. ctx'[r].rule = ctx[r].rule /\ (Verdict(r) = Unavailable \/ {} \in classificationToViolation(Verdict(r)))
      BY Zenon, <1>15, <2>3, JudgeDoes
    <3>2. Passed(r)
      BY Zenon, <2>1, <3>1, VerdictSound
    <3>. QED  BY Zenon, <1>1, <1>3, <2>1, <2>2, <2>3, <3>1, <3>2 DEF GuardSound, SameGuard
  <2>4. CASE pc'[r] # "handler"
    <3>1. /\ pc'[r] = "post" /\ Verdict(r) # Unavailable
          /\ \E found \in classificationToViolation(Verdict(r)) : \E v \in found :
               /\ ctx'[r].rule = v.rule
               /\ MayAppend([req |-> r, type |-> "guardrail_violation", severity |-> v.severity, code |-> 0])
      BY Zenon, <1>15, <2>4, JudgeDoes
    <3>2. PICK found \in classificationToViolation(Verdict(r)) : \E v \in found : ctx'[r].rule = v.rule
      BY Zenon, <3>1
    <3>3. PICK v \in found : ctx'[r].rule = v.rule
      BY Zenon, <3>2
    <3>4. v.rule \in LocalClaims(r) \cup Claims(ctx[r].ext)
      BY Zenon, <2>1, <3>1, <3>2, <3>3, VerdictSound
    <3>. QED  BY Zenon, <1>1, <1>2, <2>1, <2>2, <3>1, <3>3, <3>4 DEF GuardSound, SameGuard
  <2>. QED  BY Zenon, <2>3, <2>4
<1>16. CASE Handle(r)
  <2>1. pc[r] = "handler" /\ pc'[r] \in {"post", "done"} /\ SameGuard(r) /\ ctx'[r].rule = ctx[r].rule
    BY Zenon, <1>16, HandleDoes
  <2>. QED  BY Zenon, <1>1, <1>2, <1>3, <2>1 DEF GuardSound, SameGuard
<1>17. CASE AuditResponse(r)
  <2>1. pc[r] = "post" /\ pc'[r] = "done" /\ ctx'[r] = ctx[r]
    BY Zenon, <1>17, AuditResponseDoes
  <2>. QED  BY Zenon, <1>1, <1>2, <1>3, <2>1 DEF GuardSound
<1> HIDE DEF Early, Still
<1>. QED  BY Zenon, <1>7, <1>8, <1>9, <1>10, <1>11, <1>12, <1>13, <1>14, <1>15, <1>16, <1>17 DEF RequestStep

\* The inductive invariant of the verdicts.
GuardInv == AuditInv /\ \A r \in Reqs : GuardSound(r)

\* At first nothing was judged.
LEMMA GuardInvInit == Init => GuardInv
<1> SUFFICES ASSUME Init, NEW r \in Reqs PROVE GuardSound(r)
  BY Zenon, AuditInvInit DEF GuardInv
<1>1. ctx[r] = FreshCtx /\ pc[r] \in {"start", "done"}
  BY Zenon DEF Init
<1>2. FreshCtx.ext = NoAnswer /\ ~FreshCtx.checked /\ FreshCtx.rule = ""
  BY Zenon DEF FreshCtx
<1>. QED  BY Zenon, <1>1, <1>2 DEF GuardSound

\* Every step keeps it.
LEMMA GuardInvStep ==
  ASSUME GuardInv, [Next]_vars
  PROVE  GuardInv'
<1>1. AuditInv /\ Shape /\ AuditInv'
  BY Zenon, AuditInvStep DEF GuardInv, AuditInv
<1> SUFFICES ASSUME NEW q \in Reqs PROVE GuardSound(q)'
  BY Zenon, <1>1 DEF GuardInv
<1>2. GuardSound(q)
  BY Zenon DEF GuardInv
<1>3. ASSUME NEW r \in Reqs, RequestStep(r) PROVE GuardSound(q)'
  <2>1. Only(r) /\ load' = load /\ Req(q)' = Req(q)
    BY Zenon, <1>1, <1>3, RequestShape, LoadStays DEF Only
  <2>2. CASE q = r
    BY Zenon, <1>1, <1>2, <1>3, <2>2, GuardRequestStep DEF AuditInv
  <2>3. CASE q # r
    <3>1. pc'[q] = pc[q] /\ ctx'[q] = ctx[q]
      BY Zenon, <2>1, <2>3 DEF Only
    <3>. QED  BY Zenon, <1>2, <2>1, <3>1, GuardFrame
  <2>. QED  BY Zenon, <2>2, <2>3
<1>4. CASE Elsewhere
  BY Zenon, <1>2, <1>4, LoadStays, GuardFrame DEF Elsewhere, gateVars
<1>5. ASSUME NEW t \in Tenants, NEW st, SetTenantStatus(t, st) PROVE GuardSound(q)'
  <2>1. load' = load /\ Req(q)' = Req(q) /\ pc'[q] = pc[q]
    BY Zenon, <1>5, LoadStays DEF SetTenantStatus
  <2>2. SameOutcome(q) /\ SameGuard(q)
    BY Zenon, <1>1, <1>5, SetTenantStatusDoes
  <2>. QED  BY Zenon, <1>2, <2>1, <2>2, GuardFrame DEF SameOutcome, SameGuard
<1>. QED  BY Zenon, <1>3, <1>4, <1>5, StepKinds

\* For any configuration of the guardrails and any answers, errors and retries: a
\* judged request is served only if the classifiers do not object by the
\* configured logic, and is refused for something that one of them claimed
\* (composite.go:76-186, 391-526, 615-652).
THEOREM BlockedForReason == Spec => []BlockedForCause
<1>1. GuardInv => BlockedForCause
  <2> SUFFICES ASSUME GuardInv, NEW r \in Reqs
               PROVE  /\ ctx[r].served /\ ctx[r].checked => Passed(r)
                      /\ ctx[r].rule # "" => ctx[r].rule \in LocalClaims(r) \cup Claims(ctx[r].ext)
    BY Zenon DEF BlockedForCause, Passed
  <2>. QED  BY Zenon DEF GuardInv, GuardSound
<1>2. GuardInv /\ [Next]_vars => GuardInv'
  BY Zenon, GuardInvStep
<1>. QED  BY <1>1, <1>2, GuardInvInit, PTL DEF Spec
-----------------------------------------------------------------------------
(* Requests advance *)

\* The stages in the order in which router.go mounts the middleware.
Place ==
  [start |-> 1, tenant |-> 2, envelope |-> 3, generation |-> 4, fanout |-> 5, budget |-> 6,
   limits |-> 7, requests |-> 8, tokens |-> 9, tool_execs |-> 10, audit |-> 11, guard |-> 12,
   classify |-> 13, verdict |-> 14, handler |-> 15, post |-> 16, done |-> 17]

\* The request comes to a later stage, or tries its classifier once more while it
\* has tried it less than MaxAttempts times.
Advances(r) ==
  \/ Place[pc[r]] < Place[pc'[r]]
  \/ /\ pc[r] = "classify" /\ pc'[r] = "classify"
     /\ ctx[r].attempt < MaxAttempts /\ ctx'[r].attempt = ctx[r].attempt + 1

\* Whatever requests, administrators and failures do: a request stays where it is,
\* with the attempts it has made, or advances.
RequestsAdvance ==
  [][\A r \in Reqs :
       (pc'[r] = pc[r] /\ ctx'[r].attempt = ctx[r].attempt) \/ Advances(r)]_vars

\* The stages that may follow a stage come later.
LEMMA PlacesInOrder ==
  /\ Place["start"] < Place["tenant"]
  /\ Place["tenant"] < Place["envelope"] /\ Place["tenant"] < Place["limits"]
  /\ Place["envelope"] < Place["generation"]
  /\ Place["generation"] < Place["fanout"] /\ Place["generation"] < Place["budget"]
  /\ Place["fanout"] < Place["budget"] /\ Place["budget"] < Place["limits"]
  /\ Place["limits"] < Place["requests"] /\ Place["requests"] < Place["tokens"]
  /\ Place["tokens"] < Place["tool_execs"] /\ Place["tool_execs"] < Place["audit"]
  /\ Place["audit"] < Place["guard"] /\ Place["audit"] < Place["handler"]
  /\ Place["guard"] < Place["classify"] /\ Place["guard"] < Place["verdict"]
  /\ Place["guard"] < Place["handler"]
  /\ Place["classify"] < Place["verdict"]
  /\ Place["verdict"] < Place["handler"] /\ Place["verdict"] < Place["post"]
  /\ Place["handler"] < Place["post"]
  /\ \A s \in Stages \ {"done"} : Place[s] < Place["done"]
BY DEF Place, Stages

\* A bucket is followed by the next one, by the audit or by the refusal.
LEMMA ChargeAdvances ==
  ASSUME Shape, NEW r \in Reqs, NEW b \in Buckets, ChargeBucket(r, b)
  PROVE  Place[pc[r]] < Place[pc'[r]]
<1>1. pc[r] = b /\ (Goto(r, NextBucket[b]) \/ Goto(r, "done"))
  BY Zenon DEF ChargeBucket, NextCharge, LimiterFails, Refuse
<1>2. pc'[r] = NextBucket[b] \/ pc'[r] = "done"
  BY Zenon, <1>1 DEF Goto, Shape
<1>3. \/ b = "requests" /\ NextBucket[b] = "tokens"
      \/ b = "tokens" /\ NextBucket[b] = "tool_execs"
      \/ b = "tool_execs" /\ NextBucket[b] = "audit"
  BY DEF Buckets, NextBucket
<1>4. b \in Stages \ {"done"}
  BY Zenon, <1>3 DEF Stages
<1>. QED  BY Zenon, <1>1, <1>2, <1>3, <1>4, PlacesInOrder

\* A further attempt at the classifier is counted.
LEMMA AttemptAdvances ==
  ASSUME Shape, NEW r \in Reqs, Attempt(r)
  PROVE  Advances(r)
<1>1. /\ pc[r] = "classify"
      /\ \/ /\ ctx[r].attempt < MaxAttempts /\ pc' = pc
            /\ ctx' = [ctx EXCEPT ![r].attempt = ctx[r].attempt + 1]
         \/ pc' = [pc EXCEPT ![r] = "verdict"]
  BY Zenon DEF Attempt, Retry, Goto
<1>2. CASE pc' = [pc EXCEPT ![r] = "verdict"]
  <2>1. pc'[r] = "verdict"
    BY Zenon, <1>2 DEF Shape
  <2>. QED  BY Zenon, <1>1, <2>1, PlacesInOrder DEF Advances
<1>3. CASE /\ ctx[r].attempt < MaxAttempts /\ pc' = pc
           /\ ctx' = [ctx EXCEPT ![r].attempt = ctx[r].attempt + 1]
  <2>1. DOMAIN ctx = Reqs /\ "attempt" \in DOMAIN ctx[r]
    BY Zenon DEF Shape, Fields
  <2>2. ctx'[r].attempt = ctx[r].attempt + 1
    BY Zenon, <1>3, <2>1
  <2>. QED  BY Zenon, <1>1, <1>3, <2>2 DEF Advances
<1>. QED  BY Zenon, <1>1, <1>2, <1>3

\* Each step of a request brings it further.
LEMMA RequestAdvances ==
  ASSUME Shape, NEW r \in Reqs, RequestStep(r)
  PROVE  Advances(r)
<1> DEFINE Further == Place[pc[r]] < Place[pc'[r]]
<1>0. \A s : (s = "start" \/ s = "tenant" \/ s = "envelope" \/ s = "generation" \/ s = "fanout"
              \/ s = "budget" \/ s = "handler" \/ s = "post") => Place[s] < Place["done"]
  BY Zenon, PlacesInOrder DEF Stages
<1>1. Authenticate(r) => Further
  BY Zenon, <1>0, AuthenticateDoes, PlacesInOrder
<1>2. LookupTenant(r) => Further
  BY Zenon, <1>0, LookupTenantDoes, PlacesInOrder
<1>3. CheckEnvelope(r) => Further
  BY Zenon, <1>0, CheckEnvelopeDoes, PlacesInOrder
<1>4. CheckGeneration(r) => Further
  BY Zenon, <1>0, CheckGenerationDoes, PlacesInOrder
<1>5. CheckFanOut(r) => Further
  BY Zenon, <1>0, CheckFanOutDoes, PlacesInOrder
<1>6. SpendBudget(r) => Further
  BY Zenon, <1>0, SpendBudgetDoes, PlacesInOrder
<1>7. ResolveLimits(r) => Further
  BY Zenon, ResolveLimitsDoes, PlacesInOrder
<1>8. ASSUME NEW b \in Buckets, ChargeBucket(r, b) PROVE Further
  BY Zenon, <1>8, ChargeAdvances
<1>9. AuditRequest(r) => Further
  BY Zenon, AuditRequestDoes, PlacesInOrder
<1>10. ReadBody(r) => Further
  BY Zenon, ReadBodyDoes, PlacesInOrder
<1>11. ASSUME Judge(r) PROVE Further
  <2>1. pc[r] = "verdict" /\ (pc'[r] = "handler" \/ pc'[r] = "post")
    BY Zenon, <1>11, JudgeDoes
  <2>. QED  BY Zenon, <2>1, PlacesInOrder
<1>12. Handle(r) => Further
  BY Zenon, <1>0, HandleDoes, PlacesInOrder
<1>13. AuditResponse(r) => Further
  BY Zenon, <1>0, AuditResponseDoes
<1> HIDE DEF Further
<1>14. Further \/ Attempt(r)
  BY Zenon, <1>1, <1>2, <1>3, <1>4, <1>5, <1>6, <1>7, <1>8, <1>9, <1>10, <1>11, <1>12, <1>13
     DEF RequestStep
<1>. QED  BY Zenon, <1>14, AttemptAdvances DEF Further, Advances

\* For any workload: a request never comes to a stage again, so it is answered
\* after at most as many steps as there are stages and attempts.
THEOREM PipelineProgress == Spec => RequestsAdvance
<1> DEFINE A == \A r \in Reqs :
                  (pc'[r] = pc[r] /\ ctx'[r].attempt = ctx[r].attempt) \/ Advances(r)
<1>1. ASSUME Shape, [Next]_vars PROVE A
  <2>1. CASE Elsewhere
    BY Zenon, <2>1 DEF Elsewhere, gateVars
  <2>2. ASSUME NEW t \in Tenants, NEW st, SetTenantStatus(t, st) PROVE A
    <3>1. pc' = pc
      BY Zenon, <2>2 DEF SetTenantStatus
    <3>2. ASSUME NEW r \in Reqs PROVE ctx'[r].attempt = ctx[r].attempt
      <4>1. ctx'[r] = IF st = "active" /\ r \in DOMAIN load.reqs /\ Req(r).tenant = t
                        THEN [ctx[r] EXCEPT !.void = @ \ {"tenant"}] ELSE ctx[r]
        BY Zenon, <2>2 DEF SetTenantStatus
      <4>2. DOMAIN ctx[r] = Fields
        BY Zenon, <1>1 DEF Shape
      <4>. QED  BY Zenon, <4>1, <4>2 DEF Fields
    <3>. QED  BY Zenon, <3>1, <3>2
  <2>3. ASSUME NEW r \in Reqs, RequestStep(r) PROVE A
    <3>1. Only(r) /\ Advances(r)
      BY Zenon, <1>1, <2>3, RequestShape, RequestAdvances
    <3>2. ASSUME NEW q \in Reqs PROVE (pc'[q] = pc[q] /\ ctx'[q] = ctx[q]) \/ Advances(q)
      BY Zenon, <3>1 DEF Only
    <3>. QED  BY Zenon, <3>2
  <2>. QED  BY Zenon, <1>1, <2>1, <2>2, <2>3, StepKinds
<1>2. Shape /\ [Next]_vars => [A]_vars
  BY Zenon, <1>1
<1> HIDE DEF A
<1>3. Spec => [][A]_vars
  BY <1>2, ShapeHolds, PTL DEF Spec
<1>. QED  BY <1>3 DEF A, RequestsAdvance
==============================================================================
