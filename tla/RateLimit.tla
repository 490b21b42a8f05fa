------------------------------- MODULE RateLimit -------------------------------
(***************************************************************************)
(* The rate limiter: the GCRA script that Redis runs for every bucket       *)
(* (internal/adapter/redis/ratelimit.go), the quotas it is given            *)
(* (RedisQuotaResolver over the quotas table) and the admin endpoint that   *)
(* creates them (internal/api/handlers/admin_quotas.go).  GET is a read, and *)
(* PATCH and DELETE answer 400 before they reach the use case, because the   *)
(* route has no scope_id parameter.                                         *)
(*                                                                         *)
(* Time is counted in units small enough for every emission interval to be  *)
(* a whole number of them.  A script runs atomically, but on the time that  *)
(* the gateway read before it called Redis (the stamp of the request).      *)
(***************************************************************************)
EXTENDS Naturals

CONSTANTS Tenants, Users,
          NoUser,           \* the zero scope id of a tenant quota
          Window,           \* one minute
          DefaultQuota,     \* DefaultQuotas(): a limit per bucket
          TokenCost,        \* estimateTokenCost
          MaxTime           \* bound on the clock

Buckets == {"requests", "tokens", "tool_execs"}

\* The limits of a quota are positive (AdminQuotasHandler.Create) and divide the
\* window in the chosen unit of time.
Quota == {q \in [Buckets -> 1..Window] : \A b \in Buckets : Window % q[b] = 0}

ASSUME RateLimitConstants ==
  /\ NoUser \notin Users
  /\ Window \in Nat \ {0}
  /\ TokenCost \in Nat \ {0}
  /\ MaxTime \in Nat
  /\ DefaultQuota \in Quota

VARIABLES now,      \* the clock, the gateway's and Redis's
          tat,      \* value and expiry of each bucket's key
          quota,    \* rows of the quotas table, by tenant and user
          bursts    \* history: what each bucket admitted since its key was set

rateVars == <<now, tat, quota, bursts>>

Keys == Tenants \X Buckets
Scopes == Tenants \X (Users \cup {NoUser})

NoKey == [at |-> 0, exp |-> 0]
NoQuota == [b \in Buckets |-> 0]

\* spans: for every admitted request, its stamp and the load, in emission
\* intervals, admitted from it on.  ceiling: what the load may reach.
NoBurst == [spans |-> {}, ceiling |-> 0]

RateTypeOK ==
  /\ now \in 0..MaxTime
  /\ tat \in [Keys -> [at : Nat, exp : Nat]]
  /\ quota \in [Scopes -> Quota \cup {NoQuota}]
  /\ bursts \in [Keys -> [spans : SUBSET [start : Nat, load : Nat], ceiling : Nat]]

RateInit ==
  /\ now = 0
  /\ tat = [k \in Keys |-> NoKey]
  /\ quota = [s \in Scopes |-> NoQuota]
  /\ bursts = [k \in Keys |-> NoBurst]

-----------------------------------------------------------------------------
(* Quotas *)

\* The row of a scope; no row is an error, which the resolver takes for no quota.
GetByScope(s) == quota[s]

MaxOf(S) == CHOOSE x \in S : \A y \in S : y <= x

\* GetEffectiveLimit: the highest of the tenant's and the user's limit, of those
\* whose lookup succeeded (found); the default if there is none.  The role's
\* quota is never asked for, the middleware has no role id.
GetEffectiveLimit(found, b) ==
  LET limit == MaxOf({0} \cup {GetByScope(s)[b] : s \in found})
  IN  IF limit = 0 THEN DefaultQuota[b] ELSE limit

\* Create: refused if the scope has a quota already.
CreateQuota(s, q) ==
  /\ GetByScope(s) = NoQuota
  /\ quota' = [quota EXCEPT ![s] = q]
  /\ UNCHANGED <<now, tat, bursts>>

-----------------------------------------------------------------------------
(* The script *)

\* Cost of a request in a bucket.  The middleware asks for no tool executions,
\* and Allow turns a cost of zero into one.
CostIn(b) == IF b = "tokens" THEN TokenCost ELSE 1

EmissionInterval(limit) == Window \div limit

Increment(b, limit) == EmissionInterval(limit) * CostIn(b)

Larger(x, y) == IF x >= y THEN x ELSE y

\* Redis has the key: an expired one is not found.
Live(k) == tat[k].exp > now

\* Mutant: the stored arrival time is used even if it has passed.
Arrival_Stored(k, stamp) == IF Live(k) THEN tat[k].at ELSE stamp

\* math.max(tat, now), where tat is now for a missing key.
Arrival(k, stamp) == IF Live(k) THEN Larger(tat[k].at, stamp) ELSE stamp

NewTat(k, limit, stamp) == Arrival(k, stamp) + Increment(k[2], limit)

\* new_tat - now <= ttl + emission_interval
Fits(newTat, limit, stamp) == newTat <= stamp + Window + EmissionInterval(limit)

Allowed(k, limit, stamp) == Fits(NewTat(k, limit, stamp), limit, stamp)

KeyTtl(limit) == Window + EmissionInterval(limit)

\* Mutant: counted from the arrival time before the refused request.
RetryAfter_Arrival(k, limit, stamp) ==
  Larger(Arrival(k, stamp), stamp + Window) - stamp - Window

\* retry_after, for a request that was refused.
RetryAfter(k, limit, stamp) == NewTat(k, limit, stamp) - stamp - Window

Admitted(k, limit, stamp) ==
  LET inc == Increment(k[2], limit)
      old == IF Live(k) THEN bursts[k].spans ELSE {}
  IN  [spans |-> {[start |-> s.start, load |-> s.load + inc] : s \in old}
                   \cup {[start |-> stamp, load |-> inc]},
       ceiling |-> stamp + Window + EmissionInterval(limit)]

\* SET ... PX of the allowed branch; a refused request stores nothing.
Charge(k, limit, stamp) ==
  /\ Allowed(k, limit, stamp)
  /\ tat' = [tat EXCEPT ![k] = [at |-> NewTat(k, limit, stamp),
                                exp |-> now + KeyTtl(limit)]]
  /\ bursts' = [bursts EXCEPT ![k] = Admitted(k, limit, stamp)]
  /\ UNCHANGED <<now, quota>>

Tick ==
  /\ now < MaxTime
  /\ now' = now + 1
  /\ UNCHANGED <<tat, quota, bursts>>

-----------------------------------------------------------------------------
(* The limiter by itself, for whatever limits and stamps it is called with *)

RateNext ==
  \/ \E k \in Keys, limit \in 1..Window, stamp \in 0..now : Charge(k, limit, stamp)
  \/ \E s \in Scopes, q \in Quota : CreateQuota(s, q)
  \/ Tick

RateSpec == RateInit /\ [][RateNext]_rateVars

-----------------------------------------------------------------------------
(* Properties *)

\* Counted from any admitted request, what a bucket admits never exceeds what the
\* rate allows in the time since then plus one window and one request: bursts of
\* limit + 1 (ratelimit.go:65), whatever requests race, arrive out of order or
\* bring different limits.  A key expires only when its arrival time has passed,
\* so a bucket that Redis forgets is one with its full burst back
\* (ratelimit.go:68-69).
RateConforms ==
  \A k \in Keys :
    /\ \A s \in bursts[k].spans : s.start + s.load <= bursts[k].ceiling
    /\ tat[k].at <= tat[k].exp
==============================================================================
