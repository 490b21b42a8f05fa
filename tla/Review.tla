-------------------------------- MODULE Review --------------------------------
(***************************************************************************)
(* The human-in-the-loop service: internal/usecase/hitl/hitl.go over        *)
(* internal/adapter/postgres/review_repository.go, as the handlers of       *)
(* internal/api/handlers/review.go call it.  Every operation reads the row, *)
(* checks what it read, and changes the row later with a guarded UPDATE;    *)
(* between the two any other operation, the sweep and the clock may move.   *)
(*                                                                         *)
(* An operation is one HTTP request.  It decides under its own identity, so *)
(* decidedBy and the audit log name operations.                             *)
(***************************************************************************)
EXTENDS Naturals, FiniteSets

CONSTANTS Reviews,
          Ops,              \* HTTP requests that approve, reject or execute
          Tenants,
          TenantOf,         \* tenant of each review
          Revalidates,      \* reviews whose stored row passes re-validation
          NoOne

ASSUME ReviewConstants ==
  /\ TenantOf \in [Reviews -> Tenants]
  /\ Revalidates \subseteq Reviews
  /\ NoOne \notin Ops \cup Reviews

VARIABLES status,       \* column status of each row, "absent" before Create
          decidedBy,    \* column decided_by
          expired,      \* now() has passed expires_at
          pc, kind, target,   \* of each operation
          answer,       \* what each operation returned to its handler
          audit,        \* review events in the audit log
          toSweep       \* tenants a running ExpirePending has not swept yet

row == <<status, decidedBy>>
ops == <<pc, kind, target, answer>>
vars == <<row, expired, ops, audit, toSweep>>

Lifecycle == INSTANCE ReviewLifecycle WITH Reviews <- Reviews, status <- status

Kinds == {"approve", "reject", "execute"}
Steps == {"start", "decide", "invalidate", "mark", "refresh", "done"}
Answers == {"none", "ok", "invalid token", "not pending", "expired",
            "validation", "wrapped", "database", "lost"}
Event == [action : {"created", "approve", "reject", "execute"},
          review : Reviews, by : Ops \cup {NoOne}]

TypeOK ==
  /\ status \in [Reviews -> Lifecycle!Statuses]
  /\ decidedBy \in [Reviews -> Ops \cup {NoOne}]
  /\ expired \in [Reviews -> BOOLEAN]
  /\ pc \in [Ops -> Steps]
  /\ kind \in [Ops -> Kinds]
  /\ target \in [Ops -> Reviews \cup {NoOne}]
  /\ answer \in [Ops -> Answers]
  /\ audit \subseteq Event
  /\ toSweep \subseteq Tenants

Init ==
  /\ status = [v \in Reviews |-> "absent"]
  /\ decidedBy = [v \in Reviews |-> NoOne]
  /\ expired = [v \in Reviews |-> FALSE]
  /\ pc = [o \in Ops |-> "start"]
  /\ kind \in [Ops -> Kinds]
  /\ target = [o \in Ops |-> NoOne]
  /\ answer = [o \in Ops |-> "none"]
  /\ audit = {}
  /\ toSweep = {}

Answer(o, a) ==
  /\ pc' = [pc EXCEPT ![o] = "done"]
  /\ answer' = [answer EXCEPT ![o] = a]

Goto(o, step) == pc' = [pc EXCEPT ![o] = step] /\ UNCHANGED answer

\* auditRepo.Append is fail-open: the event is written or it is not.
MayAppend(e) == audit' \in {audit, audit \cup {e}}

-----------------------------------------------------------------------------
(* Creation *)

\* CreateReview: the row is inserted PENDING, the token is returned, the event
\* is appended if the audit log takes it.
Create(v) ==
  /\ status[v] = "absent"
  /\ status' = [status EXCEPT ![v] = "PENDING"]
  /\ MayAppend([action |-> "created", review |-> v, by |-> NoOne])
  /\ UNCHANGED <<decidedBy, expired, ops, toSweep>>

-----------------------------------------------------------------------------
(* Approve and Reject *)

\* SHA-256 of the opaque token: raw bytes.  GetByTokenHash returns the stored
\* hash as a hex string, which Approve decodes and Reject does not.
HashToken(v) == <<"raw", v>>
StoredTokenHash(v) == <<"hex", v>>
DecodeHex(h) == <<"raw", h[2]>>

TokenMatches(k, v) ==
  IF k = "approve"
    THEN DecodeHex(StoredTokenHash(v)) = HashToken(v)
    ELSE StoredTokenHash(v) = HashToken(v)

\* What the query across all tenants can return for a token: the row of a
\* review that has one, in whatever status, or none (v = NoOne).
GetByTokenHash(v) == v # NoOne => status[v] # "absent"

\* GetByTokenHash and the checks on the row it returned.  A token that belongs
\* to no row gives a wrapped error: the repository compares the driver's "no
\* rows" error with sql.ErrNoRows by ==, which is never true.
Lookup(o, v) ==
  /\ pc[o] = "start"
  /\ kind[o] \in {"approve", "reject"}
  /\ GetByTokenHash(v)
  /\ target' = [target EXCEPT ![o] = v]
  /\ CASE v = NoOne -> Answer(o, "wrapped")
       [] v # NoOne /\ ~TokenMatches(kind[o], v) -> Answer(o, "invalid token")
       [] v # NoOne /\ TokenMatches(kind[o], v) ->
            CASE status[v] # "PENDING" -> Answer(o, "not pending")
              [] status[v] = "PENDING" /\ expired[v] -> Answer(o, "expired")
              [] status[v] = "PENDING" /\ ~expired[v] ->
                   IF kind[o] = "approve" /\ v \notin Revalidates
                     THEN Goto(o, "invalidate")
                     ELSE Goto(o, "decide")
  /\ UNCHANGED <<row, expired, kind, audit, toSweep>>

\* Mutant: the UPDATE is not guarded by the status.
Decidable_AnyStatus(v) == ~expired[v]

\* Mutant: the UPDATE is not guarded by expires_at.
Decidable_Late(v) == status[v] = "PENDING"

\* WHERE status = 'PENDING' AND expires_at > now()
Decidable(v) == status[v] = "PENDING" /\ ~expired[v]

Decision(k) == IF k = "approve" THEN "APPROVED" ELSE "REJECTED"

SetStatus(o, to) ==
  /\ status' = [status EXCEPT ![target[o]] = to]
  /\ decidedBy' = [decidedBy EXCEPT ![target[o]] = o]

\* UpdateStatus: the guarded UPDATE.  It runs on a connection of its own, so
\* the tenant transaction around it can still fail to commit after the row has
\* changed (an error with effect).  An UPDATE that finds no row gives a wrapped
\* error, by the comparison with sql.ErrNoRows again.
Decide(o) ==
  /\ pc[o] = "decide"
  /\ \/ /\ Decidable(target[o])
        /\ SetStatus(o, Decision(kind[o]))
        /\ Goto(o, "refresh") \/ Answer(o, "database")
     \/ ~Decidable(target[o]) /\ UNCHANGED row /\ Answer(o, "wrapped")
  /\ UNCHANGED <<expired, kind, target, audit, toSweep>>

\* rejectWithReason after a failed re-validation; its error is dropped.
Invalidate(o) ==
  /\ pc[o] = "invalidate"
  /\ IF Decidable(target[o]) THEN SetStatus(o, "REJECTED") ELSE UNCHANGED row
  /\ Answer(o, "validation")
  /\ UNCHANGED <<expired, kind, target, audit, toSweep>>

-----------------------------------------------------------------------------
(* Execute *)

\* The tenant's row with the id; without one the error is wrapped.
GetByID(t, v) == t = TenantOf[v] /\ status[v] # "absent"

\* GetByID for the caller's tenant, and the check that it is APPROVED.
ReadForExecute(o, v) ==
  /\ pc[o] = "start"
  /\ kind[o] = "execute"
  /\ target' = [target EXCEPT ![o] = v]
  /\ \E t \in Tenants :
       CASE ~GetByID(t, v) -> Answer(o, "wrapped")
         [] GetByID(t, v) /\ status[v] # "APPROVED" -> Answer(o, "not pending")
         [] GetByID(t, v) /\ status[v] = "APPROVED" -> Goto(o, "mark")
  /\ UNCHANGED <<row, expired, kind, audit, toSweep>>

\* Mutant: the UPDATE is not guarded by the status.
Markable_AnyStatus(v) == TRUE

\* WHERE status = 'APPROVED'
Markable(v) == status[v] = "APPROVED"

\* MarkExecuted; no row affected is ErrReviewNotPending, which Execute wraps.
Mark(o) ==
  /\ pc[o] = "mark"
  /\ \/ /\ Markable(target[o])
        /\ status' = [status EXCEPT ![target[o]] = "EXECUTED"]
        /\ Goto(o, "refresh") \/ Answer(o, "database")
     \/ ~Markable(target[o]) /\ UNCHANGED status /\ Answer(o, "wrapped")
  /\ UNCHANGED <<decidedBy, expired, kind, target, audit, toSweep>>

\* GetByID again, the audit event, the answer.
Refresh(o) ==
  /\ pc[o] = "refresh"
  /\ \/ /\ MayAppend([action |-> kind[o], review |-> target[o], by |-> o])
        /\ Answer(o, "ok")
     \/ UNCHANGED audit /\ Answer(o, "database")
  /\ UNCHANGED <<row, expired, kind, target, toSweep>>

\* Any database call may fail before it has an effect.
DatabaseFails(o) ==
  /\ pc[o] \in {"start", "decide", "mark"}
  /\ Answer(o, "database")
  /\ UNCHANGED <<row, expired, kind, target, audit, toSweep>>

\* rejectWithReason's failure leaves the row and is not reported.
InvalidateFails(o) ==
  /\ pc[o] = "invalidate"
  /\ Answer(o, "validation")
  /\ UNCHANGED <<row, expired, kind, target, audit, toSweep>>

-----------------------------------------------------------------------------
(* Expiry *)

TimePasses(v) ==
  /\ status[v] # "absent"
  /\ ~expired[v]
  /\ expired' = [expired EXCEPT ![v] = TRUE]
  /\ UNCHANGED <<row, ops, audit, toSweep>>

\* ExpirePending is meant for a background job that main.go does not start.  It
\* lists the tenants with pending reviews ...
BeginSweep ==
  /\ toSweep = {}
  /\ toSweep' = {TenantOf[v] : v \in {w \in Reviews : status[w] = "PENDING"}}
  /\ UNCHANGED <<row, expired, ops, audit>>

\* WHERE tenant_id = $1 AND status = 'PENDING' AND expires_at <= now()
Sweepable(t) ==
  {v \in Reviews : TenantOf[v] = t /\ status[v] = "PENDING" /\ expired[v]}

\* ... and sweeps each with one UPDATE.
SweepTenant(t) ==
  /\ t \in toSweep
  /\ status' = [v \in Reviews |-> IF v \in Sweepable(t) THEN "EXPIRED" ELSE status[v]]
  /\ toSweep' = toSweep \ {t}
  /\ UNCHANGED <<decidedBy, expired, ops, audit>>

\* A database error ends ExpirePending; the tenants left wait for the next one.
SweepFails ==
  /\ toSweep # {}
  /\ toSweep' = {}
  /\ UNCHANGED <<row, expired, ops, audit>>

\* The process stops: what was under way gets no answer, the rows stay.
Crash ==
  /\ \E o \in Ops : pc[o] \notin {"start", "done"}
  /\ LET lost == {o \in Ops : pc[o] \notin {"start", "done"}}
     IN  /\ pc' = [o \in Ops |-> IF o \in lost THEN "done" ELSE pc[o]]
         /\ answer' = [o \in Ops |-> IF o \in lost THEN "lost" ELSE answer[o]]
  /\ toSweep' = {}
  /\ UNCHANGED <<row, expired, kind, target, audit>>

-----------------------------------------------------------------------------
OpStep(o) ==
  \/ \E v \in Reviews \cup {NoOne} : Lookup(o, v)
  \/ \E v \in Reviews : ReadForExecute(o, v)
  \/ Decide(o) \/ Invalidate(o) \/ Mark(o) \/ Refresh(o)
  \/ DatabaseFails(o) \/ InvalidateFails(o)

Sweep == BeginSweep \/ SweepFails \/ \E t \in Tenants : SweepTenant(t)

Next ==
  \/ \E v \in Reviews : Create(v) \/ TimePasses(v)
  \/ \E o \in Ops : OpStep(o)
  \/ Sweep
  \/ Crash

Spec == Init /\ [][Next]_vars

-----------------------------------------------------------------------------
(* Properties *)

\* An operation is past its UPDATE without an error.
Succeeded(o) == pc[o] = "refresh" \/ answer[o] = "ok"

\* An operation goes on after its UPDATE only if the row carries its decision
\* under its name, for good: of several Approve calls that all read the row
\* PENDING, at most one goes on (hitl.go:229-230).
OneDecision ==
  \A o \in Ops :
    Succeeded(o) =>
      /\ kind[o] = "approve" => /\ decidedBy[target[o]] = o
                                /\ status[target[o]] \in {"APPROVED", "EXECUTED"}
      /\ kind[o] = "reject" => /\ decidedBy[target[o]] = o
                               /\ status[target[o]] = "REJECTED"
      /\ kind[o] = "execute" => status[target[o]] = "EXECUTED"

\* An approved action is reported executed to one caller at most, however many
\* agents read the review APPROVED (MarkExecuted's WHERE status = 'APPROVED').
OneExecution ==
  \A v \in Reviews :
    Cardinality({o \in Ops : kind[o] = "execute" /\ target[o] = v /\ Succeeded(o)}) <= 1

\* The audit log tells of a decision or an execution only if the row has it, by
\* that user, and of one execution per review; the event is appended a step
\* after the row has changed.
AuditTruthful ==
  \A e \in audit :
    /\ status[e.review] # "absent"
    /\ e.action = "approve" => /\ decidedBy[e.review] = e.by
                               /\ status[e.review] \in {"APPROVED", "EXECUTED"}
    /\ e.action = "reject" => /\ decidedBy[e.review] = e.by
                              /\ status[e.review] = "REJECTED"
    /\ e.action = "execute" =>
         /\ status[e.review] = "EXECUTED"
         /\ \A f \in audit : f.action = "execute" /\ f.review = e.review => f = e

\* Nobody decides an expired review and the sweep expires no live one, although
\* the expiry was checked on a row read earlier.
DecidedInTime ==
  [][\A v \in Reviews :
       status[v] = "PENDING" /\ status'[v] # "PENDING" =>
         (expired[v] <=> status'[v] = "EXPIRED")]_vars

\* Rows move along CanTransitionTo (domain/review.go:58), which the code never
\* calls: the WHERE clauses alone have to keep it.
FollowsLifecycle == Lifecycle!Spec

\* Approve and Reject accept the token that CreateReview returned
\* (hitl.go:277 "Reject rejects a pending review request").
IssuedTokenAccepted ==
  \A o \in Ops : target[o] # NoOne => answer[o] # "invalid token"
==============================================================================
