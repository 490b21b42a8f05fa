----------------------------- MODULE ReviewProofs -----------------------------
(***************************************************************************)
(* Proofs about Review for any set of reviews, tenants and operations: the  *)
(* decision made is the decision reported, one execution per review, a      *)
(* truthful audit log, decisions in time, and the lifecycle of              *)
(* ReviewLifecycle as a refinement.  Then about its composition with the    *)
(* streams, for any number of them: the composition leaves the reviews as   *)
(* Review has them, the connection maps follow the streams, and the events  *)
(* are true and reach who listens.                                          *)
(***************************************************************************)
EXTENDS ReviewStream, FiniteSetTheorems, TLAPS

\* What an operation between its read and its answer knows of its target.
OpSound(o) ==
  /\ answer[o] = "ok" => pc[o] = "done"
  /\ pc[o] \in {"decide", "invalidate"} => kind[o] \in {"approve", "reject"}
  /\ pc[o] = "mark" => kind[o] = "execute"
  /\ pc[o] \in {"decide", "invalidate", "mark"} \/ Succeeded(o) =>
       target[o] \in Reviews /\ status[target[o]] # "absent"

\* The same of all operations.
OpsSound == \A o \in Ops : OpSound(o)

\* OneExecution without the cardinality.
OneExecutor ==
  \A o, p \in Ops :
    /\ kind[o] = "execute" /\ Succeeded(o)
    /\ kind[p] = "execute" /\ Succeeded(p)
    /\ target[o] = target[p]
    => o = p

\* Every event but "created" was appended by the operation that it names.
AuditTraced ==
  \A e \in audit :
    e.action # "created" =>
      /\ e.by \in Ops
      /\ kind[e.by] = e.action
      /\ target[e.by] = e.review
      /\ answer[e.by] = "ok"

\* "created" events are of rows that exist.
CreatedExist == \A e \in audit : status[e.review] # "absent"

\* The inductive invariant.
IInv ==
  /\ TypeOK
  /\ OpsSound
  /\ OneDecision
  /\ OneExecutor
  /\ AuditTraced
  /\ CreatedExist

-----------------------------------------------------------------------------
\* The initial rows have every part of the invariant.
LEMMA InitIInv == Init => IInv
BY ReviewConstants
   DEF Init, IInv, TypeOK, OpsSound, OneDecision, OneExecutor, AuditTraced,
       CreatedExist, OpSound, Succeeded, Steps, Answers, Event, Kinds, Lifecycle!Statuses

\* The row of a review leaves no status that an operation relies on: APPROVED
\* may become EXECUTED, REJECTED and EXECUTED stay, a row stays a row.
RowMoves ==
  \A v \in Reviews :
    /\ status[v] # "absent" => status'[v] # "absent"
    /\ status[v] \in {"REJECTED", "EXECUTED"} => status'[v] = status[v]
    /\ status[v] = "APPROVED" => status'[v] \in {"APPROVED", "EXECUTED"}
    /\ status[v] \in {"APPROVED", "REJECTED", "EXECUTED"} => decidedBy'[v] = decidedBy[v]

\* Every step keeps the types.
LEMMA TypeStep == TypeOK /\ OpsSound /\ [Next]_vars => TypeOK'
<1> SUFFICES ASSUME TypeOK, OpsSound, [Next]_vars PROVE TypeOK'
  BY Zenon
<1> USE ReviewConstants DEF TypeOK, OpSound, Steps, Answers, Kinds, Lifecycle!Statuses, row, ops
<1>1. ASSUME NEW v \in Reviews, Create(v) PROVE TypeOK'
  <2>1. [action |-> "created", review |-> v, by |-> NoOne] \in Event
    BY Zenon DEF Event
  <2>2. audit' \subseteq Event
    BY Zenon, <1>1, <2>1 DEF Create, MayAppend
  <2> QED BY Zenon, <1>1, <2>2 DEF Create
<1>2. ASSUME NEW v \in Reviews, TimePasses(v) PROVE TypeOK'
  BY Zenon, <1>2 DEF TimePasses
<1>3. ASSUME NEW o \in Ops, NEW v \in Reviews \cup {NoOne}, Lookup(o, v) PROVE TypeOK'
  <2>1. \/ \E a \in Answers : Answer(o, a)
        \/ Goto(o, "invalidate") \/ Goto(o, "decide")
    BY Zenon, <1>3 DEF Lookup
  <2> QED BY Zenon, <1>3, <2>1 DEF Lookup, Answer, Goto
<1>4. ASSUME NEW o \in Ops, NEW v \in Reviews, ReadForExecute(o, v) PROVE TypeOK'
  <2>1. PICK t \in Tenants :
          Answer(o, "wrapped") \/ Answer(o, "not pending") \/ Goto(o, "mark")
    BY Zenon, <1>4 DEF ReadForExecute
  <2> QED BY Zenon, <1>4, <2>1 DEF ReadForExecute, Answer, Goto
<1>5. ASSUME NEW o \in Ops, Decide(o) PROVE TypeOK'
  <2>1. target[o] \in Reviews
    BY Zenon, <1>5 DEF Decide, OpsSound, OpSound
  <2>2. /\ status' \in [Reviews -> Lifecycle!Statuses]
        /\ decidedBy' \in [Reviews -> Ops \cup {NoOne}]
    <3>1. CASE UNCHANGED row
      BY Zenon, <3>1
    <3>2. CASE SetStatus(o, "APPROVED")
      BY Zenon, <2>1, <3>2 DEF SetStatus
    <3>3. CASE SetStatus(o, "REJECTED")
      BY Zenon, <2>1, <3>3 DEF SetStatus
    <3> QED BY Zenon, <1>5, <3>1, <3>2, <3>3 DEF Decide, Decision
  <2>3. Goto(o, "refresh") \/ Answer(o, "database") \/ Answer(o, "wrapped")
    BY Zenon, <1>5 DEF Decide
  <2> QED BY Zenon, <1>5, <2>2, <2>3 DEF Decide, Answer, Goto
<1>6. ASSUME NEW o \in Ops, Invalidate(o) PROVE TypeOK'
  BY Zenon, <1>6 DEF Invalidate, SetStatus, Answer, Goto, OpsSound, OpSound
<1>7. ASSUME NEW o \in Ops, Mark(o) PROVE TypeOK'
  BY Zenon, <1>7 DEF Mark, Answer, Goto, OpsSound, OpSound
<1>8. ASSUME NEW o \in Ops, Refresh(o) PROVE TypeOK'
  <2>1. audit' \subseteq Event
    <3>1. target[o] \in Reviews
      BY Zenon, <1>8 DEF Refresh, OpsSound, Succeeded
    <3>2. [action |-> kind[o], review |-> target[o], by |-> o] \in Event
      BY Zenon, <3>1 DEF Event
    <3> QED BY Zenon, <1>8, <3>2 DEF Refresh, MayAppend
  <2> QED BY Zenon, <1>8, <2>1 DEF Refresh, Answer, Goto
<1>9. ASSUME NEW o \in Ops, DatabaseFails(o) \/ InvalidateFails(o) PROVE TypeOK'
  BY Zenon, <1>9 DEF DatabaseFails, InvalidateFails, Answer
<1>10. CASE Sweep
  <2>1. CASE BeginSweep
    <3>1. toSweep' \subseteq Tenants
      <4>1. toSweep' = {TenantOf[v] : v \in {w \in Reviews : status[w] = "PENDING"}}
        BY Zenon, <2>1 DEF BeginSweep
      <4>2. \A v \in Reviews : TenantOf[v] \in Tenants
        BY Zenon
      <4> QED BY ONLY <4>1, <4>2
    <3> QED BY Zenon, <2>1, <3>1 DEF BeginSweep
  <2>2. CASE SweepFails
    BY Zenon, <2>2 DEF SweepFails
  <2>3. ASSUME NEW t \in Tenants, SweepTenant(t) PROVE TypeOK'
    BY Zenon, <2>3 DEF SweepTenant
  <2> QED BY Zenon, <1>10, <2>1, <2>2, <2>3 DEF Sweep
<1>11. CASE Crash
  BY Zenon, <1>11 DEF Crash
<1>12. CASE UNCHANGED vars
  BY Zenon, <1>12 DEF vars
<1> QED
  BY Zenon, <1>1, <1>2, <1>3, <1>4, <1>5, <1>6, <1>7, <1>8, <1>9, <1>10, <1>11, <1>12
  DEF Next, OpStep

\* Every step moves rows as RowMoves says.
LEMMA RowStep == TypeOK /\ OpsSound /\ [Next]_vars => RowMoves
<1> SUFFICES ASSUME TypeOK, OpsSound, [Next]_vars PROVE RowMoves
  BY Zenon
<1> USE DEF TypeOK, Kinds, RowMoves
<1>1. CASE UNCHANGED row
  BY Zenon, <1>1 DEF row
<1>2. ASSUME NEW v \in Reviews, Create(v) PROVE RowMoves
  BY Zenon, <1>2 DEF Create
<1>3. ASSUME NEW o \in Ops, Decide(o) \/ Invalidate(o) PROVE RowMoves
  <2>1. target[o] \in Reviews
    BY Zenon, <1>3 DEF Decide, Invalidate, OpsSound, OpSound
  <2>2. \/ UNCHANGED row
        \/ /\ Decidable(target[o])
           /\ SetStatus(o, Decision(kind[o])) \/ SetStatus(o, "REJECTED")
    BY Zenon, <1>3 DEF Decide, Invalidate
  <2>3. Decision(kind[o]) # "absent"
    BY Zenon DEF Decision
  <2> QED BY Zenon, <1>1, <2>1, <2>2, <2>3 DEF SetStatus, Decidable
<1>4. ASSUME NEW o \in Ops, Mark(o) PROVE RowMoves
  BY Zenon, <1>4 DEF Mark, OpsSound, OpSound, Markable
<1>5. ASSUME NEW t \in Tenants, SweepTenant(t) PROVE RowMoves
  BY Zenon, <1>5 DEF SweepTenant, Sweepable
<1>6. \/ UNCHANGED row
      \/ \E v \in Reviews : Create(v)
      \/ \E o \in Ops : Decide(o) \/ Invalidate(o) \/ Mark(o)
      \/ \E t \in Tenants : SweepTenant(t)
  BY Zenon DEF Next, OpStep, Sweep, vars, TimePasses, Lookup, ReadForExecute, Refresh,
         DatabaseFails, InvalidateFails, BeginSweep, SweepFails, Crash
<1> QED BY Zenon, <1>1, <1>2, <1>3, <1>4, <1>5, <1>6

\* The invariant but for its type part.
Rest == OpsSound /\ OneDecision /\ OneExecutor /\ AuditTraced /\ CreatedExist

\* A step of o leaves the other operations where they are.
OthersStay(o) ==
  /\ kind' = kind
  /\ \A p \in Ops \ {o} : /\ pc'[p] = pc[p]
                          /\ target'[p] = target[p]
                          /\ answer'[p] = answer[p]

\* The row's moves undo nothing that Rest says of the other operations, so a
\* step keeps Rest if it keeps what Rest says of its own operation.
LEMMA StepOf ==
  ASSUME IInv, TypeOK', RowMoves, NEW o \in Ops, OthersStay(o),
         audit' = audit, answer[o] # "ok", answer'[o] # "ok", OpSound(o)',
         Succeeded(o)' =>
           /\ kind[o] = "approve" => decidedBy'[target'[o]] = o
                                     /\ status'[target'[o]] \in {"APPROVED", "EXECUTED"}
           /\ kind[o] = "reject" => decidedBy'[target'[o]] = o
                                    /\ status'[target'[o]] = "REJECTED"
           /\ kind[o] = "execute" => status'[target'[o]] = "EXECUTED"
                                     /\ status[target'[o]] # "EXECUTED"
  PROVE  Rest'
<1> USE DEF IInv, TypeOK, RowMoves, OthersStay, OpsSound, Succeeded
<1>1. OpsSound'
  BY DEF OpSound
<1>2. OneDecision'
  BY DEF OpSound, OneDecision
<1>3. OneExecutor'
  BY DEF OpSound, OneDecision, OneExecutor
<1>4. AuditTraced'
  BY DEF AuditTraced
<1>5. CreatedExist'
  BY Zenon DEF CreatedExist, Event
<1> QED BY Zenon, <1>1, <1>2, <1>3, <1>4, <1>5 DEF Rest

\* Every step keeps the rest of the invariant.
LEMMA RestStep == IInv /\ [Next]_vars => Rest'
<1> SUFFICES ASSUME IInv, [Next]_vars PROVE Rest'
  BY Zenon
<1>0. RowMoves /\ TypeOK'
  BY Zenon, RowStep, TypeStep DEF IInv
<1> USE <1>0, ReviewConstants
        DEF IInv, OpsSound, OpSound, TypeOK, RowMoves, Succeeded, Kinds, row, ops
<1>1. ASSUME NEW v \in Reviews, Create(v) PROVE Rest'
  <2> DEFINE e == [action |-> "created", review |-> v, by |-> NoOne]
  <2>1. \A f \in audit' : f \in audit \/ f = e
    BY <1>1 DEF Create, MayAppend
  <2>2. status'[v] = "PENDING"
    BY <1>1 DEF Create
  <2>3. CreatedExist'
    BY <2>1, <2>2 DEF CreatedExist, Event
  <2>4. AuditTraced'
    BY <1>1, <2>1 DEF Create, AuditTraced
  <2> QED BY <1>1, <2>3, <2>4 DEF Create, Rest, OneDecision, OneExecutor
<1>2. CASE UNCHANGED <<row, ops, audit>>
  BY <1>2 DEF Rest, OneDecision, OneExecutor, AuditTraced, CreatedExist
<1>3. ASSUME NEW o \in Ops, NEW v \in Reviews \cup {NoOne}, Lookup(o, v) PROVE Rest'
  <2>1. pc[o] = "start" /\ answer[o] # "ok" /\ target'[o] = v /\ audit' = audit
    BY Zenon, <1>3 DEF Lookup
  <2>2. CASE \E a \in Answers \ {"ok"} : Answer(o, a)
    <3>1. OthersStay(o) /\ OpSound(o)' /\ answer'[o] # "ok" /\ ~Succeeded(o)'
      <4>1. target' = [target EXCEPT ![o] = v] /\ kind' = kind
        BY Zenon, <1>3 DEF Lookup
      <4>2. PICK a \in Answers \ {"ok"} : Answer(o, a)
        BY Zenon, <2>2 DEF Answers
      <4>3. OthersStay(o) /\ pc'[o] = "done" /\ answer'[o] # "ok"
        BY Zenon, <4>1, <4>2 DEF Answer, OthersStay
      <4> QED BY Zenon, <4>3
    <3> QED BY Zenon, <2>1, <3>1, StepOf
  <2>3. CASE /\ Goto(o, "invalidate") \/ Goto(o, "decide")
             /\ v \in Reviews
             /\ status[v] = "PENDING"
    <3>1. OthersStay(o) /\ pc'[o] \in {"invalidate", "decide"} /\ answer' = answer
      <4>1. target' = [target EXCEPT ![o] = v] /\ kind' = kind
        BY Zenon, <1>3 DEF Lookup
      <4> QED BY Zenon, <2>3, <4>1 DEF Goto, OthersStay
    <3>2. status' = status /\ kind'[o] \in {"approve", "reject"}
      BY Zenon, <1>3 DEF Lookup
    <3>3. OpSound(o)' /\ ~Succeeded(o)'
      BY Zenon, <2>1, <2>3, <3>1, <3>2
    <3> QED BY Zenon, <2>1, <3>1, <3>3, StepOf
  <2> QED BY Zenon, <1>3, <2>2, <2>3 DEF Lookup, Answers
<1>4. ASSUME NEW o \in Ops, NEW v \in Reviews, ReadForExecute(o, v) PROVE Rest'
  <2>1. pc[o] = "start" /\ answer[o] # "ok" /\ target'[o] = v /\ audit' = audit
    BY Zenon, <1>4 DEF ReadForExecute
  <2>2. CASE Answer(o, "wrapped") \/ Answer(o, "not pending")
    <3>1. OthersStay(o) /\ OpSound(o)' /\ answer'[o] # "ok" /\ ~Succeeded(o)'
      <4>1. target' = [target EXCEPT ![o] = v] /\ kind' = kind
        BY Zenon, <1>4 DEF ReadForExecute
      <4>2. PICK a \in Answers \ {"ok"} : Answer(o, a)
        BY Zenon, <2>2 DEF Answers
      <4>3. OthersStay(o) /\ pc'[o] = "done" /\ answer'[o] # "ok"
        BY Zenon, <4>1, <4>2 DEF Answer, OthersStay
      <4> QED BY Zenon, <4>3
    <3> QED BY Zenon, <2>1, <3>1, StepOf
  <2>3. CASE Goto(o, "mark") /\ status[v] = "APPROVED"
    <3>1. OthersStay(o) /\ pc'[o] = "mark" /\ answer' = answer
      <4>1. target' = [target EXCEPT ![o] = v] /\ kind' = kind
        BY Zenon, <1>4 DEF ReadForExecute
      <4> QED BY Zenon, <2>3, <4>1 DEF Goto, OthersStay
    <3>2. status' = status /\ kind'[o] = "execute"
      BY Zenon, <1>4 DEF ReadForExecute
    <3>3. OpSound(o)' /\ ~Succeeded(o)'
      BY Zenon, <2>1, <2>3, <3>1, <3>2
    <3> QED BY Zenon, <2>1, <3>1, <3>3, StepOf
  <2> QED BY Zenon, <1>4, <2>2, <2>3 DEF ReadForExecute
<1>5. ASSUME NEW o \in Ops,
             Decide(o) \/ Invalidate(o) \/ Mark(o) \/ Refresh(o)
               \/ DatabaseFails(o) \/ InvalidateFails(o),
             NEW a \in {"wrapped", "database", "validation"}, Answer(o, a),
             UNCHANGED audit
      PROVE  Rest'
  <2>1. answer[o] # "ok"
    BY Zenon, <1>5 DEF Decide, Invalidate, Mark, Refresh, DatabaseFails, InvalidateFails
  <2>2. kind' = kind /\ target' = target
    BY Zenon, <1>5 DEF Decide, Invalidate, Mark, Refresh, DatabaseFails, InvalidateFails
  <2>3. OthersStay(o) /\ OpSound(o)' /\ answer'[o] # "ok" /\ ~Succeeded(o)'
    BY Zenon, <1>5, <2>1, <2>2 DEF Answer, OthersStay
  <2> QED BY Zenon, <1>5, <2>1, <2>3, StepOf
<1>6. ASSUME NEW o \in Ops, Decide(o), Decidable(target[o]),
             SetStatus(o, Decision(kind[o])), Goto(o, "refresh")
      PROVE  Rest'
  <2>1. /\ pc[o] = "decide" /\ answer[o] # "ok"
        /\ target[o] \in Reviews
        /\ kind[o] \in {"approve", "reject"}
        /\ audit' = audit
    BY Zenon, <1>6 DEF Decide
  <2>2. status'[target[o]] = Decision(kind[o]) /\ decidedBy'[target[o]] = o
    BY <1>6, <2>1 DEF SetStatus
  <2>3. OthersStay(o) /\ OpSound(o)' /\ answer'[o] # "ok" /\ target'[o] = target[o]
    BY Zenon, <1>6, <2>1 DEF Decide, Goto, OthersStay
  <2> QED BY Zenon, <2>1, <2>2, <2>3, StepOf DEF Decision
<1>7. ASSUME NEW o \in Ops, Mark(o), Markable(target[o]), Goto(o, "refresh"),
             status' = [status EXCEPT ![target[o]] = "EXECUTED"]
      PROVE  Rest'
  <2>1. /\ pc[o] = "mark" /\ answer[o] # "ok"
        /\ target[o] \in Reviews
        /\ kind[o] = "execute"
        /\ audit' = audit
    BY Zenon, <1>7 DEF Mark
  <2>2. status[target[o]] = "APPROVED" /\ status'[target[o]] = "EXECUTED"
    BY <1>7, <2>1 DEF Markable
  <2>3. OthersStay(o) /\ OpSound(o)' /\ answer'[o] # "ok" /\ target'[o] = target[o]
    BY <1>7, <2>1 DEF Mark, Goto, OthersStay
  <2> QED BY Zenon, <2>1, <2>2, <2>3, StepOf
<1>8. ASSUME NEW o \in Ops, Refresh(o), Answer(o, "ok"),
             MayAppend([action |-> kind[o], review |-> target[o], by |-> o])
      PROVE  Rest'
  <2> DEFINE e == [action |-> kind[o], review |-> target[o], by |-> o]
  <2>1. /\ pc[o] = "refresh" /\ target[o] \in Reviews /\ status[target[o]] # "absent"
        /\ UNCHANGED <<status, decidedBy, kind, target>>
    BY Zenon, <1>8 DEF Refresh
  <2>2. /\ pc'[o] = "done" /\ answer'[o] = "ok"
        /\ \A p \in Ops \ {o} : pc'[p] = pc[p] /\ answer'[p] = answer[p]
    BY Zenon, <1>8 DEF Answer
  <2>3. OpsSound'
    BY <2>1, <2>2
  <2>4. OneDecision' /\ OneExecutor'
    BY <2>1, <2>2 DEF OneDecision, OneExecutor
  <2>5. \A f \in audit' : f \in audit \/ f = e
    BY <1>8 DEF MayAppend
  <2>6. CreatedExist'
    BY <2>1, <2>5 DEF CreatedExist
  <2>7. AuditTraced'
    BY <2>1, <2>2, <2>5 DEF AuditTraced
  <2> QED BY Zenon, <2>3, <2>4, <2>6, <2>7 DEF Rest
<1>9. CASE Crash
  <2>1. UNCHANGED <<status, decidedBy, kind, target, audit>>
    BY Zenon, <1>9 DEF Crash
  <2>2. \A p \in Ops : \/ pc'[p] = pc[p] /\ answer'[p] = answer[p]
                       \/ /\ pc[p] \notin {"start", "done"}
                          /\ pc'[p] = "done" /\ answer'[p] = "lost"
    BY Zenon, <1>9 DEF Crash
  <2> QED BY <2>1, <2>2 DEF Rest, OneDecision, OneExecutor, AuditTraced, CreatedExist
<1>10. ASSUME NEW t \in Tenants, SweepTenant(t) PROVE Rest'
  <2>1. UNCHANGED <<decidedBy, ops, audit>>
    BY Zenon, <1>10 DEF SweepTenant
  <2> QED BY <2>1 DEF Rest, OneDecision, OneExecutor, AuditTraced, CreatedExist, Event
<1>11. ASSUME NEW o \in Ops,
              Decide(o) \/ Invalidate(o) \/ Mark(o) \/ Refresh(o)
                \/ DatabaseFails(o) \/ InvalidateFails(o)
       PROVE  Rest'
  BY Zenon, <1>5, <1>6, <1>7, <1>8, <1>11
  DEF Decide, Invalidate, Mark, Refresh, DatabaseFails, InvalidateFails
<1>12. CASE BeginSweep \/ SweepFails \/ UNCHANGED vars \/ \E v \in Reviews : TimePasses(v)
  BY Zenon, <1>2, <1>12 DEF BeginSweep, SweepFails, TimePasses, vars
<1> QED
  BY Zenon, <1>1, <1>3, <1>4, <1>9, <1>10, <1>11, <1>12 DEF Next, OpStep, Sweep

\* The steps together.
LEMMA Invariance == Spec => []IInv
<1>1. IInv /\ [Next]_vars => IInv'
  BY Zenon, TypeStep, RestStep DEF IInv, Rest
<1> QED BY InitIInv, <1>1, PTL DEF Spec

-----------------------------------------------------------------------------
\* Operations, rows and the audit log keep their types in every interleaving of
\* handlers, sweep, clock and crashes.
THEOREM TypeCorrect == Spec => []TypeOK
<1>1. IInv => TypeOK
  BY Zenon DEF IInv
<1> QED BY Invariance, <1>1, PTL

\* For any number of concurrent Approve, Reject and Execute calls, the one that
\* goes on after its guarded UPDATE is the one whose decision the row keeps.
THEOREM DecisionCorrect == Spec => []OneDecision
<1>1. IInv => OneDecision
  BY Zenon DEF IInv
<1> QED BY Invariance, <1>1, PTL

\* At most one Execute call per review is reported as successful.
THEOREM ExecutionCorrect == Spec => []OneExecution
<1>1. IInv => OneExecution
  <2> SUFFICES ASSUME IInv, NEW v \in Reviews
               PROVE  Cardinality({o \in Ops : kind[o] = "execute" /\ target[o] = v
                                               /\ Succeeded(o)}) <= 1
    BY Zenon DEF OneExecution
  <2> DEFINE E == {o \in Ops : kind[o] = "execute" /\ target[o] = v /\ Succeeded(o)}
  <2>1. \A o, p \in E : o = p
    BY Zenon DEF IInv, OneExecutor
  <2>2. CASE E = {}
    BY <2>2, FS_EmptySet
  <2>3. CASE E # {}
    <3>1. PICK o \in E : TRUE
      BY Zenon, <2>3
    <3>2. E = {o}
      BY Zenon, <2>1, <3>1
    <3>3. Cardinality(E) = 1
      BY Zenon, <3>2, FS_Singleton
    <3> QED BY <3>3
  <2> QED BY Zenon, <2>2, <2>3
<1> QED BY Invariance, <1>1, PTL

\* The audit log never names a decision or an execution the row does not have.
THEOREM AuditCorrect == Spec => []AuditTruthful
<1>1. IInv => AuditTruthful
  <2> SUFFICES ASSUME IInv, NEW e \in audit
               PROVE  /\ status[e.review] # "absent"
                      /\ e.action = "approve" =>
                           /\ decidedBy[e.review] = e.by
                           /\ status[e.review] \in {"APPROVED", "EXECUTED"}
                      /\ e.action = "reject" => /\ decidedBy[e.review] = e.by
                                                /\ status[e.review] = "REJECTED"
                      /\ e.action = "execute" =>
                           /\ status[e.review] = "EXECUTED"
                           /\ \A f \in audit : f.action = "execute"
                                               /\ f.review = e.review => f = e
    BY Zenon DEF AuditTruthful
  <2>1. \A f \in audit : f.action = "execute" /\ f.review = e.review
                           /\ e.action = "execute" => f = e
    <3> SUFFICES ASSUME NEW f \in audit, f.action = "execute",
                        f.review = e.review, e.action = "execute"
                 PROVE  f = e
      BY Zenon
    <3>1. f.by = e.by
      BY Zenon DEF IInv, AuditTraced, OneExecutor, Succeeded
    <3>2. e \in Event /\ f \in Event
      BY Zenon DEF IInv, TypeOK
    <3> QED BY <3>1, <3>2 DEF Event
  <2>2. e.action # "created" => Succeeded(e.by) /\ e.by \in Ops
    BY Zenon DEF IInv, AuditTraced, Succeeded
  <2> QED BY <2>1, <2>2 DEF IInv, AuditTraced, CreatedExist, OneDecision
<1> QED BY Invariance, <1>1, PTL

\* The expiry an operation checked on an old row is checked again by its UPDATE:
\* no expired review is decided and no live one is expired.
THEOREM DecisionsAreTimely == Spec => DecidedInTime
<1>1. IInv /\ [Next]_vars =>
        [\A v \in Reviews : status[v] = "PENDING" /\ status'[v] # "PENDING" =>
                              (expired[v] <=> status'[v] = "EXPIRED")]_vars
  <2> SUFFICES ASSUME IInv, Next, NEW v \in Reviews,
                      status[v] = "PENDING", status'[v] # "PENDING"
               PROVE  expired[v] <=> status'[v] = "EXPIRED"
    BY Zenon DEF vars
  <2> USE DEF IInv, TypeOK
  <2>1. ASSUME NEW w \in Reviews, Create(w) PROVE FALSE
    BY Zenon, <2>1 DEF Create
  <2>2. ASSUME NEW o \in Ops, Decide(o) \/ Invalidate(o)
        PROVE  expired[v] <=> status'[v] = "EXPIRED"
    <3>1. /\ Decidable(target[o])
          /\ SetStatus(o, Decision(kind[o])) \/ SetStatus(o, "REJECTED")
      BY Zenon, <2>2 DEF Decide, Invalidate, row
    <3>2. Decision(kind[o]) # "EXPIRED"
      BY Zenon DEF Decision
    <3>3. target[o] \in Reviews
      BY Zenon, <2>2 DEF Decide, Invalidate, OpsSound, OpSound
    <3> QED BY Zenon, <3>1, <3>2, <3>3 DEF SetStatus, Decidable
  <2>3. ASSUME NEW o \in Ops, Mark(o) PROVE FALSE
    BY Zenon, <2>3 DEF Mark, Markable, OpsSound, OpSound
  <2>4. ASSUME NEW t \in Tenants, SweepTenant(t)
        PROVE  expired[v] <=> status'[v] = "EXPIRED"
    BY Zenon, <2>4 DEF SweepTenant, Sweepable
  <2>5. \/ UNCHANGED row
        \/ \E w \in Reviews : Create(w)
        \/ \E o \in Ops : Decide(o) \/ Invalidate(o) \/ Mark(o)
        \/ \E t \in Tenants : SweepTenant(t)
    BY Zenon DEF Next, OpStep, Sweep, TimePasses, Lookup, ReadForExecute, Refresh,
           DatabaseFails, InvalidateFails, BeginSweep, SweepFails, Crash
  <2> QED BY Zenon, <2>1, <2>2, <2>3, <2>4, <2>5 DEF row
<1> QED BY Invariance, <1>1, PTL DEF Spec, DecidedInTime

\* The guarded UPDATEs implement the state machine of CanTransitionTo.
THEOREM Refinement == Spec => FollowsLifecycle
<1>1. Init => Lifecycle!Init
  BY Zenon DEF Init, Lifecycle!Init
<1>2. IInv /\ [Next]_vars => [Lifecycle!Next]_status
  <2> SUFFICES ASSUME IInv, Next PROVE Lifecycle!Next \/ UNCHANGED status
    BY Zenon DEF vars, row
  <2> USE DEF IInv, TypeOK, Lifecycle!Next, Lifecycle!Statuses
  <2>1. ASSUME NEW v \in Reviews, Create(v) PROVE Lifecycle!Next
    BY Zenon, <2>1 DEF Create, Lifecycle!Create
  <2>2. ASSUME NEW o \in Ops, Decide(o) \/ Invalidate(o)
        PROVE  Lifecycle!Next \/ UNCHANGED status
    <3>1. \/ UNCHANGED row
          \/ /\ Decidable(target[o])
             /\ SetStatus(o, "APPROVED") \/ SetStatus(o, "REJECTED")
      BY Zenon, <2>2 DEF Decide, Invalidate, Decision
    <3>2. target[o] \in Reviews
      BY Zenon, <2>2 DEF Decide, Invalidate, OpsSound, OpSound
    <3>3. ASSUME NEW to \in {"APPROVED", "REJECTED"},
                 Decidable(target[o]), SetStatus(o, to)
          PROVE  Lifecycle!Transition(target[o], to)
      BY Zenon, <3>3 DEF SetStatus, Decidable, Lifecycle!Transition, Lifecycle!CanTransitionTo
    <3> QED BY Zenon, <3>1, <3>2, <3>3 DEF row
  <2>3. ASSUME NEW o \in Ops, Mark(o) PROVE Lifecycle!Next \/ UNCHANGED status
    <3>1. target[o] \in Reviews
      BY Zenon, <2>3 DEF Mark, OpsSound, OpSound
    <3>2. UNCHANGED status \/ Lifecycle!Transition(target[o], "EXECUTED")
      BY Zenon, <2>3 DEF Mark, Markable, Lifecycle!Transition, Lifecycle!CanTransitionTo
    <3> QED BY Zenon, <3>1, <3>2
  <2>4. ASSUME NEW t \in Tenants, SweepTenant(t) PROVE Lifecycle!Next
    <3>1. Lifecycle!Expire(Sweepable(t))
      BY Zenon, <2>4 DEF SweepTenant, Sweepable, Lifecycle!Expire, Lifecycle!CanTransitionTo
    <3>2. Sweepable(t) \in SUBSET Reviews
      BY Zenon DEF Sweepable
    <3> QED BY Zenon, <3>1, <3>2
  <2>5. \/ UNCHANGED row
        \/ \E w \in Reviews : Create(w)
        \/ \E o \in Ops : Decide(o) \/ Invalidate(o) \/ Mark(o)
        \/ \E t \in Tenants : SweepTenant(t)
    BY Zenon DEF Next, OpStep, Sweep, TimePasses, Lookup, ReadForExecute, Refresh,
           DatabaseFails, InvalidateFails, BeginSweep, SweepFails, Crash
  <2> QED BY Zenon, <2>1, <2>2, <2>3, <2>4, <2>5 DEF row
<1> QED BY <1>1, <1>2, Invariance, PTL DEF Spec, FollowsLifecycle, Lifecycle!Spec

-----------------------------------------------------------------------------
(* The connection maps *)

\* The inductive invariant: the maps, and the types of what they depend on.
StreamInv ==
  /\ work \in Workloads
  /\ stage \in [Streams -> {"away", "refused", "open", "gone", "lost"}]
  /\ watch \in [Streams -> Reviews \cup {NoOne}]
  /\ conns \in [Reviews -> SUBSET Streams]
  /\ RegisteredAreOpen

\* At the start nobody listens and there is no map.
LEMMA StreamInvInit == StreamInit => StreamInv
  BY Zenon DEF StreamInit, StreamInv, RegisteredAreOpen

\* A stream that ends leaves its map.
LEMMA UnregisterKeeps ==
  ASSUME StreamInv, NEW s \in Streams, stage[s] = "open",
         UnregisterConnection(s), UNCHANGED <<work, watch>>
  PROVE  StreamInv'
  BY Zenon DEF StreamInv, RegisteredAreOpen, UnregisterConnection

\* A stream that is accepted enters the map of its review.
LEMMA OpenKeeps ==
  ASSUME StreamInv, NEW s \in Streams, NEW v \in Reviews, Open(s, v)
  PROVE  StreamInv'
<1>1. CASE stage' = [stage EXCEPT ![s] = "open"] /\ watch' = [watch EXCEPT ![s] = v]
           /\ conns' = [conns EXCEPT ![v] = @ \cup {s}]
  BY <1>1 DEF StreamInv, RegisteredAreOpen, Open
<1>2. CASE stage' = [stage EXCEPT ![s] = "refused"] /\ UNCHANGED <<watch, conns>>
  BY Zenon, <1>2 DEF StreamInv, RegisteredAreOpen, Open
<1>. QED
  BY Zenon, <1>1, <1>2 DEF Open, RegisterConnection

\* Every step keeps the maps in line with the streams; a notification only
\* reads them.
LEMMA StreamInvStep ==
  ASSUME StreamInv, [StreamNext]_<<vars, streamVars>>
  PROVE  StreamInv'
<1>1. CASE UNCHANGED <<work, stage, watch, conns>>
  BY Zenon, <1>1 DEF StreamInv, RegisteredAreOpen
<1>2. work.reviews \subseteq Reviews /\ work.streams \subseteq Streams
  BY Zenon, StreamConstants DEF StreamInv
<1>3. ASSUME NEW o \in Ops, Notify(o) PROVE UNCHANGED <<work, stage, watch, conns>>
  BY Zenon, <1>3 DEF Notify, TakeMap, EndOfMap, Send, Pick, streams
<1>4. ASSUME NEW s \in work.streams, Stream(s) PROVE StreamInv'
  <2>1. CASE Receive(s)
    BY Zenon, <1>1, <1>2, <2>1, UnregisterKeeps DEF Receive
  <2>2. CASE Disconnect(s)
    BY Zenon, <1>2, <2>2, UnregisterKeeps DEF Disconnect
  <2>3. ASSUME NEW v \in work.reviews, Open(s, v) PROVE StreamInv'
    BY Zenon, <1>2, <2>3, OpenKeeps
  <2>. QED
    BY Zenon, <1>4, <2>1, <2>2, <2>3 DEF Stream
<1>5. CASE Stop
  BY Zenon, <1>5 DEF Stop, StreamInv, RegisteredAreOpen
<1>6. CASE ReviewStep \/ Finished \/ UNCHANGED <<vars, streamVars>>
  BY Zenon, <1>1, <1>6 DEF ReviewStep, Finished, streamVars, streams
<1>. QED
  BY Zenon, <1>1, <1>3, <1>4, <1>5, <1>6 DEF StreamNext

\* The invariant of the connection maps.
LEMMA StreamInvHolds == StreamSpec => []StreamInv
  BY StreamInvInit, StreamInvStep, PTL DEF StreamSpec

\* For any number of streams and operations, the connection maps hold exactly
\* the channels of the streams that listen (registerConnection,
\* unregisterConnection).
THEOREM MapsFollowStreams == StreamSpec => []RegisteredAreOpen
<1>1. StreamInv => RegisteredAreOpen
  BY Zenon DEF StreamInv
<1>. QED
  BY <1>1, StreamInvHolds, PTL

-----------------------------------------------------------------------------
(* The reviews in the composition *)

\* A step of the composition is a step of Review or changes nothing of it.
LEMMA StepSimulates ==
  ASSUME StreamInv, [StreamNext]_<<vars, streamVars>>
  PROVE  [Next]_vars
<1>1. work.reviews \subseteq Reviews /\ work.ops \subseteq Ops
  BY Zenon, StreamConstants DEF StreamInv
<1>2. CASE ReviewStep
  BY Zenon, <1>1, <1>2 DEF ReviewStep, Next
<1>3. ASSUME NEW o \in Ops, Notify(o) PROVE UNCHANGED vars
  BY Zenon, <1>3 DEF Notify, TakeMap, EndOfMap, Send, Pick
<1>4. ASSUME NEW s \in work.streams, Stream(s) PROVE UNCHANGED vars
  BY Zenon, <1>4 DEF Stream, Receive, Disconnect, Open
<1>5. CASE Stop
  BY Zenon, <1>5 DEF Stop, Next, Sweep
<1>6. CASE Finished
  BY Zenon, <1>6 DEF Finished
<1>7. CASE UNCHANGED <<vars, streamVars>>
  BY Zenon, <1>7
<1>. QED
  BY Zenon, <1>2, <1>3, <1>4, <1>5, <1>6, <1>7 DEF StreamNext

\* Streams and notifications never change what an operation on a review does:
\* the composition of notifyReviewUpdate and StreamReview with the use case
\* implements the use case alone.
THEOREM StreamsImplementReview == StreamSpec => Spec
<1>1. StreamInit => Init
  BY Zenon DEF StreamInit
<1>. QED
  BY <1>1, StepSimulates, StreamInvHolds, PTL DEF StreamSpec, Spec

\* One decision per review, with streams and notifications in the process: the
\* operation that goes on after its UPDATE is the one the row names.
THEOREM StreamDecisionCorrect == StreamSpec => []OneDecision
  BY StreamsImplementReview, DecisionCorrect, PTL

-----------------------------------------------------------------------------
(* The events *)

\* The types of the streams.
EventTypes ==
  /\ chan \in [Streams -> Seq(Decisions)]
  /\ seen \in [Streams -> Seq({"PENDING"} \cup Decisions)]
  /\ made \in [Reviews -> Nat]
  /\ notice \in [Ops -> Notice]

\* A stream that was accepted watches one review for good, and has written PENDING.
Watching(s) ==
  /\ stage[s] \in {"away", "refused"} <=> watch[s] = NoOne
  /\ watch[s] # NoOne => seen[s] # <<>>
  /\ watch[s] = NoOne => chan[s] = <<>>

\* A notification is of an operation that succeeded.  It visits streams of its review,
\* each once; a map with a stream it found there is still the current one.
NoticeSound(o) ==
  LET n == notice[o] IN
  /\ n.at # "none" => Notifies(o)
  /\ n.at = "none" => n.visited = {} /\ n.took = {}
  /\ n.at = "sending" =>
       /\ n.to \in Streams \ n.visited /\ watch[n.to] = target[o]
       /\ stage[n.to] \in {"open", "gone"}
  /\ \A s \in n.visited \cup n.took : watch[s] = target[o]
  /\ n.at \in {"ranging", "sending"} =>
       \A s \in n.took : stage[s] = "open" => n.map = made[target[o]]

\* Each event of a stream comes from a notification that has visited it, and is there
\* once.
Delivered(s) ==
  watch[s] # NoOne =>
    /\ \A i \in DOMAIN Events(s) :
         \E o \in Ops : s \in notice[o].visited /\ Announced(o) = Events(s)[i]
    /\ \A i, j \in DOMAIN Events(s) : Events(s)[i] = Events(s)[j] => i = j

\* A visited stream has got the event, as long as it listens.
Reached(o) ==
  \A s \in notice[o].visited : stage[s] = "open" =>
    \E i \in DOMAIN Events(s) : Events(s)[i] = Announced(o)

\* A notification at its end has reached what it took and still listens.
Finishes(o) ==
  notice[o].at = "done" =>
    \A s \in notice[o].took : stage[s] = "open" =>
      \E i \in DOMAIN Events(s) : Events(s)[i] = Announced(o)

\* The inductive invariant of the events.
EventInv ==
  /\ EventTypes
  /\ \A s \in Streams : Watching(s) /\ Delivered(s)
  /\ \A o \in Ops : NoticeSound(o) /\ Reached(o) /\ Finishes(o)

\* What most steps leave alone: the operations announced, the streams accepted, the maps
\* that hold a stream, and what was said to a stream that listens.
OpsStay ==
  \A o \in Ops : notice[o].at # "none" =>
    Notifies(o)' /\ Announced(o)' = Announced(o) /\ target'[o] = target[o]

\* A stream never watches another review, nor opens again.
StreamsStay ==
  \A s \in Streams : watch[s] # NoOne =>
    /\ watch'[s] = watch[s]
    /\ stage'[s] = "open" => stage[s] = "open"
    /\ stage[s] \in {"open", "gone"} => stage'[s] \in {"open", "gone"}

\* A map is replaced only when it is empty.
MapsStay == \A v \in Reviews : made'[v] = made[v] \/ conns[v] = {}

\* A stream that stays open keeps its events.
EventsStay ==
  \A s \in Streams : watch[s] # NoOne /\ stage'[s] = "open" =>
    stage[s] = "open" /\ \A i \in DOMAIN Events(s) : \E j \in DOMAIN Events(s)' : Events(s)'[j] = Events(s)[i]

\* What the operations contribute: one that succeeded stays as it is.
LEMMA OpsFinal ==
  ASSUME TypeOK, [Next]_vars, NEW o \in Ops, pc[o] = "done"
  PROVE  pc'[o] = "done" /\ answer'[o] = answer[o] /\ kind'[o] = kind[o] /\ target'[o] = target[o]
<1> DEFINE Kept == pc'[o] = "done" /\ answer'[o] = answer[o] /\ kind'[o] = kind[o] /\ target'[o] = target[o]
<1>1. UNCHANGED <<pc, answer, kind, target>> => Kept
  BY Zenon
<1>2. ASSUME NEW p \in Ops, OpStep(p) PROVE Kept
  <2>1. p # o /\ UNCHANGED kind
    BY Zenon, <1>2 DEF OpStep, Lookup, ReadForExecute, Decide, Invalidate, Mark, Refresh, DatabaseFails, InvalidateFails
  <2>2. target' = target \/ \E v : target' = [target EXCEPT ![p] = v]
    BY Zenon, <1>2 DEF OpStep, Lookup, ReadForExecute, Decide, Invalidate, Mark, Refresh, DatabaseFails, InvalidateFails
  <2>3. (\E step : Goto(p, step)) \/ (\E a : Answer(p, a))
    BY Zenon, <1>2 DEF OpStep, Lookup, ReadForExecute, Decide, Invalidate, Mark, Refresh, DatabaseFails, InvalidateFails
  <2>. QED  BY Zenon, <2>1, <2>2, <2>3 DEF Goto, Answer, TypeOK
<1>3. Crash => Kept
  BY Zenon DEF Crash
<1>4. ASSUME NEW v \in Reviews, Create(v) \/ TimePasses(v) PROVE Kept
  BY Zenon, <1>1, <1>4 DEF Create, TimePasses, ops
<1>5. Sweep => Kept
  BY Zenon, <1>1 DEF Sweep, BeginSweep, SweepFails, SweepTenant, ops
<1>. QED  BY Zenon, <1>1, <1>2, <1>3, <1>4, <1>5 DEF Next, vars, ops

\* No step takes back what an operation is about to announce.
LEMMA NoticesKept ==
  ASSUME IInv, StreamInv, EventInv, [StreamNext]_<<vars, streamVars>>
  PROVE  OpsStay
<1> SUFFICES ASSUME NEW o \in Ops, notice[o].at # "none"
             PROVE  Notifies(o)' /\ Announced(o)' = Announced(o) /\ target'[o] = target[o]
  BY Zenon DEF OpsStay
<1>1. Notifies(o)
  BY Zenon DEF EventInv, NoticeSound
<1>2. [Next]_vars
  BY Zenon, StepSimulates
<1>3. pc'[o] = "done" /\ answer'[o] = answer[o] /\ kind'[o] = kind[o] /\ target'[o] = target[o]
  BY Zenon, <1>1, <1>2, OpsFinal DEF Notifies, IInv
<1>. QED  BY Zenon, <1>1, <1>3 DEF Notifies, Announced, Decision

\* A review is announced as it is, by one operation for each event.
LEMMA AnnouncedTrue ==
  ASSUME IInv, NEW o \in Ops, Notifies(o)
  PROVE  /\ target[o] \in Reviews /\ Announced(o) \in Decisions
         /\ Announced(o) = "APPROVED" => status[target[o]] \in {"APPROVED", "EXECUTED"}
         /\ Announced(o) # "APPROVED" => status[target[o]] = Announced(o)
<1>1. Succeeded(o) /\ kind[o] \in Kinds /\ OpSound(o)
  BY Zenon DEF IInv, TypeOK, OpsSound, Notifies, Succeeded
<1>2. target[o] \in Reviews
  BY Zenon, <1>1 DEF OpSound
<1>3. /\ kind[o] = "approve" => status[target[o]] \in {"APPROVED", "EXECUTED"}
      /\ kind[o] = "reject" => status[target[o]] = "REJECTED"
      /\ kind[o] = "execute" => status[target[o]] = "EXECUTED"
  BY Zenon, <1>1 DEF IInv, OneDecision
<1>. QED  BY Zenon, <1>1, <1>2, <1>3 DEF Announced, Decision, Decisions, Kinds

\* No two operations announce the same thing of a review.
LEMMA OneAnnouncer ==
  ASSUME IInv, NEW o \in Ops, NEW p \in Ops, Notifies(o), Notifies(p), target[o] = target[p],
         Announced(o) = Announced(p)
  PROVE  o = p
<1>1. Succeeded(o) /\ Succeeded(p) /\ kind[o] \in Kinds /\ kind[p] \in Kinds
  BY Zenon DEF IInv, TypeOK, Notifies, Succeeded
<1>2. kind[o] = kind[p]
  BY <1>1 DEF Announced, Decision, Kinds
<1>3. CASE kind[o] = "execute"
  BY Zenon, <1>1, <1>2, <1>3 DEF IInv, OneExecutor
<1>4. CASE kind[o] \in {"approve", "reject"}
  <2>1. decidedBy[target[o]] = o /\ decidedBy[target[p]] = p
    BY Zenon, <1>1, <1>2, <1>4 DEF IInv, OneDecision
  <2>. QED  BY Zenon, <2>1
<1>. QED  BY Zenon, <1>1, <1>3, <1>4 DEF Kinds

\* Sequences of events.
Told == {"PENDING"} \cup Decisions

\* Sequences are equal when their elements are.
LEMMA SameEvents ==
  ASSUME NEW l \in Seq(Told), NEW r \in Seq(Told), Len(l) = Len(r), \A i \in 1..Len(l) : l[i] = r[i]
  PROVE  l = r
  OBVIOUS

\* An event that moves from the channel to the client is the same event.
LEMMA PassedOn ==
  ASSUME NEW a \in Seq(Told), NEW c \in Seq(Told), a # <<>>, c # <<>>
  PROVE  Tail(Append(a, Head(c))) \o Tail(c) = Tail(a) \o c
<1> DEFINE l == Tail(Append(a, Head(c))) \o Tail(c)
           r == Tail(a) \o c
<1>1. /\ Len(a) \in Nat /\ Len(c) \in Nat /\ Len(a) > 0 /\ Len(c) > 0
      /\ Head(c) \in Told /\ Head(c) = c[1] /\ Tail(c) \in Seq(Told) /\ Tail(a) \in Seq(Told)
      /\ Append(a, Head(c)) \in Seq(Told) /\ Tail(Append(a, Head(c))) \in Seq(Told)
  OBVIOUS
<1>2. /\ Len(Tail(Append(a, Head(c)))) = Len(a) /\ Len(Tail(c)) = Len(c) - 1 /\ Len(Tail(a)) = Len(a) - 1
      /\ \A i \in 1..Len(a) : Tail(Append(a, Head(c)))[i] = Append(a, Head(c))[i + 1]
      /\ \A i \in 1..(Len(a) - 1) : Append(a, Head(c))[i + 1] = a[i + 1] /\ Tail(a)[i] = a[i + 1]
      /\ Append(a, Head(c))[Len(a) + 1] = c[1]
      /\ \A i \in 1..(Len(c) - 1) : Tail(c)[i] = c[i + 1]
  BY <1>1
<1>3. l \in Seq(Told) /\ r \in Seq(Told) /\ Len(l) = Len(a) + Len(c) - 1 /\ Len(r) = Len(a) + Len(c) - 1
  BY <1>1, <1>2
<1>4. ASSUME NEW i \in 1..Len(l) PROVE l[i] = r[i]
  <2>1. CASE i \in 1..(Len(a) - 1)
    BY <1>1, <1>2, <1>3, <2>1
  <2>2. CASE i = Len(a)
    BY <1>1, <1>2, <1>3, <2>2
  <2>3. CASE i > Len(a)
    BY <1>1, <1>2, <1>3, <2>3
  <2>4. i \in 1..(Len(a) - 1) \/ i = Len(a) \/ i > Len(a)
    BY <1>1, <1>3
  <2>. QED  BY Zenon, <2>1, <2>2, <2>3, <2>4
<1>. QED  BY Zenon, <1>3, <1>4, SameEvents

\* An event that is sent is the last one.
LEMMA SentOn ==
  ASSUME NEW a \in Seq(Told), NEW c \in Seq(Told), NEW e \in Told, a # <<>>
  PROVE  /\ Tail(a) \o Append(c, e) = Append(Tail(a) \o c, e)
         /\ Tail(a) \o c \in Seq(Told)
         /\ \A k \in 1..Len(c) : Len(Tail(a)) + k \in DOMAIN (Tail(a) \o c) /\ (Tail(a) \o c)[Len(Tail(a)) + k] = c[k]
  OBVIOUS

\* Losing the head of the channel, or all of it.
LEMMA LostHead ==
  ASSUME NEW a \in Seq(Told), NEW c \in Seq(Told), a # <<>>, c # <<>>,
         NEW i \in DOMAIN (Tail(a) \o Tail(c))
  PROVE  LET k == IF i < Len(a) THEN i ELSE i + 1
         IN  i \in Nat /\ k \in DOMAIN (Tail(a) \o c) /\ (Tail(a) \o Tail(c))[i] = (Tail(a) \o c)[k]
  OBVIOUS

\* A stream that loses its channel keeps what was received.
LEMMA LostAll ==
  ASSUME NEW a \in Seq(Told), NEW c \in Seq(Told), a # <<>>
  PROVE  \A i \in DOMAIN (Tail(a) \o <<>>) :
           i \in DOMAIN (Tail(a) \o c) /\ (Tail(a) \o <<>>)[i] = (Tail(a) \o c)[i]
  OBVIOUS

\* A stream that a notification took or visited was accepted.
LEMMA Accepted ==
  ASSUME IInv, StreamInv, EventInv, NEW o \in Ops,
         NEW s \in notice[o].visited \cup notice[o].took
  PROVE  s \in Streams /\ watch[s] = target[o] /\ watch[s] # NoOne /\ target[o] \in Reviews /\ notice[o].at # "none"
<1>1. notice[o].at # "none" /\ Notifies(o) /\ watch[s] = target[o]
  BY Zenon DEF EventInv, NoticeSound
<1>2. target[o] \in Reviews
  BY Zenon, <1>1, AnnouncedTrue
<1>3. s \in Streams
  BY Zenon DEF EventInv, EventTypes, Notice
<1>. QED  BY Zenon, <1>1, <1>2, <1>3, ReviewConstants

\* A notification that does not move stays sound.
LEMMA NoticeStays ==
  ASSUME IInv, StreamInv, EventInv, OpsStay, StreamsStay, MapsStay, NEW o \in Ops, notice'[o] = notice[o]
  PROVE  NoticeSound(o)'
<1>. CASE notice[o].at = "none"
  BY Zenon DEF EventInv, NoticeSound
<1>. CASE notice[o].at # "none"
  <2>1. Notifies(o)' /\ target'[o] = target[o] /\ NoticeSound(o) /\ target[o] \in Reviews
    BY Zenon, AnnouncedTrue DEF OpsStay, EventInv, NoticeSound
  <2>2. ASSUME NEW s \in notice[o].visited \cup notice[o].took
        PROVE  watch'[s] = target[o] /\ (stage'[s] = "open" => stage[s] = "open")
    BY Zenon, <2>1, <2>2, Accepted DEF StreamsStay
  <2>3. ASSUME notice[o].at = "sending"
        PROVE  /\ notice[o].to \in Streams \ notice[o].visited /\ watch'[notice[o].to] = target[o]
               /\ stage'[notice[o].to] \in {"open", "gone"}
    <3>1. notice[o].to \in Streams /\ watch[notice[o].to] = target[o] /\ watch[notice[o].to] # NoOne
      BY Zenon, <2>1, <2>3, ReviewConstants DEF NoticeSound
    <3>. QED  BY Zenon, <2>1, <2>3, <3>1 DEF NoticeSound, StreamsStay
  <2>4. ASSUME notice[o].at \in {"ranging", "sending"}, NEW s \in notice[o].took, stage'[s] = "open"
        PROVE  notice[o].map = made'[target[o]]
    <3>1. stage[s] = "open" /\ s \in Streams /\ watch[s] = target[o]
      BY Zenon, <2>2, <2>4, Accepted
    <3>2. s \in conns[target[o]]
      BY Zenon, <2>1, <3>1 DEF StreamInv, RegisteredAreOpen
    <3>. QED  BY Zenon, <2>1, <2>4, <3>1, <3>2 DEF NoticeSound, MapsStay
  <2>. QED  BY Zenon, <2>1, <2>2, <2>3, <2>4 DEF NoticeSound
<1>. QED  BY Zenon

\* ... and has reached what it had reached.
LEMMA ReachStays ==
  ASSUME IInv, StreamInv, EventInv, OpsStay, EventsStay, NEW o \in Ops, notice'[o] = notice[o]
  PROVE  Reached(o)' /\ Finishes(o)'
<1>1. ASSUME NEW s \in notice[o].visited \cup notice[o].took, stage'[s] = "open",
             stage[s] = "open" => \E i \in DOMAIN Events(s) : Events(s)[i] = Announced(o)
      PROVE  \E j \in DOMAIN Events(s)' : Events(s)'[j] = Announced(o)'
  <2>1. s \in Streams /\ watch[s] # NoOne /\ Announced(o)' = Announced(o)
    BY Zenon, <1>1, Accepted DEF OpsStay
  <2>2. stage[s] = "open"
    BY Zenon, <1>1, <2>1 DEF EventsStay
  <2>3. PICK i \in DOMAIN Events(s) : Events(s)[i] = Announced(o)
    BY Zenon, <1>1, <2>2
  <2>4. PICK j \in DOMAIN Events(s)' : Events(s)'[j] = Events(s)[i]
    BY Zenon, <1>1, <2>1 DEF EventsStay
  <2>. QED  BY Zenon, <2>1, <2>3, <2>4
<1>2. Reached(o) /\ Finishes(o)
  BY Zenon DEF EventInv
<1>3. Reached(o)'
  BY Zenon, <1>1, <1>2 DEF Reached
<1>4. Finishes(o)'
  BY Zenon, <1>1, <1>2 DEF Finishes
<1>. QED  BY Zenon, <1>3, <1>4

\* The events of a stream that gets none stay delivered, in whole or in part.
LEMMA DeliveredStays ==
  ASSUME IInv, StreamInv, EventInv, OpsStay, NEW s \in Streams, watch'[s] = watch[s],
         \A o \in Ops : notice[o].visited \subseteq notice'[o].visited,
         watch[s] # NoOne =>
           \A i, j \in DOMAIN Events(s)' : \E k, l \in DOMAIN Events(s) :
             Events(s)'[i] = Events(s)[k] /\ Events(s)'[j] = Events(s)[l] /\ (k = l => i = j)
  PROVE  Delivered(s)'
<1> SUFFICES ASSUME watch[s] # NoOne
             PROVE  /\ \A i \in DOMAIN Events(s)' :
                         \E o \in Ops : s \in notice'[o].visited /\ Announced(o)' = Events(s)'[i]
                    /\ \A i, j \in DOMAIN Events(s)' : Events(s)'[i] = Events(s)'[j] => i = j
  BY Zenon DEF Delivered
<1>1. Delivered(s)
  BY Zenon DEF EventInv
<1>2. ASSUME NEW i \in DOMAIN Events(s)'
      PROVE  \E o \in Ops : s \in notice'[o].visited /\ Announced(o)' = Events(s)'[i]
  <2>1. PICK k \in DOMAIN Events(s) : Events(s)'[i] = Events(s)[k]
    BY Zenon, <1>2
  <2>2. PICK o \in Ops : s \in notice[o].visited /\ Announced(o) = Events(s)[k]
    BY Zenon, <1>1 DEF Delivered
  <2>3. Announced(o)' = Announced(o)
    BY Zenon, <2>2, Accepted DEF OpsStay
  <2>. QED  BY Zenon, <2>1, <2>2, <2>3
<1>3. ASSUME NEW i \in DOMAIN Events(s)', NEW j \in DOMAIN Events(s)', Events(s)'[i] = Events(s)'[j]
      PROVE  i = j
  <2>1. PICK k \in DOMAIN Events(s), l \in DOMAIN Events(s) :
          Events(s)'[i] = Events(s)[k] /\ Events(s)'[j] = Events(s)[l] /\ (k = l => i = j)
    BY Zenon, <1>3
  <2>. QED  BY Zenon, <1>1, <1>3, <2>1 DEF Delivered
<1>. QED  BY Zenon, <1>2, <1>3

\* A stream whose events stay.
LEMMA SameDelivered ==
  ASSUME IInv, StreamInv, EventInv, OpsStay, NEW s \in Streams, watch'[s] = watch[s],
         \A o \in Ops : notice[o].visited \subseteq notice'[o].visited, Events(s)' = Events(s)
  PROVE  Delivered(s)'
<1>1. ASSUME NEW i \in DOMAIN Events(s)', NEW j \in DOMAIN Events(s)'
      PROVE  \E k, l \in DOMAIN Events(s) :
               Events(s)'[i] = Events(s)[k] /\ Events(s)'[j] = Events(s)[l] /\ (k = l => i = j)
  <2>1. i \in DOMAIN Events(s) /\ j \in DOMAIN Events(s) /\ Events(s)'[i] = Events(s)[i] /\ Events(s)'[j] = Events(s)[j]
    BY Zenon, <1>1
  <2>. QED  BY Zenon, <2>1
<1>. QED  BY Zenon, <1>1, DeliveredStays

\* The steps that leave the streams alone: those of the reviews, and those of a
\* notification that sends nothing.
LEMMA StreamsUntouched ==
  ASSUME IInv, StreamInv, EventInv, OpsStay, UNCHANGED <<streams, conns, made>>,
         \A o \in Ops : notice[o].visited \subseteq notice'[o].visited
  PROVE  /\ StreamsStay /\ MapsStay /\ EventsStay
         /\ \A s \in Streams : Watching(s)' /\ Delivered(s)' /\ Events(s)' = Events(s)
<1>1. \A s \in Streams : Events(s)' = Events(s)
  BY Zenon DEF Events, streams
<1>2. \A s \in Streams : Watching(s)'
  BY Zenon DEF EventInv, Watching, streams
<1>3. \A s \in Streams : Delivered(s)'
  BY Zenon, <1>1, SameDelivered DEF streams
<1>4. StreamsStay /\ MapsStay
  BY Zenon DEF StreamsStay, MapsStay, streams
<1>5. EventsStay
  BY Zenon, <1>1 DEF EventsStay, streams
<1>. QED  BY Zenon, <1>1, <1>2, <1>3, <1>4, <1>5

\* A step of the review service alone.
LEMMA QuietKeeps ==
  ASSUME IInv, StreamInv, EventInv, OpsStay, UNCHANGED streamVars
  PROVE  EventInv'
<1>1. UNCHANGED <<streams, conns, made>> /\ UNCHANGED notice
  BY Zenon DEF streamVars
<1>2. \A o \in Ops : notice'[o] = notice[o] /\ notice[o].visited \subseteq notice'[o].visited
  BY Zenon, <1>1
<1>3. EventTypes'
  BY Zenon, <1>1 DEF EventInv, EventTypes, streams
<1>. QED  BY Zenon, <1>1, <1>2, <1>3, StreamsUntouched, NoticeStays, ReachStays DEF EventInv

\* A step of one notification that sends nothing.
LEMMA NoticeKeeps ==
  ASSUME IInv, StreamInv, EventInv, OpsStay, UNCHANGED <<streams, conns, made>>, NEW o \in Ops,
         NEW n \in Notice, SetNotice(o, n), notice[o].visited \subseteq n.visited,
         NoticeSound(o)', Reached(o)', Finishes(o)'
  PROVE  EventInv'
<1>1. notice' \in [Ops -> Notice] /\ notice'[o] = n /\ \A p \in Ops \ {o} : notice'[p] = notice[p]
  BY Zenon DEF SetNotice, EventInv, EventTypes
<1>2. \A p \in Ops : notice[p].visited \subseteq notice'[p].visited
  BY Zenon, <1>1
<1>3. EventTypes'
  BY Zenon, <1>1 DEF EventInv, EventTypes, streams
<1>4. \A p \in Ops : NoticeSound(p)' /\ Reached(p)' /\ Finishes(p)'
  BY Zenon, <1>1, <1>2, StreamsUntouched, NoticeStays, ReachStays
<1>. QED  BY Zenon, <1>2, <1>3, <1>4, StreamsUntouched DEF EventInv

\* The map taken holds the streams that are registered.
LEMMA TakeMapKeeps ==
  ASSUME IInv, StreamInv, EventInv, OpsStay, NEW o \in Ops, TakeMap(o)
  PROVE  EventInv'
<1> DEFINE v == target[o]
           n == [at |-> IF conns[v] = {} THEN "done" ELSE "ranging", map |-> made[v],
                 took |-> conns[v], visited |-> {}, to |-> NoOne]
<1>1. v \in Reviews /\ Notifies(o) /\ Notifies(o)' /\ target'[o] = v /\ made'[v] = made[v]
  BY Zenon, AnnouncedTrue DEF TakeMap, Notifies, vars, ops
<1>2. n \in Notice /\ SetNotice(o, n) /\ notice'[o] = n /\ notice[o].visited = {}
  BY Zenon, <1>1 DEF TakeMap, SetNotice, EventInv, EventTypes, StreamInv, Notice, NoticeSound
<1>3. /\ n.at # "none" /\ n.at # "sending" /\ n.visited = {} /\ n.took = conns[v] /\ n.map = made[v]
      /\ n.at = "done" => n.took = {}
  BY Zenon
<1>4. \A s \in conns[v] : watch'[s] = v
  BY Zenon, <1>1 DEF StreamInv, RegisteredAreOpen, TakeMap, streams
<1> HIDE DEF n
<1>5. NoticeSound(o)'
  BY Zenon, <1>1, <1>2, <1>3, <1>4 DEF NoticeSound
<1>6. Reached(o)' /\ Finishes(o)'
  BY Zenon, <1>2, <1>3 DEF Reached, Finishes
<1>7. UNCHANGED <<streams, conns, made>>
  BY Zenon DEF TakeMap
<1>. QED  BY Zenon, <1>2, <1>3, <1>5, <1>6, <1>7, NoticeKeeps

\* The next channel of the map is picked.
LEMMA PickKeeps ==
  ASSUME IInv, StreamInv, EventInv, OpsStay, NEW o \in Ops, NEW s \in Streams, Pick(o, s)
  PROVE  EventInv'
<1> DEFINE n == [[notice[o] EXCEPT !.at = "sending"] EXCEPT !.to = s]
<1>1. notice[o] \in Notice /\ notice[o].at = "ranging" /\ NoticeSound(o) /\ Reached(o)
  BY Zenon DEF Pick, EventInv, EventTypes
<1>2. /\ n \in Notice /\ n.at = "sending" /\ n.to = s /\ n.took = notice[o].took
      /\ n.visited = notice[o].visited /\ n.map = notice[o].map
  BY Zenon, <1>1 DEF Notice
<1>3. notice'[o] = n /\ SetNotice(o, n)
  BY Zenon, <1>2 DEF Pick, SetNotice, EventInv, EventTypes
<1>4. Notifies(o) /\ Notifies(o)' /\ target'[o] = target[o] /\ target[o] \in Reviews /\ Announced(o)' = Announced(o)
  BY Zenon, <1>1, AnnouncedTrue DEF OpsStay, NoticeSound
<1>5. s \notin n.visited /\ stage[s] = "open" /\ watch[s] = target[o]
  BY Zenon, <1>2, <1>4 DEF Pick, InMap, StreamInv, RegisteredAreOpen
<1>6. UNCHANGED <<stage, watch, made>> /\ UNCHANGED <<streams, conns, made>>
  BY Zenon DEF Pick, streams
<1> HIDE DEF n
<1>7. NoticeSound(o)'
  BY Zenon, <1>1, <1>2, <1>3, <1>4, <1>5, <1>6 DEF NoticeSound
<1>8. \A t \in Streams : Events(t)' = Events(t)
  BY Zenon, <1>6 DEF Events, streams
<1>9. n.visited \subseteq Streams
  BY Zenon, <1>2, <1>1 DEF Notice
<1>10. Reached(o)' /\ Finishes(o)'
  BY Zenon, <1>1, <1>2, <1>3, <1>4, <1>6, <1>8, <1>9 DEF Reached, Finishes
<1>. QED  BY Zenon, <1>2, <1>3, <1>6, <1>7, <1>10, NoticeKeeps

\* Every channel of the map was visited.
LEMMA EndOfMapKeeps ==
  ASSUME IInv, StreamInv, EventInv, OpsStay, NEW o \in Ops, EndOfMap(o)
  PROVE  EventInv'
<1> DEFINE n == [notice[o] EXCEPT !.at = "done"]
<1>1. notice[o] \in Notice /\ notice[o].at = "ranging" /\ NoticeSound(o) /\ Reached(o)
  BY Zenon DEF EndOfMap, EventInv, EventTypes
<1>2. /\ n \in Notice /\ n.at = "done" /\ n.took = notice[o].took
      /\ n.visited = notice[o].visited /\ n.map = notice[o].map
  BY Zenon, <1>1 DEF Notice
<1>3. notice'[o] = n /\ SetNotice(o, n)
  BY Zenon, <1>2 DEF EndOfMap, SetNotice, EventInv, EventTypes
<1>4. Notifies(o) /\ Notifies(o)' /\ target'[o] = target[o] /\ target[o] \in Reviews /\ Announced(o)' = Announced(o)
  BY Zenon, <1>1, AnnouncedTrue DEF OpsStay, NoticeSound
<1>5. ASSUME NEW s \in notice[o].took, stage[s] = "open"
      PROVE  s \in notice[o].visited
  <2>1. s \in Streams /\ watch[s] = target[o] /\ notice[o].map = made[target[o]]
    BY Zenon, <1>1, <1>5, Accepted DEF NoticeSound
  <2>2. s \in conns[target[o]]
    BY Zenon, <1>4, <1>5, <2>1 DEF StreamInv, RegisteredAreOpen
  <2>. QED  BY Zenon, <1>5, <2>1, <2>2 DEF EndOfMap, Exhausted, InMap
<1>6. UNCHANGED <<stage, watch, made>> /\ UNCHANGED <<streams, conns, made>>
  BY Zenon DEF EndOfMap, streams
<1> HIDE DEF n
<1>7. NoticeSound(o)'
  BY Zenon, <1>1, <1>2, <1>3, <1>4, <1>6 DEF NoticeSound
<1>8. \A t \in Streams : Events(t)' = Events(t)
  BY Zenon, <1>6 DEF Events, streams
<1>9. n.visited \subseteq Streams /\ n.took \subseteq Streams
  BY Zenon, <1>2, <1>1 DEF Notice
<1>10. Reached(o)' /\ Finishes(o)'
  BY Zenon, <1>1, <1>2, <1>3, <1>4, <1>5, <1>6, <1>8, <1>9 DEF Reached, Finishes
<1>. QED  BY Zenon, <1>2, <1>3, <1>6, <1>7, <1>10, NoticeKeeps

\* The events of a stream are of its review, and true of it.
LEMMA EventTrue ==
  ASSUME IInv, StreamInv, EventInv, NEW s \in Streams, watch[s] # NoOne, NEW i \in DOMAIN Events(s)
  PROVE  \E o \in Ops : /\ s \in notice[o].visited /\ Notifies(o) /\ target[o] = watch[s]
                        /\ Announced(o) = Events(s)[i]
<1>1. PICK o \in Ops : s \in notice[o].visited /\ Announced(o) = Events(s)[i]
  BY Zenon DEF EventInv, Delivered
<1>2. watch[s] = target[o] /\ notice[o].at # "none"
  BY Zenon, <1>1, Accepted
<1>3. Notifies(o)
  BY Zenon, <1>2 DEF EventInv, NoticeSound
<1>. QED  BY Zenon, <1>1, <1>2, <1>3

\* A stream that watches has been told something.
LEMMA EventTypesOf ==
  ASSUME EventInv, NEW s \in Streams, watch[s] # NoOne
  PROVE  seen[s] \in Seq(Told) /\ chan[s] \in Seq(Told) /\ seen[s] # <<>>
<1>1. chan[s] \in Seq(Decisions) /\ seen[s] \in Seq(Told)
  BY Zenon DEF EventInv, EventTypes, Told
<1>2. chan[s] \in Seq(Told)
  BY <1>1 DEF Told
<1>. QED  BY Zenon, <1>1, <1>2 DEF EventInv, Watching

\* An event that is about to be sent is new to the stream, and there is room for it: a
\* review has one decision and one execution.
LEMMA RoomLeft ==
  ASSUME IInv, StreamInv, EventInv, NEW o \in Ops, notice[o].at = "sending", NEW s, s = notice[o].to
  PROVE  (\A i \in DOMAIN Events(s) : Events(s)[i] # Announced(o)) /\ Room(s)
<1>1. s \in Streams /\ s \notin notice[o].visited /\ watch[s] = target[o] /\ Notifies(o) /\ target[o] \in Reviews
  BY Zenon, AnnouncedTrue DEF EventInv, NoticeSound
<1>2. watch[s] # NoOne
  BY Zenon, <1>1, ReviewConstants
<1>3. ASSUME NEW i \in DOMAIN Events(s), Events(s)[i] = Announced(o) PROVE FALSE
  <2>1. PICK p \in Ops : s \in notice[p].visited /\ Notifies(p) /\ target[p] = watch[s] /\ Announced(p) = Events(s)[i]
    BY Zenon, <1>1, <1>2, EventTrue
  <2>2. p = o
    BY Zenon, <1>1, <1>3, <2>1, OneAnnouncer
  <2>. QED  BY Zenon, <1>1, <2>1, <2>2
<1>4. SUFFICES ASSUME ~Room(s) PROVE FALSE
  BY Zenon, <1>3
<1>5. seen[s] \in Seq(Told) /\ chan[s] \in Seq(Told) /\ seen[s] # <<>>
  BY Zenon, <1>1, <1>2, EventTypesOf
<1>6. 1 \in 1..Len(chan[s]) /\ 2 \in 1..Len(chan[s])
  BY <1>4, <1>5, StreamConstants DEF Room
<1>7. PICK i \in DOMAIN Events(s), j \in DOMAIN Events(s) : i # j
  <2>1. /\ Len(Tail(seen[s])) + 1 \in DOMAIN Events(s)
        /\ Len(Tail(seen[s])) + 2 \in DOMAIN Events(s)
    BY Zenon, <1>5, <1>6, SentOn DEF Events, Told
  <2>2. Len(Tail(seen[s])) + 1 # Len(Tail(seen[s])) + 2
    BY <1>5
  <2>. QED  BY Zenon, <2>1, <2>2
<1>8. Events(s)[i] # Events(s)[j]
  BY Zenon, <1>1, <1>2, <1>7 DEF EventInv, Delivered
<1>9. PICK p \in Ops : Notifies(p) /\ target[p] = watch[s] /\ Announced(p) = Events(s)[i]
  BY Zenon, <1>1, <1>2, EventTrue
<1>10. PICK q \in Ops : Notifies(q) /\ target[q] = watch[s] /\ Announced(q) = Events(s)[j]
  BY Zenon, <1>1, <1>2, EventTrue
<1>11. Announced(p) # Announced(q) /\ Announced(p) # Announced(o) /\ Announced(q) # Announced(o)
  BY Zenon, <1>3, <1>8, <1>9, <1>10
<1>12. \A x \in {o, p, q} :
         /\ Announced(x) \in Decisions
         /\ Announced(x) = "APPROVED" => status[watch[s]] \in {"APPROVED", "EXECUTED"}
         /\ Announced(x) # "APPROVED" => status[watch[s]] = Announced(x)
  BY Zenon, <1>1, <1>9, <1>10, AnnouncedTrue
<1>. QED  BY Zenon, <1>11, <1>12 DEF Decisions

\* One more event.
LEMMA OneMore ==
  ASSUME NEW e \in Seq(Told), NEW x \in Told, NEW f, f = Append(e, x)
  PROVE  /\ \A i \in DOMAIN e : i \in DOMAIN f /\ f[i] = e[i]
         /\ \A i \in DOMAIN f : i \in DOMAIN e \/ i = Len(e) + 1
         /\ Len(e) + 1 \in DOMAIN f /\ f[Len(e) + 1] = x
  OBVIOUS

\* A send adds one event that is true, and new to its stream.
LEMMA SendKeeps ==
  ASSUME IInv, StreamInv, EventInv, OpsStay, NEW o \in Ops, Send(o)
  PROVE  EventInv'
<1> SUFFICES ASSUME NEW s, s = notice[o].to PROVE EventInv'
  BY Zenon
<1>1. notice[o] \in Notice /\ notice[o].at = "sending" /\ NoticeSound(o) /\ Reached(o)
  BY Zenon DEF Send, EventInv, EventTypes
<1>2. Notifies(o) /\ Notifies(o)' /\ target'[o] = target[o] /\ target[o] \in Reviews /\ Announced(o)' = Announced(o)
      /\ Announced(o) \in Decisions
  BY Zenon, <1>1, AnnouncedTrue DEF OpsStay, NoticeSound
<1>3. s \in Streams /\ s \notin notice[o].visited /\ watch[s] = target[o] /\ stage[s] \in {"open", "gone"} /\ watch[s] # NoOne
  BY Zenon, <1>1, <1>2, ReviewConstants DEF NoticeSound
<1>4. UNCHANGED <<stage, watch, seen, conns, made>>
  BY Zenon DEF Send
<1>5. CASE stage[s] = "gone"
  <2> DEFINE n == [notice[o] EXCEPT !.at = "panicked"]
  <2>1. /\ n \in Notice /\ n.at = "panicked" /\ n.took = notice[o].took
        /\ n.visited = notice[o].visited /\ n.map = notice[o].map
    BY Zenon, <1>1 DEF Notice
  <2>2. SetNotice(o, n) /\ notice'[o] = n /\ UNCHANGED chan
    BY Zenon, <1>1, <1>5, <2>1 DEF Send, SetNotice, EventInv, EventTypes
  <2> HIDE DEF n
  <2>3. UNCHANGED <<streams, conns, made>>
    BY Zenon, <1>4, <2>2 DEF streams
  <2>4. NoticeSound(o)'
    BY Zenon, <1>1, <1>2, <1>4, <2>1, <2>2 DEF NoticeSound
  <2>5. \A t \in Streams : Events(t)' = Events(t)
    BY Zenon, <2>3 DEF Events, streams
  <2>6. n.visited \subseteq Streams
    BY Zenon, <2>1, <1>1 DEF Notice
  <2>7. Reached(o)' /\ Finishes(o)'
    BY Zenon, <1>1, <1>2, <1>4, <2>1, <2>2, <2>5, <2>6 DEF Reached, Finishes
  <2>. QED  BY Zenon, <2>1, <2>2, <2>3, <2>4, <2>7, NoticeKeeps
<1>6. CASE stage[s] = "open"
  <2> DEFINE n == [[notice[o] EXCEPT !.at = "ranging"] EXCEPT !.visited = @ \cup {s}]
  <2>1. /\ n \in Notice /\ n.at = "ranging" /\ n.took = notice[o].took
        /\ n.visited = notice[o].visited \cup {s} /\ n.map = notice[o].map
    BY Zenon, <1>1, <1>3 DEF Notice
  <2>2. SetNotice(o, n) /\ notice' \in [Ops -> Notice] /\ notice'[o] = n /\ \A p \in Ops \ {o} : notice'[p] = notice[p]
    BY Zenon, <1>1, <1>6, <2>1 DEF Send, SetNotice, EventInv, EventTypes
  <2>3. (\A i \in DOMAIN Events(s) : Events(s)[i] # Announced(o)) /\ Room(s)
    BY Zenon, <1>1, RoomLeft
  <2>4. chan' = [chan EXCEPT ![s] = Append(@, Announced(o))]
    BY Zenon, <1>6, <2>3 DEF Send
  <2>5. chan' \in [Streams -> Seq(Decisions)] /\ chan'[s] = Append(chan[s], Announced(o))
        /\ \A t \in Streams \ {s} : chan'[t] = chan[t]
    BY <1>2, <1>3, <2>4 DEF EventInv, EventTypes
  <2> HIDE DEF n
  <2>6. EventTypes'
    BY Zenon, <1>4, <2>2, <2>5 DEF EventInv, EventTypes
  <2>7. seen[s] \in Seq(Told) /\ chan[s] \in Seq(Told) /\ seen[s] # <<>> /\ Announced(o) \in Told
    BY Zenon, <1>2, <1>3, EventTypesOf DEF Told
  <2>8. Events(s)' = Append(Events(s), Announced(o)) /\ Events(s) \in Seq(Told)
    <3>1. Events(s)' = Tail(seen[s]) \o Append(chan[s], Announced(o))
      BY Zenon, <1>4, <2>5 DEF Events
    <3>. QED  BY Zenon, <2>7, <3>1, SentOn DEF Events
  <2>9. \A t \in Streams \ {s} : Events(t)' = Events(t)
    BY Zenon, <1>4, <2>5 DEF Events
  <2>10. /\ \A i \in DOMAIN Events(s) : i \in DOMAIN Events(s)' /\ Events(s)'[i] = Events(s)[i]
         /\ \A i \in DOMAIN Events(s)' : i \in DOMAIN Events(s) \/ i = Len(Events(s)) + 1
         /\ Len(Events(s)) + 1 \in DOMAIN Events(s)' /\ Events(s)'[Len(Events(s)) + 1] = Announced(o)
    <3> SUFFICES ASSUME NEW e, NEW f, e = Events(s), f = Events(s)'
                 PROVE  /\ \A i \in DOMAIN e : i \in DOMAIN f /\ f[i] = e[i]
                        /\ \A i \in DOMAIN f : i \in DOMAIN e \/ i = Len(e) + 1
                        /\ Len(e) + 1 \in DOMAIN f /\ f[Len(e) + 1] = Announced(o)
      BY Zenon
    <3>1. e \in Seq(Told) /\ f = Append(e, Announced(o)) /\ Announced(o) \in Told
      BY Zenon, <2>7, <2>8
    <3>. QED  BY Zenon, <3>1, OneMore
  <2>11. \E j \in DOMAIN Events(s)' : Events(s)'[j] = Announced(o)
    BY Zenon, <2>10
  <2>12. ASSUME NEW t \in Streams, NEW i \in DOMAIN Events(t)
         PROVE  \E j \in DOMAIN Events(t)' : Events(t)'[j] = Events(t)[i]
    BY Zenon, <2>9, <2>12, <2>10
  <2>13. StreamsStay /\ MapsStay /\ EventsStay
    BY Zenon, <1>4, <2>12 DEF StreamsStay, MapsStay, EventsStay
  <2>14. \A p \in Ops : notice[p].visited \subseteq notice'[p].visited
    BY Zenon, <2>1, <2>2
  <2>15. Watching(s)' /\ \A t \in Streams \ {s} : Watching(t)'
    BY Zenon, <1>3, <1>4, <2>5 DEF EventInv, Watching
  <2>16. \A t \in Streams \ {s} : Delivered(t)'
    BY Zenon, <1>4, <2>9, <2>14, SameDelivered
  <2>17. Delivered(s)'
    <3>1. ASSUME NEW i \in DOMAIN Events(s)'
          PROVE  \E p \in Ops : s \in notice'[p].visited /\ Announced(p)' = Events(s)'[i]
      <4>1. CASE i \in DOMAIN Events(s)
        <5>1. Events(s)'[i] = Events(s)[i]
          BY Zenon, <2>10, <4>1
        <5>2. PICK p \in Ops : s \in notice[p].visited /\ Announced(p) = Events(s)[i]
          BY Zenon, <1>3, <4>1 DEF EventInv, Delivered
        <5>3. Announced(p)' = Announced(p)
          BY Zenon, <5>2, Accepted DEF OpsStay
        <5>. QED  BY Zenon, <2>14, <5>1, <5>2, <5>3
      <4>2. CASE i = Len(Events(s)) + 1
        <5>1. Events(s)'[i] = Announced(o)
          BY Zenon, <2>10, <4>2
        <5>2. s \in notice'[o].visited
          BY Zenon, <2>1, <2>2
        <5>. QED  BY Zenon, <1>2, <5>1, <5>2
      <4>. QED  BY Zenon, <2>10, <3>1, <4>1, <4>2
    <3>2. ASSUME NEW i \in DOMAIN Events(s)', NEW j \in DOMAIN Events(s)', Events(s)'[i] = Events(s)'[j]
          PROVE  i = j
      <4>1. \A k \in {i, j} : \/ k \in DOMAIN Events(s) /\ Events(s)'[k] = Events(s)[k]
                              \/ k = Len(Events(s)) + 1 /\ Events(s)'[k] = Announced(o)
        BY Zenon, <2>10, <3>2
      <4>2. \A k, l \in DOMAIN Events(s) : Events(s)[k] = Events(s)[l] => k = l
        BY Zenon, <1>3 DEF EventInv, Delivered
      <4>. QED  BY Zenon, <2>3, <3>2, <4>1, <4>2
    <3>. QED  BY Zenon, <3>1, <3>2 DEF Delivered
  <2>18. NoticeSound(o)'
    BY Zenon, <1>1, <1>2, <1>3, <1>4, <2>1, <2>2 DEF NoticeSound
  <2>19. Reached(o)'
    <3> SUFFICES ASSUME NEW t \in notice'[o].visited, stage'[t] = "open"
                 PROVE  \E j \in DOMAIN Events(t)' : Events(t)'[j] = Announced(o)'
      BY Zenon DEF Reached
    <3>1. CASE t = s
      BY Zenon, <1>2, <2>11, <3>1
    <3>2. CASE t # s
      <4>1. t \in notice[o].visited /\ t \in Streams /\ stage[t] = "open"
        BY Zenon, <1>1, <1>4, <2>1, <2>2, <3>2 DEF Notice
      <4>. QED  BY Zenon, <1>1, <1>2, <2>9, <3>2, <4>1 DEF Reached
    <3>. QED  BY Zenon, <3>1, <3>2
  <2>20. Finishes(o)'
    BY Zenon, <2>1, <2>2 DEF Finishes
  <2>21. \A p \in Ops \ {o} : NoticeSound(p)' /\ Reached(p)' /\ Finishes(p)'
    BY Zenon, <2>2, <2>13, NoticeStays, ReachStays
  <2>. QED  BY Zenon, <2>6, <2>15, <2>16, <2>17, <2>18, <2>19, <2>20, <2>21 DEF EventInv
<1>. QED  BY Zenon, <1>3, <1>5, <1>6

\* A step of one stream: nothing moves in the notifications, and the other streams stay.
LEMMA StreamKeeps ==
  ASSUME IInv, StreamInv, EventInv, OpsStay, NEW s \in Streams, UNCHANGED notice, EventTypes',
         \A t \in Streams \ {s} : stage'[t] = stage[t] /\ watch'[t] = watch[t] /\ chan'[t] = chan[t] /\ seen'[t] = seen[t],
         StreamsStay, MapsStay, EventsStay, Watching(s)', Delivered(s)'
  PROVE  EventInv'
<1>1. \A o \in Ops : notice'[o] = notice[o] /\ notice[o].visited \subseteq notice'[o].visited
  BY Zenon
<1>2. \A t \in Streams \ {s} : Events(t)' = Events(t) /\ Watching(t)'
  BY Zenon DEF Events, EventInv, Watching
<1>3. \A t \in Streams \ {s} : Delivered(t)'
  BY Zenon, <1>1, <1>2, SameDelivered
<1>4. \A o \in Ops : NoticeSound(o)' /\ Reached(o)' /\ Finishes(o)'
  BY Zenon, <1>1, NoticeStays, ReachStays
<1>. QED  BY Zenon, <1>2, <1>3, <1>4 DEF EventInv

\* What a stream was told it was told.
LEMMA SameSaid ==
  ASSUME NEW s \in Streams, Events(s)' = Events(s)
  PROVE  \A i \in DOMAIN Events(s) : \E j \in DOMAIN Events(s)' : Events(s)'[j] = Events(s)[i]
  BY Zenon

\* A client that leaves.
LEMMA DisconnectKeeps ==
  ASSUME IInv, StreamInv, EventInv, OpsStay, NEW s \in Streams, Disconnect(s)
  PROVE  EventInv'
<1>1. UNCHANGED <<watch, chan, seen, made, notice>> /\ stage[s] = "open"
  BY Zenon DEF Disconnect
<1>2. stage'[s] = "gone" /\ \A t \in Streams \ {s} : stage'[t] = stage[t]
  BY Zenon DEF Disconnect, UnregisterConnection, StreamInv
<1>3. \A t \in Streams : Events(t)' = Events(t)
  BY Zenon, <1>1 DEF Events
<1>4. EventTypes' /\ MapsStay /\ Watching(s)'
  BY Zenon, <1>1, <1>2 DEF EventInv, EventTypes, MapsStay, Watching
<1>5. Delivered(s)'
  BY Zenon, <1>1, <1>3, SameDelivered
<1>6. \A t \in Streams : stage'[t] = "open" => stage[t] = "open"
  BY Zenon, <1>1, <1>2
<1>7. StreamsStay
  BY Zenon, <1>1, <1>2 DEF StreamsStay
<1>8. EventsStay
  BY Zenon, <1>3, <1>6, SameSaid DEF EventsStay
<1>. QED  BY Zenon, <1>1, <1>2, <1>4, <1>5, <1>7, <1>8, StreamKeeps

\* An event passed on to the client, or lost with its stream.
LEMMA ReceiveKeeps ==
  ASSUME IInv, StreamInv, EventInv, OpsStay, NEW s \in Streams, Receive(s)
  PROVE  EventInv'
<1>1. UNCHANGED <<watch, made, notice>> /\ stage[s] = "open" /\ chan[s] # <<>> /\ watch[s] # NoOne
  BY Zenon DEF Receive, EventInv, Watching
<1>2. seen[s] \in Seq(Told) /\ chan[s] \in Seq(Told) /\ seen[s] # <<>>
  BY Zenon, <1>1, EventTypesOf
<1>3. /\ chan[s] \in Seq(Decisions) /\ seen \in [Streams -> Seq(Told)] /\ chan \in [Streams -> Seq(Decisions)]
      /\ chan' = [chan EXCEPT ![s] = Tail(chan[s])]
  BY Zenon DEF Receive, EventInv, EventTypes, Told
<1>4. Tail(chan[s]) \in Seq(Decisions) /\ Head(chan[s]) \in Told
  BY <1>1, <1>3 DEF Told
<1>5. chan' \in [Streams -> Seq(Decisions)] /\ chan'[s] = Tail(chan[s]) /\ \A t \in Streams \ {s} : chan'[t] = chan[t]
  BY Zenon, <1>3, <1>4
<1>6. MapsStay
  BY Zenon, <1>1 DEF MapsStay
<1>7. CASE seen' = [seen EXCEPT ![s] = Append(@, Head(chan[s]))] /\ UNCHANGED <<stage, conns>>
  <2>1. Append(seen[s], Head(chan[s])) \in Seq(Told) /\ Append(seen[s], Head(chan[s])) # <<>>
    BY <1>2, <1>4
  <2>2. seen' \in [Streams -> Seq(Told)] /\ seen'[s] = Append(seen[s], Head(chan[s])) /\ \A t \in Streams \ {s} : seen'[t] = seen[t]
    BY Zenon, <1>3, <1>7, <2>1
  <2>3. EventTypes'
    BY Zenon, <1>1, <1>5, <2>2 DEF EventInv, EventTypes, Told
  <2>4. Events(s)' = Events(s)
    BY Zenon, <1>1, <1>2, <1>5, <2>2, PassedOn DEF Events
  <2>5. \A t \in Streams \ {s} : Events(t)' = Events(t)
    BY Zenon, <1>5, <2>2 DEF Events
  <2>6. Watching(s)'
    BY Zenon, <1>1, <1>7, <2>1, <2>2 DEF EventInv, Watching
  <2>7. Delivered(s)'
    BY Zenon, <1>1, <2>4, SameDelivered
  <2>8. StreamsStay
    BY Zenon, <1>1, <1>7 DEF StreamsStay
  <2>9. EventsStay
    BY Zenon, <1>7, <2>4, <2>5, SameSaid DEF EventsStay
  <2>. QED  BY Zenon, <1>1, <1>5, <1>6, <1>7, <2>2, <2>3, <2>6, <2>7, <2>8, <2>9, StreamKeeps
<1>8. CASE UnregisterConnection(s) /\ UNCHANGED seen
  <2>1. stage'[s] = "gone" /\ \A t \in Streams \ {s} : stage'[t] = stage[t]
    BY Zenon, <1>8 DEF UnregisterConnection, StreamInv
  <2>2. EventTypes'
    BY Zenon, <1>1, <1>5, <1>8 DEF EventInv, EventTypes
  <2>3. \A t \in Streams \ {s} : Events(t)' = Events(t)
    BY Zenon, <1>5, <1>8 DEF Events
  <2>4. Watching(s)'
    BY Zenon, <1>1, <1>8, <2>1 DEF EventInv, Watching
  <2>5. StreamsStay
    BY Zenon, <1>1, <2>1 DEF StreamsStay
  <2>6. EventsStay
    <3> SUFFICES ASSUME NEW t \in Streams, stage'[t] = "open"
                 PROVE  /\ stage[t] = "open"
                        /\ \A i \in DOMAIN Events(t) : \E j \in DOMAIN Events(t)' : Events(t)'[j] = Events(t)[i]
      BY Zenon DEF EventsStay
    <3>1. t # s
      BY Zenon, <2>1
    <3>2. Events(t)' = Events(t) /\ stage'[t] = stage[t]
      BY Zenon, <2>1, <2>3, <3>1
    <3>. QED  BY Zenon, <3>2, SameSaid
  <2>7. Delivered(s)'
    <3>1. Events(s) = Tail(seen[s]) \o chan[s] /\ Events(s)' = Tail(seen[s]) \o Tail(chan[s])
      BY Zenon, <1>5, <1>8 DEF Events
    <3>2. ASSUME NEW i \in DOMAIN Events(s)', NEW j \in DOMAIN Events(s)'
          PROVE  \E k, l \in DOMAIN Events(s) :
                   Events(s)'[i] = Events(s)[k] /\ Events(s)'[j] = Events(s)[l] /\ (k = l => i = j)
      <4>1. ASSUME NEW h \in DOMAIN Events(s)'
            PROVE  LET k == IF h < Len(seen[s]) THEN h ELSE h + 1
                   IN  h \in Nat /\ k \in DOMAIN Events(s) /\ Events(s)'[h] = Events(s)[k]
        <5>1. h \in DOMAIN (Tail(seen[s]) \o Tail(chan[s]))
          BY Zenon, <3>1, <4>1
        <5>. QED  BY Zenon, <1>1, <1>2, <3>1, <5>1, LostHead
      <4>2. Len(seen[s]) \in Nat
        BY <1>2
      <4> DEFINE K(h) == IF h < Len(seen[s]) THEN h ELSE h + 1
      <4>3. K(i) = K(j) => i = j
        BY <3>2, <4>1, <4>2
      <4>4. /\ K(i) \in DOMAIN Events(s) /\ Events(s)'[i] = Events(s)[K(i)]
            /\ K(j) \in DOMAIN Events(s) /\ Events(s)'[j] = Events(s)[K(j)]
        BY Zenon, <3>2, <4>1
      <4> HIDE DEF K
      <4>. QED  BY Zenon, <4>3, <4>4
    <3>3. \A o \in Ops : notice[o].visited \subseteq notice'[o].visited
      BY Zenon, <1>1
    <3>. QED  BY Zenon, <1>1, <3>2, <3>3, DeliveredStays
  <2>. QED  BY Zenon, <1>1, <1>5, <1>6, <1>8, <2>1, <2>2, <2>4, <2>5, <2>6, <2>7, StreamKeeps
<1>. QED  BY Zenon, <1>7, <1>8 DEF Receive

\* A stream that is accepted has no events yet, and no notification knows it.
LEMMA OpenEvents ==
  ASSUME IInv, StreamInv, EventInv, OpsStay, NEW s \in Streams, NEW v \in Reviews, Open(s, v)
  PROVE  EventInv'
<1>1. stage[s] = "away" /\ watch[s] = NoOne /\ chan[s] = <<>> /\ UNCHANGED <<chan, notice>>
  BY Zenon DEF Open, EventInv, Watching
<1>2. \A t \in Streams \ {s} : stage'[t] = stage[t] /\ watch'[t] = watch[t] /\ chan'[t] = chan[t] /\ seen'[t] = seen[t]
  BY Zenon, <1>1 DEF Open, StreamInv, EventInv, EventTypes
<1>3. \A t \in Streams \ {s} : Events(t)' = Events(t)
  BY Zenon, <1>2 DEF Events
<1>4. StreamsStay
  BY Zenon, <1>1, <1>2 DEF StreamsStay
<1>5. EventsStay
  <2> SUFFICES ASSUME NEW t \in Streams, watch[t] # NoOne, stage'[t] = "open"
               PROVE  /\ stage[t] = "open"
                      /\ \A i \in DOMAIN Events(t) : \E j \in DOMAIN Events(t)' : Events(t)'[j] = Events(t)[i]
    BY Zenon DEF EventsStay
  <2>1. t # s
    BY Zenon, <1>1
  <2>2. Events(t)' = Events(t) /\ stage'[t] = stage[t]
    BY Zenon, <1>2, <1>3, <2>1
  <2>. QED  BY Zenon, <2>2, SameSaid
<1>6. MapsStay
  BY Zenon DEF Open, RegisterConnection, EventInv, EventTypes, MapsStay
<1>7. EventTypes'
  <2>1. made' \in [Reviews -> Nat] /\ seen' \in [Streams -> Seq({"PENDING"} \cup Decisions)]
    <3>1. <<"PENDING">> \in Seq({"PENDING"} \cup Decisions)
      OBVIOUS
    <3>2. made' \in [Reviews -> Nat]
      <4>1. made' = made \/ made' = [made EXCEPT ![v] = @ + 1]
        BY Zenon DEF Open, RegisterConnection
      <4>2. made \in [Reviews -> Nat]
        BY Zenon DEF EventInv, EventTypes
      <4>. QED  BY <4>1, <4>2
    <3>3. seen' = seen \/ seen' = [seen EXCEPT ![s] = <<"PENDING">>]
      BY Zenon DEF Open
    <3>. QED  BY Zenon, <3>1, <3>2, <3>3 DEF EventInv, EventTypes
  <2>. QED  BY Zenon, <1>1, <2>1 DEF EventInv, EventTypes
<1>8. CASE stage' = [stage EXCEPT ![s] = "open"] /\ watch' = [watch EXCEPT ![s] = v] /\ seen' = [seen EXCEPT ![s] = <<"PENDING">>]
  <2>1. stage'[s] = "open" /\ watch'[s] = v /\ seen'[s] = <<"PENDING">> /\ v # NoOne
    BY Zenon, <1>8, ReviewConstants DEF StreamInv, EventInv, EventTypes
  <2>2. Watching(s)'
    BY <1>1, <2>1 DEF Watching
  <2>3. Events(s)' = Tail(<<"PENDING">>) \o <<>>
    BY Zenon, <1>1, <2>1 DEF Events
  <2>4. DOMAIN Events(s)' = {}
    BY <2>3
  <2>5. Delivered(s)'
    BY Zenon, <2>4 DEF Delivered
  <2>. QED  BY Zenon, <1>1, <1>2, <1>4, <1>5, <1>6, <1>7, <2>2, <2>5, StreamKeeps
<1>9. CASE stage' = [stage EXCEPT ![s] = "refused"] /\ UNCHANGED <<watch, seen, conns, made>>
  <2>1. stage'[s] = "refused"
    BY Zenon, <1>9 DEF StreamInv
  <2>2. Watching(s)' /\ Delivered(s)'
    BY Zenon, <1>1, <1>9, <2>1 DEF Watching, Delivered
  <2>. QED  BY Zenon, <1>1, <1>2, <1>4, <1>5, <1>6, <1>7, <2>2, StreamKeeps
<1>. QED  BY Zenon, <1>8, <1>9 DEF Open

\* The process stops: nobody listens any more, and the channels are gone.
LEMMA StopEvents ==
  ASSUME IInv, StreamInv, EventInv, OpsStay, Stop
  PROVE  EventInv'
<1>1. UNCHANGED <<watch, seen, made>> /\ chan' = [s \in Streams |-> <<>>]
  BY Zenon DEF Stop
<1>2. \A s \in Streams : /\ chan'[s] = <<>> /\ stage'[s] # "open"
                         /\ stage'[s] = stage[s] \/ (stage[s] = "open" /\ stage'[s] = "lost")
  BY Zenon DEF Stop
<1>3. ASSUME NEW o \in Ops
      PROVE  /\ notice'[o] \in Notice /\ notice'[o].visited = notice[o].visited /\ notice'[o].took = notice[o].took
             /\ notice'[o].at \notin {"ranging", "sending"}
             /\ notice'[o].at = "none" <=> notice[o].at = "none"
  <2>1. notice[o] \in Notice
    BY Zenon DEF EventInv, EventTypes
  <2>2. CASE o \in Ranging
    <3>1. notice'[o] = [notice[o] EXCEPT !.at = "lost"] /\ notice[o].at \in {"ranging", "sending"}
      BY Zenon, <2>2 DEF Stop, Ranging
    <3>. QED  BY Zenon, <2>1, <3>1 DEF Notice
  <2>3. CASE o \notin Ranging
    <3>1. notice'[o] = notice[o] /\ notice[o].at \notin {"ranging", "sending"}
      BY Zenon, <2>3 DEF Stop, Ranging
    <3>. QED  BY Zenon, <2>1, <3>1
  <2>. QED  BY Zenon, <2>2, <2>3
<1>4. notice' \in [Ops -> Notice]
  <2>1. notice' = [o \in Ops |-> IF o \in Ranging THEN [notice[o] EXCEPT !.at = "lost"] ELSE notice[o]]
    BY Zenon DEF Stop
  <2>. QED  BY Zenon, <1>3, <2>1
<1>5. EventTypes'
  <2>1. chan' \in [Streams -> Seq(Decisions)]
    BY <1>1
  <2>. QED  BY Zenon, <1>1, <1>4, <2>1 DEF EventInv, EventTypes
<1>6. \A s \in Streams : Watching(s)'
  BY Zenon, <1>1, <1>2 DEF EventInv, Watching
<1>7. ASSUME NEW s \in Streams PROVE Delivered(s)'
  <2>1. ASSUME watch[s] # NoOne, NEW i \in DOMAIN Events(s)', NEW j \in DOMAIN Events(s)'
        PROVE  \E k, l \in DOMAIN Events(s) :
                 Events(s)'[i] = Events(s)[k] /\ Events(s)'[j] = Events(s)[l] /\ (k = l => i = j)
    <3>1. seen[s] \in Seq(Told) /\ chan[s] \in Seq(Told) /\ seen[s] # <<>>
      BY Zenon, <1>7, <2>1, EventTypesOf
    <3>2. Events(s) = Tail(seen[s]) \o chan[s] /\ Events(s)' = Tail(seen[s]) \o <<>>
      BY Zenon, <1>1, <1>2, <1>7 DEF Events
    <3>3. \A h \in DOMAIN Events(s)' : h \in DOMAIN Events(s) /\ Events(s)'[h] = Events(s)[h]
      BY Zenon, <3>1, <3>2, LostAll
    <3>. QED  BY Zenon, <2>1, <3>3
  <2>2. \A o \in Ops : notice[o].visited \subseteq notice'[o].visited
    BY Zenon, <1>3
  <2>. QED  BY Zenon, <1>1, <2>1, <2>2, DeliveredStays
<1>8. ASSUME NEW o \in Ops PROVE NoticeSound(o)' /\ Reached(o)' /\ Finishes(o)'
  <2>1. notice'[o].visited \subseteq Streams /\ notice'[o].took \subseteq Streams
    BY Zenon, <1>3 DEF Notice
  <2>2. Reached(o)' /\ Finishes(o)'
    BY Zenon, <1>2, <2>1 DEF Reached, Finishes
  <2>3. \A s \in notice'[o].visited \cup notice'[o].took : watch'[s] = target'[o]
    BY Zenon, <1>1, <1>3, Accepted DEF OpsStay
  <2>4. NoticeSound(o)'
    BY Zenon, <1>3, <2>3 DEF NoticeSound, OpsStay, EventInv
  <2>. QED  BY Zenon, <2>2, <2>4
<1>. QED  BY Zenon, <1>5, <1>6, <1>7, <1>8 DEF EventInv

\* At first there are no streams.
LEMMA EventInit ==
  ASSUME StreamInit
  PROVE  EventInv
<1>1. EventTypes /\ \A o \in Ops : notice[o].at = "none" /\ notice[o].visited = {} /\ notice[o].took = {}
  BY DEF StreamInit, EventTypes, Notice
<1>2. \A s \in Streams : stage[s] = "away" /\ watch[s] = NoOne /\ chan[s] = <<>>
  BY Zenon DEF StreamInit
<1>. QED  BY Zenon, <1>1, <1>2 DEF EventInv, Watching, Delivered, NoticeSound, Reached, Finishes

\* Every step keeps it.
LEMMA EventStep ==
  ASSUME IInv, StreamInv, EventInv, [StreamNext]_<<vars, streamVars>>
  PROVE  EventInv'
<1>1. OpsStay
  BY Zenon, NoticesKept
<1>2. work.reviews \subseteq Reviews /\ work.streams \subseteq Streams
  BY Zenon, StreamConstants DEF StreamInv
<1>3. CASE UNCHANGED streamVars
  BY Zenon, <1>1, <1>3, QuietKeeps
<1>4. ASSUME NEW o \in Ops, Notify(o) PROVE EventInv'
  BY Zenon, <1>1, <1>4, TakeMapKeeps, PickKeeps, EndOfMapKeeps, SendKeeps DEF Notify
<1>5. ASSUME NEW s \in work.streams, Stream(s) PROVE EventInv'
  BY Zenon, <1>1, <1>2, <1>5, ReceiveKeeps, DisconnectKeeps, OpenEvents DEF Stream
<1>. QED  BY Zenon, <1>1, <1>3, <1>4, <1>5, StopEvents DEF StreamNext, ReviewStep, Finished

\* Both steps together.
LEMMA EventInvHolds == StreamSpec => []EventInv
<1>1. StreamInit => EventInv
  BY Zenon, EventInit
<1>2. IInv /\ StreamInv /\ EventInv /\ [StreamNext]_<<vars, streamVars>> => EventInv'
  BY Zenon, EventStep
<1>. QED
  BY <1>1, <1>2, StreamsImplementReview, Invariance, StreamInvHolds, PTL DEF StreamSpec

\* For any number of operations and streams, whatever a stream was or will be told is true
\* of its review for good, and told once (StreamReview, notifyReviewUpdate).
THEOREM StreamsTellTheTruth == StreamSpec => []EventsTruthful
<1>1. ASSUME IInv, StreamInv, EventInv PROVE EventsTruthful
  <2> SUFFICES ASSUME NEW s \in Streams, watch[s] # NoOne
               PROVE  /\ \A i \in DOMAIN Events(s) :
                           CASE Events(s)[i] = "APPROVED" -> status[watch[s]] \in {"APPROVED", "EXECUTED"}
                             [] OTHER -> status[watch[s]] = Events(s)[i]
                      /\ \A i, j \in DOMAIN Events(s) : Events(s)[i] = Events(s)[j] => i = j
    BY Zenon DEF EventsTruthful
  <2>1. ASSUME NEW i \in DOMAIN Events(s)
        PROVE  /\ Events(s)[i] = "APPROVED" => status[watch[s]] \in {"APPROVED", "EXECUTED"}
               /\ Events(s)[i] # "APPROVED" => status[watch[s]] = Events(s)[i]
    <3>1. PICK o \in Ops : Notifies(o) /\ target[o] = watch[s] /\ Announced(o) = Events(s)[i]
      BY Zenon, <1>1, <2>1, EventTrue
    <3>. QED  BY Zenon, <1>1, <3>1, AnnouncedTrue
  <2>2. \A i, j \in DOMAIN Events(s) : Events(s)[i] = Events(s)[j] => i = j
    BY Zenon, <1>1 DEF EventInv, Delivered
  <2>. QED  BY Zenon, <2>1, <2>2
<1>. QED
  BY <1>1, StreamsImplementReview, Invariance, StreamInvHolds, EventInvHolds, PTL

\* For any number of operations and streams, a notification that ended has reached every
\* stream it found and that still listens: no channel ever fills, provided it holds the
\* two events a review can have (the code makes it for ten).
THEOREM EventsAreReceived == StreamSpec => []EventsReach
<1>1. EventInv => EventsReach
  BY Zenon DEF EventInv, Finishes, EventsReach
<1>. QED
  BY <1>1, EventInvHolds, PTL
==============================================================================
