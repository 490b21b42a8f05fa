---------------------------- MODULE ToolLoopProofs ----------------------------
(***************************************************************************)
(* Proofs about the chat loop that composes the registry and the executor:  *)
(* for any number of processes, tools, limits and iterations.               *)
(***************************************************************************)
EXTENDS ToolLoop, ToolProofs, TLAPS

-----------------------------------------------------------------------------
(* The chat loop *)

\* The steps of a request that wait for a look-up.
Looking == {"validating", "resolving"}

\* The types of the requests.
ChatTypes ==
  /\ cpc \in [Callers -> CSteps]
  /\ request \in [Callers -> Defs \cup {None}]
  /\ vt \in [Callers -> Rows \cup {None}]
  /\ DOMAIN calls = Callers
  /\ DOMAIN results = Callers
  /\ iter \in [Callers -> Nat]
  /\ reply \in [Callers -> Replies]

\* Calls and results are sequences.
Sequential == \A c \in Callers : /\ \E S : results[c] \in Seq(S)
                                 /\ \E S : calls[c] \in Seq(S)

\* The goroutine of a request runs look-ups only, and one exactly while it waits for it;
\* it is in Execute exactly while it waits for that.
Goroutine(c) ==
  /\ "read" \in roles[c] =>
       IF cpc[c] \in Looking
       THEN /\ pc[c] \in {"lookup", "query", "fill", "answered"}
            /\ task[c].kind = "read" /\ task[c].name = Target
       ELSE pc[c] = "idle"
  /\ "read" \notin roles[c] => cpc[c] = "new"
  /\ xpc[c] = "out" <=> cpc[c] # "executing"

\* The validated tool is the client's definition, from an audited row.
Validated(c) ==
  /\ vt[c] # None => vt[c].def = request[c] /\ Accounted(Target, vt[c])
  /\ cpc[c] = "new" => vt[c] = None
  /\ cpc[c] \in {"resolving", "executing"} => vt[c] # None
  /\ cpc[c] = "executing" =>
       /\ got[c] # None /\ got[c].active /\ got[c].def = request[c]
       /\ call[c] = [tool |-> Target, lim |-> vt[c].lim]
       /\ Target \notin approval

\* The results of a round are those of its first calls, in order.
Rounds(c) ==
  /\ cpc[c] \in {"new", "validating"} => results[c] = <<>> /\ calls[c] = <<>>
  /\ cpc[c] = "dispatch" => Len(results[c]) <= Len(calls[c])
  /\ cpc[c] \in {"resolving", "executing"} => Len(results[c]) < Len(calls[c])
  /\ cpc[c] = "model" => Len(results[c]) = Len(calls[c])
  /\ cpc[c] # "done" =>
       \A i \in DOMAIN results[c] : results[c][i].round = iter[c] /\ results[c][i].call = i
  /\ reply[c] # "none" => cpc[c] = "done"
  /\ reply[c] = "stop" => calls[c] = <<>>

\* What holds of the requests.
ChatInv ==
  /\ ChatTypes /\ Sequential
  /\ \A c \in Callers : Goroutine(c) /\ Validated(c) /\ Rounds(c)

\* The inductive invariant: that of the registry, of the executor and of the requests.
LoopInv == RegInv /\ StaleOnlyIfRaced /\ ExecInv /\ ChatInv

USE DEF CGoto, XGoto, Goto

-----------------------------------------------------------------------------
(* What the steps of the components leave alone *)

\* A step of a process leaves the other processes alone.
LEMMA RegistryFrame ==
  ASSUME RegInv, NEW p \in Procs, RegistryStep(p) \/ Endpoint(p)
  PROVE  /\ roles' = roles
         /\ \A q \in Procs \ {p} : pc'[q] = pc[q] /\ task'[q] = task[q] /\ got'[q] = got[q]
<1> DEFINE Frame == /\ roles' = roles
                    /\ \A q \in Procs \ {p} : pc'[q] = pc[q] /\ task'[q] = task[q] /\ got'[q] = got[q]
<1>1. /\ \A q \in Procs \ {p} : \A v : [pc EXCEPT ![p] = v][q] = pc[q]
      /\ \A q \in Procs \ {p} : \A v : [task EXCEPT ![p] = v][q] = task[q]
      /\ \A q \in Procs \ {p} : \A v : [got EXCEPT ![p] = v][q] = got[q]
  BY Zenon DEF RegInv, RegTypes
<1>2. Leave(p) => Frame
  BY Zenon, <1>1 DEF Leave, RegInv, RegTypes
<1>3. \A kind, name, arg, step : Begin(p, kind, name, arg, step) => Frame
  BY Zenon, <1>1 DEF Begin, RegInv, RegTypes
<1>4. Endpoint(p) => Frame
  BY Zenon, <1>3 DEF Endpoint, CreateTool, UpdateTool, DeactivateTool, InitFromConfig
<1>5. UNCHANGED local => roles' = roles /\ task' = task /\ got' = got
  BY Zenon DEF local
<1>6. CacheHit(p) => Frame
  BY Zenon, <1>1 DEF CacheHit, RegInv, RegTypes
<1>7. Query(p) => Frame
  BY Zenon, <1>1 DEF Query, RegInv, RegTypes
<1>8. Fill(p) => Frame
  BY Zenon, <1>1, <1>5 DEF Fill
<1>9. Merge(p) => Frame
  BY Zenon, <1>1, <1>2 DEF Merge, RegInv, RegTypes
<1>10. Existing(p) => Frame
  BY Zenon, <1>1, <1>2, <1>5 DEF Existing, RegInv, RegTypes
<1>11. Rollback(p) => Frame
  BY Zenon, <1>2 DEF Rollback
<1>12. Statement(p) => Frame
  BY Zenon, <1>1, <1>5, <1>11 DEF Statement, RegInv, RegTypes
<1>13. WriteRows(p) => Frame
  BY Zenon, <1>1, <1>11 DEF WriteRows, RegInv, RegTypes
<1>14. LockAudit(p) => Frame
  BY Zenon, <1>1, <1>5 DEF LockAudit, RegInv, RegTypes
<1>15. FailAudit(p) \/ DeadlockAbort(p) => Frame
  BY Zenon, <1>11 DEF FailAudit, DeadlockAbort
<1>16. Commit(p) => Frame
  BY Zenon, <1>1, <1>2, <1>5 DEF Commit, RegInv, RegTypes
<1>17. Invalidate(p) => Frame
  BY Zenon, <1>2 DEF Invalidate
<1>. QED
  BY Zenon, <1>4, <1>6, <1>7, <1>8, <1>9, <1>10, <1>12, <1>13, <1>14, <1>15, <1>16, <1>17
  DEF RegistryStep, GetByName, Transaction

\* A function on 1..n is a sequence.
LEMMA IndexedSeq ==
  ASSUME NEW S, NEW n \in Nat, NEW E \in [1..n -> S]
  PROVE  E \in Seq(S)
OBVIOUS

\* The log only grows.
LEMMA AuditGrows ==
  ASSUME RegInv, NEW p \in Procs, RegistryStep(p) \/ Endpoint(p)
  PROVE  \A n, row : Accounted(n, row) => Accounted(n, row)'
<1>1. ASSUME audit' = audit PROVE \A n, row : Accounted(n, row) => Accounted(n, row)'
  BY Zenon, <1>1 DEF Accounted
<1>2. CASE Commit(p)
  <2>1. PICK E : E = [j \in DOMAIN pend[p] |-> EventOf(p, pend[p][j])]
    BY Zenon
  <2>2. audit' = audit \o E
    BY Zenon, <1>2, <2>1 DEF Commit
  <2>3. audit \in Seq(AuditEvents) /\ audit' \in Seq(AuditEvents)
    BY Zenon, <1>2, CommitKeeps DEF RegInv, RegTypes
  <2>4. DOMAIN E = 1..Len(pend[p]) /\ Len(pend[p]) \in Nat
    BY <2>1 DEF RegInv, RegTypes
  <2>5. \A i \in DOMAIN audit : i \in DOMAIN audit' /\ audit'[i] = audit[i]
    <3>1. PICK S : E \in Seq(S)
      <4>1. PICK S : \A j \in 1..Len(pend[p]) : E[j] \in S
        <5>1. \A j \in 1..Len(pend[p]) : E[j] \in {E[k] : k \in 1..Len(pend[p])}
          BY Zenon
        <5>. QED  BY Zenon, <5>1
      <4>2. E \in [1..Len(pend[p]) -> S]
        BY Zenon, <2>1, <2>4, <4>1
      <4>. QED  BY Zenon, <2>4, <4>2, IndexedSeq
    <3>2. audit \in Seq(AuditEvents \cup S) /\ E \in Seq(AuditEvents \cup S)
      BY <2>3, <3>1
    <3>. QED  BY <2>2, <3>2, Appended
  <2>. QED  BY Zenon, <2>5 DEF Accounted
<1>3. CASE Endpoint(p)
  BY Zenon, <1>1, <1>3 DEF Endpoint, CreateTool, UpdateTool, DeactivateTool, InitFromConfig, Begin, shared
<1>4. CASE GetByName(p) \/ Merge(p) \/ Existing(p)
  BY Zenon, <1>1, <1>4 DEF GetByName, CacheHit, Query, Fill, Merge, Existing, shared
<1>5. CASE Transaction(p) /\ ~Commit(p)
  BY Zenon, <1>1, <1>5 DEF Transaction, Statement, WriteRows, LockAudit, FailAudit, DeadlockAbort, Rollback,
     Invalidate, shared
<1>. QED  BY Zenon, <1>2, <1>3, <1>4, <1>5 DEF RegistryStep

\* A goroutine in a look-up goes on with it, one that is idle does nothing.
LEMMA ReadStep ==
  ASSUME RegInv, NEW p \in Procs, RegistryStep(p)
  PROVE  /\ pc[p] # "idle"
         /\ task[p].kind = "read" /\ pc[p] \in {"lookup", "query", "fill", "answered"} =>
              pc'[p] \in {"query", "fill", "answered"} /\ task' = task
<1>1. \A v : [pc EXCEPT ![p] = v][p] = v
  BY Zenon DEF RegInv, RegTypes
<1>2. CASE GetByName(p)
  <2>1. pc[p] # "idle" /\ task' = task
    BY Zenon, <1>2 DEF GetByName, CacheHit, Query, Fill, local
  <2>2. task[p].kind = "read" => After(p) = "answered"
    BY Zenon DEF After
  <2>3. task[p].kind = "read" => pc'[p] \in {"query", "fill", "answered"}
    BY Zenon, <1>1, <1>2, <2>2 DEF GetByName, CacheHit, Query, Fill
  <2>. QED  BY Zenon, <2>1, <2>3
<1>3. CASE ~GetByName(p)
  <2>1. pc[p] \in {"merge", "compare", "retire", "statement", "write", "audit", "commit", "invalidate"}
    BY Zenon, <1>3 DEF RegistryStep, Merge, Existing, Transaction, Statement, WriteRows, LockAudit, FailAudit,
       DeadlockAbort, Deadlocked, Commit, Invalidate
  <2>. QED  BY Zenon, <2>1
<1>. QED  BY Zenon, <1>2, <1>3

\* A step of Execute is of a caller in it, and leaves the others alone.
LEMMA ExecutorFrame ==
  ASSUME ExecInv, NEW c \in Callers, ExecutorStep(c)
  PROVE  /\ call' = call /\ xpc[c] # "out" /\ xpc'[c] # "out"
         /\ \A d \in Callers \ {c} : xpc'[d] = xpc[d]
<1>1. xpc \in [Callers -> XSteps]
  BY Zenon DEF ExecInv, ExecTypes
<1> DEFINE Frame == /\ call' = call /\ xpc[c] # "out" /\ xpc'[c] # "out"
                    /\ \A d \in Callers \ {c} : xpc'[d] = xpc[d]
<1>3. ResolveLimits(c) => Frame
  BY Zenon, <1>1 DEF ResolveLimits, Return
<1>4. acquireRuntime(c) => Frame
  BY Zenon, <1>1 DEF acquireRuntime
<1>5. GiveUp(c) => Frame
  BY Zenon, <1>1 DEF GiveUp, Return
<1>6. CheckCompiled(c) => Frame
  BY Zenon, <1>1 DEF CheckCompiled
<1>7. Compile(c) => Frame
  BY Zenon, <1>1 DEF Compile, Unwind
<1>8. Instantiate(c) => Frame
  BY Zenon, <1>1 DEF Instantiate, Unwind
<1>9. Run(c) \/ CloseInstance(c) => Frame
  BY Zenon, <1>1 DEF Run, CloseInstance, Unwind
<1>10. releaseRuntime(c) => Frame
  BY Zenon, <1>1 DEF releaseRuntime
<1>. QED
  BY Zenon, <1>3, <1>4, <1>5, <1>6, <1>7, <1>8, <1>9, <1>10 DEF ExecutorStep

-----------------------------------------------------------------------------
(* The steps of the components keep the chat's invariant *)

\* A step that leaves the requests alone.
LEMMA ChatStill ==
  ASSUME ChatInv, UNCHANGED <<approval, cpc, request, vt, calls, results, iter, reply>>,
         \A n, row : Accounted(n, row) => Accounted(n, row)',
         \A c \in Callers : /\ Goroutine(c)'
                            /\ cpc[c] = "executing" => got'[c] = got[c] /\ call'[c] = call[c]
  PROVE  ChatInv'
<1>1. ChatTypes' /\ Sequential'
  BY Zenon DEF ChatInv, ChatTypes, Sequential
<1>2. ASSUME NEW c \in Callers PROVE Validated(c)' /\ Rounds(c)'
  <2>1. Validated(c)'
    BY Zenon DEF ChatInv, Validated
  <2>2. Rounds(c)'
    BY Zenon DEF ChatInv, Rounds
  <2>. QED  BY Zenon, <2>1, <2>2
<1>. QED  BY Zenon, <1>1, <1>2 DEF ChatInv

\* Administration and the steps of the registry.
LEMMA WorkKeeps ==
  ASSUME LoopInv, NEW p \in Procs, Work(p) \/ Administer(p)
  PROVE  LoopInv'
<1>1. /\ RegistryStep(p) \/ Endpoint(p)
      /\ UNCHANGED executor
      /\ UNCHANGED <<approval, cpc, request, vt, calls, results, iter, reply>>
  BY Zenon DEF Work, Administer, chat
<1>2. RegInv /\ StaleOnlyIfRaced /\ ExecInv /\ ChatInv
  BY Zenon DEF LoopInv
<1>3. RegInv' /\ StaleOnlyIfRaced' /\ ExecInv'
  BY Zenon, <1>1, <1>2, RegistryStepKeeps, EndpointKeeps, StaleStep, StaleLookup, ExecutorUnmoved
<1>4. UNCHANGED <<xpc, call>>
  BY Zenon, <1>1 DEF executor
<1>5. /\ roles' = roles
      /\ \A q \in Procs \ {p} : pc'[q] = pc[q] /\ task'[q] = task[q] /\ got'[q] = got[q]
  BY Zenon, <1>1, <1>2, RegistryFrame
<1>6. \A n, row : Accounted(n, row) => Accounted(n, row)'
  BY Zenon, <1>1, <1>2, AuditGrows
<1>7. ASSUME NEW c \in Callers
      PROVE  Goroutine(c)' /\ (cpc[c] = "executing" => got'[c] = got[c] /\ call'[c] = call[c])
  <2>1. Goroutine(c) /\ c \in Procs
    BY Zenon, <1>2, LoopConstants DEF ChatInv
  <2>2. CASE c # p
    <3>1. pc'[c] = pc[c] /\ task'[c] = task[c] /\ got'[c] = got[c]
      BY Zenon, <1>5, <2>1, <2>2
    <3>. QED  BY Zenon, <1>1, <1>4, <1>5, <2>1, <3>1 DEF Goroutine
  <2>3. CASE c = p /\ "read" \notin roles[c]
    <3>1. cpc[c] = "new"
      BY Zenon, <2>1, <2>3 DEF Goroutine
    <3>. QED  BY Zenon, <1>1, <1>4, <1>5, <2>1, <2>3, <3>1 DEF Goroutine
  <2>4. CASE c = p /\ "read" \in roles[c]
    <3>1. ~Endpoint(p)
      <4>1. roles[p] = {"read"}
        BY Zenon, <1>2, <2>4, LoopConstants DEF RegInv, RegTypes
      <4>2. "create" \notin roles[p] /\ "patch" \notin roles[p] /\ "deactivate" \notin roles[p] /\ "seed" \notin roles[p]
        BY Zenon, <4>1
      <4>. QED  BY Zenon, <4>2 DEF Endpoint, CreateTool, UpdateTool, DeactivateTool, InitFromConfig, Begin
    <3>2. RegistryStep(p)
      BY Zenon, <1>1, <3>1
    <3>3. pc[p] # "idle" /\ cpc[c] \in Looking
      BY Zenon, <1>2, <2>1, <2>4, <3>2, ReadStep DEF Goroutine
    <3>4. /\ pc[c] \in {"lookup", "query", "fill", "answered"}
          /\ task[c].kind = "read" /\ task[c].name = Target
      BY Zenon, <2>1, <2>4, <3>3 DEF Goroutine
    <3>5. pc'[c] \in {"query", "fill", "answered"} /\ task' = task
      BY Zenon, <1>2, <2>4, <3>2, <3>4, ReadStep
    <3>6. cpc[c] # "executing"
      BY Zenon, <3>3 DEF Looking
    <3>. QED  BY Zenon, <1>1, <1>4, <1>5, <2>1, <2>4, <3>3, <3>4, <3>5, <3>6 DEF Goroutine
  <2>. QED  BY Zenon, <2>2, <2>3, <2>4
<1>8. ChatInv'
  BY Zenon, <1>1, <1>2, <1>6, <1>7, ChatStill
<1>. QED  BY Zenon, <1>3, <1>8 DEF LoopInv

\* The steps of Execute.
LEMMA ExecuteKeeps ==
  ASSUME LoopInv, NEW c \in Callers, Execute(c)
  PROVE  LoopInv'
<1>1. /\ ExecutorStep(c) /\ UNCHANGED registry
      /\ UNCHANGED <<approval, cpc, request, vt, calls, results, iter, reply>>
  BY Zenon DEF Execute, chat
<1>2. RegInv /\ StaleOnlyIfRaced /\ ExecInv /\ ChatInv
  BY Zenon DEF LoopInv
<1>3. RegInv' /\ StaleOnlyIfRaced' /\ ExecInv'
  BY Zenon, <1>1, <1>2, RegistryUnmoved, StaleUnmoved, ExecutorStepKeeps
<1>4. UNCHANGED <<audit, roles, pc, task, got>>
  BY Zenon, <1>1 DEF registry
<1>5. \A n, row : Accounted(n, row) => Accounted(n, row)'
  BY Zenon, <1>4 DEF Accounted
<1>6. /\ call' = call /\ xpc[c] # "out" /\ xpc'[c] # "out"
      /\ \A d \in Callers \ {c} : xpc'[d] = xpc[d]
  BY Zenon, <1>1, <1>2, ExecutorFrame
<1>7. ASSUME NEW d \in Callers PROVE Goroutine(d)'
  <2>1. Goroutine(d) /\ (xpc'[d] = "out" <=> xpc[d] = "out")
    BY Zenon, <1>2, <1>6 DEF ChatInv
  <2>. QED  BY Zenon, <1>1, <1>4, <2>1 DEF Goroutine
<1>8. ChatInv'
  BY Zenon, <1>1, <1>2, <1>4, <1>5, <1>6, <1>7, ChatStill
<1>. QED  BY Zenon, <1>3, <1>8 DEF LoopInv

\* The expiry of a cache entry.
LEMMA ExpireEntryKeeps ==
  ASSUME LoopInv, ExpireEntry
  PROVE  LoopInv'
<1>1. PICK n \in Names : Expire(n)
  BY Zenon DEF ExpireEntry
<1>2. UNCHANGED executor /\ UNCHANGED <<approval, cpc, request, vt, calls, results, iter, reply>>
  BY Zenon DEF ExpireEntry, chat
<1>3. RegInv /\ StaleOnlyIfRaced /\ ExecInv /\ ChatInv
  BY Zenon DEF LoopInv
<1>4. RegInv' /\ StaleOnlyIfRaced' /\ ExecInv'
  BY Zenon, <1>1, <1>2, <1>3, ExpireKeeps, StaleExpire, ExecutorUnmoved
<1>5. UNCHANGED <<audit, roles, pc, task, got, xpc, call>>
  BY Zenon, <1>1, <1>2 DEF Expire, local, executor
<1>6. \A m, row : Accounted(m, row) => Accounted(m, row)'
  BY Zenon, <1>5 DEF Accounted
<1>7. ASSUME NEW d \in Callers PROVE Goroutine(d)'
  BY Zenon, <1>2, <1>3, <1>5 DEF ChatInv, Goroutine
<1>8. ChatInv'
  BY Zenon, <1>2, <1>3, <1>5, <1>6, <1>7, ChatStill
<1>. QED  BY Zenon, <1>4, <1>8 DEF LoopInv

\* A step that changes nothing.
LEMMA LoopUnmoved ==
  ASSUME LoopInv, UNCHANGED vars
  PROVE  LoopInv'
<1>1. /\ UNCHANGED executor /\ UNCHANGED registry
      /\ UNCHANGED <<approval, cpc, request, vt, calls, results, iter, reply>>
  BY Zenon DEF vars, chat
<1>2. RegInv /\ StaleOnlyIfRaced /\ ExecInv /\ ChatInv
  BY Zenon DEF LoopInv
<1>3. RegInv' /\ StaleOnlyIfRaced' /\ ExecInv'
  BY Zenon, <1>1, <1>2, RegistryUnmoved, StaleUnmoved, ExecutorUnmoved
<1>4. UNCHANGED <<audit, roles, pc, task, got, xpc, call>>
  BY Zenon, <1>1 DEF executor, registry
<1>5. \A m, row : Accounted(m, row) => Accounted(m, row)'
  BY Zenon, <1>4 DEF Accounted
<1>6. ASSUME NEW d \in Callers PROVE Goroutine(d)'
  BY Zenon, <1>1, <1>2, <1>4 DEF ChatInv, Goroutine
<1>7. ChatInv'
  BY Zenon, <1>1, <1>2, <1>4, <1>5, <1>6, ChatStill
<1>. QED  BY Zenon, <1>3, <1>7 DEF LoopInv

-----------------------------------------------------------------------------
(* The steps of a request *)

\* A step of one request: the others are as they were.
LEMMA ChatLocal ==
  ASSUME ChatInv, NEW c \in Callers, ChatTypes', UNCHANGED <<approval, roles, audit>>,
         \A d \in Callers \ {c} :
           /\ cpc'[d] = cpc[d] /\ request'[d] = request[d] /\ vt'[d] = vt[d] /\ calls'[d] = calls[d]
           /\ results'[d] = results[d] /\ iter'[d] = iter[d] /\ reply'[d] = reply[d]
           /\ pc'[d] = pc[d] /\ task'[d] = task[d] /\ got'[d] = got[d] /\ xpc'[d] = xpc[d] /\ call'[d] = call[d],
         \E S : results'[c] \in Seq(S), \E S : calls'[c] \in Seq(S),
         Goroutine(c)', Validated(c)', Rounds(c)'
  PROVE  ChatInv'
<1>1. Sequential'
  BY Zenon DEF ChatInv, Sequential
<1>2. \A n, row : Accounted(n, row)' <=> Accounted(n, row)
  BY Zenon DEF Accounted
<1>3. ASSUME NEW d \in Callers \ {c} PROVE Goroutine(d)' /\ Validated(d)' /\ Rounds(d)'
  <2>1. Goroutine(d) /\ Validated(d) /\ Rounds(d)
    BY Zenon DEF ChatInv
  <2>2. Goroutine(d)'
    BY Zenon, <2>1 DEF Goroutine
  <2>3. Validated(d)'
    BY Zenon, <1>2, <2>1 DEF Validated
  <2>4. Rounds(d)'
    BY Zenon, <2>1 DEF Rounds
  <2>. QED  BY Zenon, <2>2, <2>3, <2>4
<1>. QED  BY Zenon, <1>1, <1>3 DEF ChatInv

\* A request arrives.
LEMMA ChatCompletionsKeeps ==
  ASSUME LoopInv, NEW c \in Callers, ChatCompletions(c)
  PROVE  LoopInv'
<1>1. RegInv /\ StaleOnlyIfRaced /\ ExecInv /\ ChatInv /\ c \in Procs
  BY Zenon, LoopConstants DEF LoopInv
<1>2. /\ cpc[c] = "new" /\ "read" \in roles[c] /\ UNCHANGED executor
      /\ UNCHANGED <<approval, vt, calls, results, iter, reply, xpc, call>>
  BY Zenon DEF ChatCompletions, executor
<1>3. Goroutine(c) /\ Validated(c) /\ Rounds(c) /\ Sequential /\ ChatTypes
  BY Zenon, <1>1 DEF ChatInv
<1>4. ExecInv'
  BY Zenon, <1>1, <1>2, ExecutorUnmoved
<1>5. \/ cpc' = [cpc EXCEPT ![c] = "model"] /\ UNCHANGED registry /\ UNCHANGED request
      \/ /\ \E d \in Defs : request' = [request EXCEPT ![c] = d]
         /\ BeginLookup(c, Target)
         /\ cpc' = [cpc EXCEPT ![c] = "validating"]
  BY Zenon DEF ChatCompletions, convertToUsecaseRequest
<1>6. CASE cpc' = [cpc EXCEPT ![c] = "model"] /\ UNCHANGED registry /\ UNCHANGED request
  <2>1. RegInv' /\ StaleOnlyIfRaced'
    BY Zenon, <1>1, <1>6, RegistryUnmoved, StaleUnmoved
  <2>2. UNCHANGED <<audit, roles, pc, task, got>>
    BY Zenon, <1>6 DEF registry
  <2>3. ChatTypes' /\ cpc'[c] = "model" /\ \A d \in Callers \ {c} : cpc'[d] = cpc[d]
    BY Zenon, <1>2, <1>3, <1>6 DEF ChatTypes, CSteps
  <2>4. Goroutine(c)'
    BY Zenon, <1>2, <1>3, <2>2, <2>3 DEF Goroutine, Looking
  <2>5. Validated(c)'
    BY Zenon, <1>2, <1>3, <1>6, <2>2, <2>3 DEF Validated
  <2>6. Rounds(c)'
    BY Zenon, <1>2, <1>3, <2>3 DEF Rounds
  <2>7. ChatInv'
    BY Zenon, <1>1, <1>2, <1>3, <1>6, <2>2, <2>3, <2>4, <2>5, <2>6, ChatLocal DEF Sequential
  <2>. QED  BY Zenon, <1>4, <2>1, <2>7 DEF LoopInv
<1>7. CASE /\ \E d \in Defs : request' = [request EXCEPT ![c] = d]
           /\ BeginLookup(c, Target)
           /\ cpc' = [cpc EXCEPT ![c] = "validating"]
  <2>1. RegInv' /\ StaleOnlyIfRaced'
    BY Zenon, <1>1, <1>7, BeginLookupKeeps, StaleLookup
  <2>2. /\ UNCHANGED <<audit, roles, got>> /\ pc' = [pc EXCEPT ![c] = "lookup"]
        /\ task' = [task EXCEPT ![c] = [kind |-> "read", name |-> Target, arg |-> None]]
    BY Zenon, <1>7 DEF BeginLookup, shared
  <2>3. /\ ChatTypes' /\ cpc'[c] = "validating"
        /\ \A d \in Callers \ {c} : cpc'[d] = cpc[d] /\ request'[d] = request[d]
    BY Zenon, <1>2, <1>3, <1>7 DEF ChatTypes, CSteps
  <2>4. /\ pc'[c] = "lookup" /\ task'[c].kind = "read" /\ task'[c].name = Target
        /\ \A d \in Callers \ {c} : pc'[d] = pc[d] /\ task'[d] = task[d]
    BY Zenon, <1>1, <2>2, LoopConstants DEF RegInv, RegTypes
  <2>5. Goroutine(c)'
    BY Zenon, <1>2, <1>3, <2>2, <2>3, <2>4 DEF Goroutine, Looking
  <2>6. Validated(c)'
    BY Zenon, <1>2, <1>3, <2>3 DEF Validated
  <2>7. Rounds(c)'
    BY Zenon, <1>2, <1>3, <2>3 DEF Rounds
  <2>8. ChatInv'
    BY Zenon, <1>1, <1>2, <1>3, <2>2, <2>3, <2>4, <2>5, <2>6, <2>7, ChatLocal DEF Sequential
  <2>. QED  BY Zenon, <1>4, <2>1, <2>8 DEF LoopInv
<1>. QED  BY Zenon, <1>5, <1>6, <1>7

\* The end of a look-up: what it gave was active and is accounted for.
LEMMA LookedUp ==
  ASSUME LoopInv, NEW c \in Callers, cpc[c] \in Looking, EndLookup(c)
  PROVE  /\ RegInv' /\ StaleOnlyIfRaced'
         /\ UNCHANGED <<audit, roles, task, got>>
         /\ "read" \in roles[c] /\ pc'[c] = "idle"
         /\ \A d \in Callers \ {c} : pc'[d] = pc[d]
         /\ got[c] \in Rows \cup {None}
         /\ got[c] # None => got[c].active /\ Accounted(Target, got[c])
<1>1. RegInv /\ StaleOnlyIfRaced /\ ExecInv /\ ChatInv /\ c \in Procs
  BY Zenon, LoopConstants DEF LoopInv
<1>2. /\ pc[c] = "answered" /\ UNCHANGED <<audit, roles, task, got>>
      /\ pc' = [pc EXCEPT ![c] = "idle"]
  BY Zenon DEF EndLookup, shared, local
<1>3. RegInv' /\ StaleOnlyIfRaced'
  BY Zenon, <1>1, EndLookupKeeps, StaleLookup
<1>4. pc'[c] = "idle" /\ \A d \in Callers \ {c} : pc'[d] = pc[d]
  BY Zenon, <1>1, <1>2, LoopConstants DEF RegInv, RegTypes
<1>5. Goroutine(c) /\ TaskSound(c) /\ got[c] \in Rows \cup {None}
  BY Zenon, <1>1 DEF ChatInv, RegInv, RegTypes
<1>6. "read" \in roles[c] /\ task[c].kind = "read" /\ task[c].name = Target
  BY Zenon, <1>5 DEF Goroutine, Looking
<1>7. got[c] # None => Known(Target, got[c])
  BY Zenon, <1>2, <1>5, <1>6 DEF TaskSound
<1>. QED  BY Zenon, <1>2, <1>3, <1>4, <1>5, <1>6, <1>7 DEF Known

\* Its tool is validated or refused.
LEMMA validateToolsKeeps ==
  ASSUME LoopInv, NEW c \in Callers, validateTools(c)
  PROVE  LoopInv'
<1>1. RegInv /\ StaleOnlyIfRaced /\ ExecInv /\ ChatInv /\ c \in Procs
  BY Zenon, LoopConstants DEF LoopInv
<1>2. /\ cpc[c] = "validating" /\ EndLookup(c) /\ UNCHANGED executor
      /\ UNCHANGED <<approval, request, calls, results, iter, xpc, call>>
  BY Zenon DEF validateTools, executor
<1>3. Goroutine(c) /\ Validated(c) /\ Rounds(c) /\ Sequential /\ ChatTypes
  BY Zenon, <1>1 DEF ChatInv
<1>4. ExecInv'
  BY Zenon, <1>1, <1>2, ExecutorUnmoved
<1>5. /\ RegInv' /\ StaleOnlyIfRaced'
      /\ UNCHANGED <<audit, roles, task, got>>
      /\ "read" \in roles[c] /\ pc'[c] = "idle"
      /\ \A d \in Callers \ {c} : pc'[d] = pc[d]
      /\ got[c] \in Rows \cup {None}
      /\ got[c] # None => got[c].active /\ Accounted(Target, got[c])
  <2>1. cpc[c] \in Looking
    BY Zenon, <1>2 DEF Looking
  <2>. QED  BY Zenon, <1>2, <2>1, LookedUp
<1>6. Accounted(Target, got[c]) => Accounted(Target, got[c])'
  BY Zenon, <1>5 DEF Accounted
<1>7. \/ \E r \in {"not_found", "mismatch"} : Answer(c, r) /\ UNCHANGED vt
      \/ /\ got[c] # None
         /\ ComputeHash(Target, got[c]) = ComputeHash(Target, [got[c] EXCEPT !.def = request[c]])
         /\ vt' = [vt EXCEPT ![c] = got[c]]
         /\ cpc' = [cpc EXCEPT ![c] = "model"]
         /\ UNCHANGED reply
  BY Zenon DEF validateTools
<1>8. CASE \E r \in {"not_found", "mismatch"} : Answer(c, r) /\ UNCHANGED vt
  <2>1. PICK r \in {"not_found", "mismatch"} : Answer(c, r) /\ UNCHANGED vt
    BY Zenon, <1>8
  <2>2. /\ ChatTypes' /\ cpc'[c] = "done" /\ reply'[c] = r
        /\ \A d \in Callers \ {c} : cpc'[d] = cpc[d] /\ reply'[d] = reply[d]
    BY Zenon, <1>2, <1>3, <2>1 DEF ChatTypes, CSteps, Replies, Answer
  <2>3. Goroutine(c)'
    BY Zenon, <1>2, <1>3, <1>5, <2>2 DEF Goroutine, Looking
  <2>4. Validated(c)'
    BY Zenon, <1>2, <1>3, <1>5, <2>1, <2>2 DEF Validated, Accounted
  <2>5. Rounds(c)'
    BY Zenon, <1>2, <1>3, <2>2 DEF Rounds
  <2>6. ChatInv'
    BY Zenon, <1>1, <1>2, <1>3, <1>5, <2>1, <2>2, <2>3, <2>4, <2>5, ChatLocal DEF Sequential
  <2>. QED  BY Zenon, <1>4, <1>5, <2>6 DEF LoopInv
<1>9. CASE /\ got[c] # None
           /\ ComputeHash(Target, got[c]) = ComputeHash(Target, [got[c] EXCEPT !.def = request[c]])
           /\ vt' = [vt EXCEPT ![c] = got[c]]
           /\ cpc' = [cpc EXCEPT ![c] = "model"]
           /\ UNCHANGED reply
  <2>1. got[c].def = request[c]
    <3>1. got[c] \in Rows
      BY Zenon, <1>5, <1>9
    <3>. QED  BY Zenon, <1>9, <3>1 DEF ComputeHash, Rows
  <2>2. /\ ChatTypes' /\ cpc'[c] = "model" /\ vt'[c] = got[c]
        /\ \A d \in Callers \ {c} : cpc'[d] = cpc[d] /\ vt'[d] = vt[d]
    BY Zenon, <1>2, <1>3, <1>5, <1>9 DEF ChatTypes, CSteps
  <2>3. Goroutine(c)'
    BY Zenon, <1>2, <1>3, <1>5, <2>2 DEF Goroutine, Looking
  <2>4. Validated(c)'
    BY Zenon, <1>2, <1>5, <1>6, <1>9, <2>1, <2>2 DEF Validated
  <2>5. Rounds(c)'
    BY Zenon, <1>2, <1>3, <1>9, <2>2 DEF Rounds
  <2>6. ChatInv'
    BY Zenon, <1>1, <1>2, <1>3, <1>5, <1>9, <2>2, <2>3, <2>4, <2>5, ChatLocal DEF Sequential
  <2>. QED  BY Zenon, <1>4, <1>5, <2>6 DEF LoopInv
<1>. QED  BY Zenon, <1>7, <1>8, <1>9

\* A step between two look-ups of a request, inside the loop.
LEMMA LoopStep ==
  ASSUME LoopInv, NEW c \in Callers, UNCHANGED <<approval, roles, audit, task, got, request, vt>>,
         RegInv', StaleOnlyIfRaced', ExecInv', ChatTypes',
         \A d \in Callers \ {c} : /\ cpc'[d] = cpc[d] /\ calls'[d] = calls[d] /\ results'[d] = results[d]
                                  /\ iter'[d] = iter[d] /\ reply'[d] = reply[d] /\ pc'[d] = pc[d]
                                  /\ xpc'[d] = xpc[d] /\ call'[d] = call[d],
         cpc[c] # "new", cpc'[c] \in {"model", "dispatch", "done"},
         "read" \in roles[c], pc'[c] = "idle", xpc'[c] = "out",
         \E S : results'[c] \in Seq(S), \E S : calls'[c] \in Seq(S), Rounds(c)'
  PROVE  LoopInv'
<1>1. ChatInv /\ Goroutine(c) /\ Validated(c)
  BY Zenon DEF LoopInv, ChatInv
<1>2. Goroutine(c)'
  BY Zenon DEF Goroutine, Looking
<1>3. \A n, row : Accounted(n, row)' <=> Accounted(n, row)
  BY Zenon DEF Accounted
<1>4. Validated(c)'
  BY Zenon, <1>1, <1>3 DEF Validated
<1>5. ChatInv'
  BY Zenon, <1>1, <1>2, <1>4, ChatLocal
<1>. QED  BY Zenon, <1>5 DEF LoopInv

\* The calls of a completion are a sequence.
LEMMA CompletionSeq ==
  ASSUME NEW next \in Completions
  PROVE  next \in Seq(Names)
<1>1. PICK k \in 0..MaxCalls : next \in [1..k -> Names]
  BY Zenon DEF Completions
<1>2. k \in Nat
  OBVIOUS
<1>. QED  BY Zenon, <1>1, <1>2, IndexedSeq

\* The model answers.
LEMMA CompleteKeeps ==
  ASSUME LoopInv, NEW c \in Callers, Complete(c)
  PROVE  LoopInv'
<1>1. RegInv /\ StaleOnlyIfRaced /\ ExecInv /\ ChatInv
  BY Zenon DEF LoopInv
<1>2. /\ cpc[c] = "model" /\ UNCHANGED executor /\ UNCHANGED registry /\ UNCHANGED <<approval, request, vt>>
  BY Zenon DEF Complete
<1>3. Goroutine(c) /\ Rounds(c) /\ Sequential /\ ChatTypes
  BY Zenon, <1>1 DEF ChatInv
<1>4. RegInv' /\ StaleOnlyIfRaced' /\ ExecInv'
  BY Zenon, <1>1, <1>2, RegistryUnmoved, StaleUnmoved, ExecutorUnmoved
<1>5. UNCHANGED <<audit, roles, pc, task, got, xpc, call>>
  BY Zenon, <1>2 DEF executor, registry
<1>6. "read" \in roles[c] /\ pc[c] = "idle" /\ xpc[c] = "out"
  BY Zenon, <1>2, <1>3 DEF Goroutine, Looking
<1>7. \/ \E next \in Completions : calls' = [calls EXCEPT ![c] = next] /\ AfterCompletion(c, next)
      \/ Answer(c, "error") /\ UNCHANGED <<calls, iter, results>>
  BY Zenon DEF Complete
<1>8. CASE Answer(c, "error") /\ UNCHANGED <<calls, iter, results>>
  <2>1. /\ ChatTypes' /\ cpc'[c] = "done" /\ reply'[c] = "error"
        /\ \A d \in Callers \ {c} : cpc'[d] = cpc[d] /\ reply'[d] = reply[d]
    BY Zenon, <1>2, <1>3, <1>8 DEF ChatTypes, CSteps, Replies, Answer
  <2>2. Rounds(c)'
    BY Zenon, <1>2, <1>3, <1>8, <2>1 DEF Rounds
  <2>. QED  BY Zenon, <1>2, <1>3, <1>4, <1>5, <1>6, <1>8, <2>1, <2>2, LoopStep DEF Sequential
<1>9. ASSUME NEW next \in Completions, calls' = [calls EXCEPT ![c] = next], AfterCompletion(c, next)
      PROVE  LoopInv'
  <2>1. /\ calls'[c] = next /\ DOMAIN calls' = Callers
        /\ \A d \in Callers \ {c} : calls'[d] = calls[d]
    BY Zenon, <1>3, <1>9 DEF ChatTypes
  <2>2. \E S : calls'[c] \in Seq(S)
    BY Zenon, <1>9, <2>1, CompletionSeq
  <2>3. CASE next = <<>> \/ iter[c] >= MaxIterations
    <3>1. PICK r : /\ r = (IF iter[c] >= MaxIterations THEN "max_iterations" ELSE "stop")
                   /\ Answer(c, r) /\ UNCHANGED <<iter, results>>
      BY Zenon, <1>9, <2>3 DEF AfterCompletion
    <3>2. r \in {"max_iterations", "stop"} /\ (r = "stop" => next = <<>>)
      BY Zenon, <2>3, <3>1
    <3>3. /\ ChatTypes' /\ cpc'[c] = "done" /\ reply'[c] = r
          /\ \A d \in Callers \ {c} : cpc'[d] = cpc[d] /\ reply'[d] = reply[d]
      BY Zenon, <1>2, <1>3, <2>1, <3>1, <3>2 DEF ChatTypes, CSteps, Replies, Answer
    <3>4. Rounds(c)'
      BY Zenon, <2>1, <3>2, <3>3 DEF Rounds
    <3>. QED  BY Zenon, <1>2, <1>3, <1>4, <1>5, <1>6, <2>1, <2>2, <3>1, <3>3, <3>4, LoopStep DEF Sequential
  <2>4. CASE ~(next = <<>> \/ iter[c] >= MaxIterations)
    <3>1. /\ iter' = [iter EXCEPT ![c] = @ + 1] /\ results' = [results EXCEPT ![c] = <<>>]
          /\ cpc' = [cpc EXCEPT ![c] = "dispatch"] /\ UNCHANGED reply
      BY Zenon, <1>9, <2>4 DEF AfterCompletion
    <3>2. /\ ChatTypes' /\ cpc'[c] = "dispatch" /\ results'[c] = <<>>
          /\ \A d \in Callers \ {c} : cpc'[d] = cpc[d] /\ results'[d] = results[d] /\ iter'[d] = iter[d]
      BY <1>2, <1>3, <2>1, <3>1 DEF ChatTypes, CSteps
    <3>3. Rounds(c)'
      <4>1. next \in Seq(Names)
        BY Zenon, CompletionSeq
      <4>. QED  BY <1>2, <1>3, <2>1, <3>1, <3>2, <4>1 DEF Rounds
    <3>4. \E S : results'[c] \in Seq(S)
      <4>1. results'[c] \in Seq({})
        BY <3>2
      <4>. QED  BY Zenon, <4>1
    <3>. QED  BY Zenon, <1>2, <1>3, <1>4, <1>5, <1>6, <2>1, <2>2, <3>1, <3>2, <3>3, <3>4, LoopStep
  <2>. QED  BY Zenon, <2>3, <2>4
<1>. QED  BY Zenon, <1>7, <1>8, <1>9

\* Record appends the result of the next call.
LEMMA RecordNext ==
  ASSUME ChatInv, NEW c \in Callers, NEW r, Record(c, r), UNCHANGED iter,
         cpc[c] \in {"dispatch", "resolving", "executing"}, Len(results[c]) # Len(calls[c])
  PROVE  /\ DOMAIN results' = Callers
         /\ \A d \in Callers \ {c} : results'[d] = results[d]
         /\ \E S : results'[c] \in Seq(S)
         /\ Len(results'[c]) <= Len(calls[c])
         /\ \A i \in DOMAIN results'[c] : results'[c][i].round = iter'[c] /\ results'[c][i].call = i
<1> DEFINE n == Len(results[c]) + 1
           rec == [round |-> iter[c], call |-> n, result |-> r]
<1>1. ChatTypes /\ Rounds(c) /\ Sequential
  BY Zenon DEF ChatInv
<1>2. /\ results'[c] = Append(results[c], rec) /\ DOMAIN results' = Callers
      /\ \A d \in Callers \ {c} : results'[d] = results[d]
  BY Zenon, <1>1 DEF Record, ChatTypes
<1>3. PICK S, T : results[c] \in Seq(S) /\ calls[c] \in Seq(T)
  BY Zenon, <1>1 DEF Sequential
<1>4. Len(results[c]) < Len(calls[c])
  <2>1. Len(results[c]) <= Len(calls[c]) \/ Len(results[c]) < Len(calls[c])
    BY Zenon, <1>1 DEF Rounds
  <2>. QED  BY <1>3, <2>1
<1>5. \A i \in DOMAIN results[c] : results[c][i].round = iter[c] /\ results[c][i].call = i
  BY Zenon, <1>1 DEF Rounds
<1>6. rec.round = iter[c] /\ rec.call = n
  BY Zenon
<1>. HIDE DEF rec
<1>7. results[c] \in Seq(S \cup {rec})
  BY <1>3
<1>8. /\ Append(results[c], rec) \in Seq(S \cup {rec})
      /\ Len(Append(results[c], rec)) = n
      /\ DOMAIN Append(results[c], rec) = 1..n
      /\ Append(results[c], rec)[n] = rec
      /\ \A i \in DOMAIN results[c] : Append(results[c], rec)[i] = results[c][i]
      /\ DOMAIN results[c] = 1..(n - 1) /\ n \in Nat
  BY <1>7
<1>9. \A i \in 1..n : i = n \/ i \in 1..(n - 1)
  BY <1>8
<1>10. ASSUME NEW i \in DOMAIN results'[c]
       PROVE  results'[c][i].round = iter'[c] /\ results'[c][i].call = i
  <2>1. i = n \/ i \in DOMAIN results[c]
    BY Zenon, <1>2, <1>8, <1>9
  <2>. QED  BY Zenon, <1>2, <1>5, <1>6, <1>8, <2>1
<1>11. Len(results'[c]) <= Len(calls[c])
  BY <1>2, <1>3, <1>4, <1>8
<1>. QED  BY Zenon, <1>2, <1>8, <1>10, <1>11

\* A call that is answered: the loop goes on with the next.
LEMMA RecordKeeps ==
  ASSUME LoopInv, NEW c \in Callers, NEW r, Record(c, r),
         UNCHANGED <<approval, roles, audit, task, got, request, vt, calls, iter, reply, call>>,
         RegInv', StaleOnlyIfRaced', ExecInv',
         cpc[c] \in {"dispatch", "resolving", "executing"}, Len(results[c]) # Len(calls[c]),
         cpc' = [cpc EXCEPT ![c] = "dispatch"],
         \A d \in Callers \ {c} : pc'[d] = pc[d] /\ xpc'[d] = xpc[d],
         "read" \in roles[c], pc'[c] = "idle", xpc'[c] = "out"
  PROVE  LoopInv'
<1>1. ChatInv /\ ChatTypes /\ Rounds(c) /\ Sequential
  BY Zenon DEF LoopInv, ChatInv
<1>2. /\ DOMAIN results' = Callers
      /\ \A d \in Callers \ {c} : results'[d] = results[d]
      /\ \E S : results'[c] \in Seq(S)
      /\ Len(results'[c]) <= Len(calls[c])
      /\ \A i \in DOMAIN results'[c] : results'[c][i].round = iter'[c] /\ results'[c][i].call = i
  BY Zenon, <1>1, RecordNext
<1>3. ChatTypes' /\ cpc'[c] = "dispatch" /\ \A d \in Callers \ {c} : cpc'[d] = cpc[d]
  BY Zenon, <1>1, <1>2 DEF ChatTypes, CSteps
<1>4. reply'[c] = "none"
  BY Zenon, <1>1 DEF Rounds
<1>5. Rounds(c)'
  BY Zenon, <1>2, <1>3, <1>4 DEF Rounds
<1>6. \E S : calls'[c] \in Seq(S)
  BY Zenon, <1>1 DEF Sequential
<1>7. cpc[c] # "new"
  BY Zenon
<1>. QED  BY Zenon, <1>2, <1>3, <1>5, <1>6, <1>7, LoopStep

\* The next call of the round.
LEMMA DispatchKeeps ==
  ASSUME LoopInv, NEW c \in Callers, Dispatch(c)
  PROVE  LoopInv'
<1>1. RegInv /\ StaleOnlyIfRaced /\ ExecInv /\ ChatInv /\ c \in Procs
  BY Zenon, LoopConstants DEF LoopInv
<1>2. /\ cpc[c] = "dispatch" /\ UNCHANGED executor
      /\ UNCHANGED <<approval, request, vt, calls, iter, reply, xpc, call>>
  BY Zenon DEF Dispatch, executor
<1>3. Goroutine(c) /\ Validated(c) /\ Rounds(c) /\ Sequential /\ ChatTypes
  BY Zenon, <1>1 DEF ChatInv
<1>4. ExecInv'
  BY Zenon, <1>1, <1>2, ExecutorUnmoved
<1>5. "read" \in roles[c] /\ pc[c] = "idle" /\ xpc[c] = "out"
  BY Zenon, <1>2, <1>3 DEF Goroutine, Looking
<1>6. CASE Len(results[c]) = Len(calls[c])
  <2>1. cpc' = [cpc EXCEPT ![c] = "model"] /\ UNCHANGED registry /\ UNCHANGED results
    BY Zenon, <1>6 DEF Dispatch, feedToolResultsAndRecall
  <2>2. RegInv' /\ StaleOnlyIfRaced' /\ UNCHANGED <<audit, roles, pc, task, got>>
    BY Zenon, <1>1, <2>1, RegistryUnmoved, StaleUnmoved DEF registry
  <2>3. ChatTypes' /\ cpc'[c] = "model" /\ \A d \in Callers \ {c} : cpc'[d] = cpc[d]
    BY Zenon, <1>2, <1>3, <2>1 DEF ChatTypes, CSteps
  <2>4. Rounds(c)'
    BY Zenon, <1>2, <1>3, <1>6, <2>1, <2>3 DEF Rounds
  <2>5. cpc[c] # "new" /\ cpc'[c] \in {"model", "dispatch", "done"}
    BY Zenon, <1>2, <2>3
  <2>. QED  BY Zenon, <1>2, <1>3, <1>4, <1>5, <2>1, <2>2, <2>3, <2>4, <2>5, LoopStep DEF Sequential
<1>7. CASE Len(results[c]) # Len(calls[c]) /\ (vt[c] = None \/ NextCall(c) # Target)
  <2>1. Record(c, "not_found") /\ UNCHANGED registry /\ UNCHANGED cpc
    BY Zenon, <1>7 DEF Dispatch
  <2>2. RegInv' /\ StaleOnlyIfRaced' /\ UNCHANGED <<audit, roles, pc, task, got>>
    BY Zenon, <1>1, <2>1, RegistryUnmoved, StaleUnmoved DEF registry
  <2>3. cpc' = [cpc EXCEPT ![c] = "dispatch"]
    BY Zenon, <1>2, <1>3, <2>1 DEF ChatTypes
  <2>. QED  BY Zenon, <1>2, <1>4, <1>5, <1>7, <2>1, <2>2, <2>3, RecordKeeps
<1>8. CASE Len(results[c]) # Len(calls[c]) /\ ~(vt[c] = None \/ NextCall(c) # Target)
  <2>1. BeginLookup(c, Target) /\ cpc' = [cpc EXCEPT ![c] = "resolving"] /\ UNCHANGED results
    BY Zenon, <1>8 DEF Dispatch
  <2>2. RegInv' /\ StaleOnlyIfRaced'
    BY Zenon, <1>1, <2>1, BeginLookupKeeps, StaleLookup
  <2>3. /\ UNCHANGED <<audit, roles, got>> /\ pc' = [pc EXCEPT ![c] = "lookup"]
        /\ task' = [task EXCEPT ![c] = [kind |-> "read", name |-> Target, arg |-> None]]
    BY Zenon, <2>1 DEF BeginLookup, shared
  <2>4. ChatTypes' /\ cpc'[c] = "resolving" /\ \A d \in Callers \ {c} : cpc'[d] = cpc[d]
    BY Zenon, <1>2, <1>3, <2>1 DEF ChatTypes, CSteps
  <2>5. /\ pc'[c] = "lookup" /\ task'[c].kind = "read" /\ task'[c].name = Target
        /\ \A d \in Callers \ {c} : pc'[d] = pc[d] /\ task'[d] = task[d]
    BY Zenon, <1>1, <2>3, LoopConstants DEF RegInv, RegTypes
  <2>6. Goroutine(c)'
    BY Zenon, <1>2, <1>3, <1>5, <2>3, <2>4, <2>5 DEF Goroutine, Looking
  <2>7. Validated(c)'
    BY Zenon, <1>2, <1>3, <1>8, <2>3, <2>4 DEF Validated, Accounted
  <2>8. Rounds(c)'
    <3>1. PICK S, T : results[c] \in Seq(S) /\ calls[c] \in Seq(T)
      BY Zenon, <1>3 DEF Sequential
    <3>2. Len(results[c]) < Len(calls[c])
      BY <1>2, <1>3, <1>8, <3>1 DEF Rounds
    <3>. QED  BY Zenon, <1>2, <1>3, <2>1, <2>4, <3>2 DEF Rounds
  <2>9. ChatInv'
    BY Zenon, <1>1, <1>2, <1>3, <2>1, <2>3, <2>4, <2>5, <2>6, <2>7, <2>8, ChatLocal DEF Sequential
  <2>. QED  BY Zenon, <1>4, <2>2, <2>9 DEF LoopInv
<1>. QED  BY Zenon, <1>6, <1>7, <1>8

\* A call is refused or begins to execute.
LEMMA ResolveKeeps ==
  ASSUME LoopInv, NEW c \in Callers, Resolve(c)
  PROVE  LoopInv'
<1>1. RegInv /\ StaleOnlyIfRaced /\ ExecInv /\ ChatInv
  BY Zenon DEF LoopInv
<1>2. /\ cpc[c] = "resolving" /\ EndLookup(c) /\ UNCHANGED <<approval, request, vt, calls, iter, reply>>
  BY Zenon DEF Resolve
<1>3. Goroutine(c) /\ Validated(c) /\ Rounds(c) /\ Sequential /\ ChatTypes
  BY Zenon, <1>1 DEF ChatInv
<1>4. /\ RegInv' /\ StaleOnlyIfRaced'
      /\ UNCHANGED <<audit, roles, task, got>>
      /\ "read" \in roles[c] /\ pc'[c] = "idle"
      /\ \A d \in Callers \ {c} : pc'[d] = pc[d]
      /\ got[c] \in Rows \cup {None}
      /\ got[c] # None => got[c].active /\ Accounted(Target, got[c])
  <2>1. cpc[c] \in Looking
    BY Zenon, <1>2 DEF Looking
  <2>. QED  BY Zenon, <1>2, <2>1, LookedUp
<1>5. PICK S, T : results[c] \in Seq(S) /\ calls[c] \in Seq(T)
  BY Zenon, <1>3 DEF Sequential
<1>6. Len(results[c]) < Len(calls[c]) /\ Len(results[c]) # Len(calls[c]) /\ xpc[c] = "out" /\ vt[c] # None
  BY <1>2, <1>3, <1>5 DEF Rounds, Goroutine, Validated
<1>7. CASE Refusal(c) # "none"
  <2>1. Record(c, Refusal(c)) /\ cpc' = [cpc EXCEPT ![c] = "dispatch"] /\ UNCHANGED executor
    BY Zenon, <1>7 DEF Resolve
  <2>2. ExecInv' /\ UNCHANGED <<xpc, call>>
    BY Zenon, <1>1, <2>1, ExecutorUnmoved DEF executor
  <2>. QED  BY Zenon, <1>2, <1>4, <1>6, <2>1, <2>2, RecordKeeps
<1>8. CASE Refusal(c) = "none"
  <2>1. /\ BeginExecute(c, Target, vt[c].lim) /\ cpc' = [cpc EXCEPT ![c] = "executing"]
        /\ UNCHANGED results
    BY Zenon, <1>8 DEF Resolve
  <2>2. vt[c] \in Rows /\ vt[c].def = request[c] /\ Accounted(Target, vt[c])
    BY Zenon, <1>3, <1>6 DEF ChatTypes, Validated
  <2>3. ExecInv'
    <3>1. vt[c].lim.timeout \in Nat /\ vt[c].lim.pages \in Nat
      BY Zenon, <2>2, RegistryConstants DEF Rows
    <3>. QED  BY Zenon, <1>1, <2>1, <3>1, BeginKeeps
  <2>4. /\ got[c] # None /\ got[c].active /\ ComputeHash(Target, got[c]) = ComputeHash(Target, vt[c])
        /\ Target \notin approval
    BY Zenon, <1>8 DEF Refusal
  <2>5. got[c].def = request[c]
    BY Zenon, <2>2, <2>4 DEF ComputeHash
  <2>6. /\ call' = [call EXCEPT ![c] = [tool |-> Target, lim |-> vt[c].lim]]
        /\ xpc' = [xpc EXCEPT ![c] = "limits"]
    BY Zenon, <2>1 DEF BeginExecute
  <2>7. /\ call'[c] = [tool |-> Target, lim |-> vt[c].lim] /\ xpc'[c] = "limits"
        /\ \A d \in Callers \ {c} : call'[d] = call[d] /\ xpc'[d] = xpc[d]
    BY Zenon, <1>1, <2>6 DEF ExecInv, ExecTypes
  <2>8. ChatTypes' /\ cpc'[c] = "executing" /\ \A d \in Callers \ {c} : cpc'[d] = cpc[d]
    BY Zenon, <1>2, <1>3, <2>1 DEF ChatTypes, CSteps
  <2>9. Goroutine(c)'
    BY Zenon, <1>4, <2>7, <2>8 DEF Goroutine, Looking
  <2>10. Accounted(Target, vt[c])'
    BY Zenon, <1>2, <1>4, <2>2 DEF Accounted
  <2>11. Validated(c)'
    BY Zenon, <1>2, <1>4, <1>6, <2>2, <2>4, <2>5, <2>7, <2>8, <2>10 DEF Validated
  <2>12. Rounds(c)'
    BY Zenon, <1>2, <1>3, <1>6, <2>1, <2>8 DEF Rounds
  <2>13. ChatInv'
    BY Zenon, <1>1, <1>2, <1>3, <1>4, <2>1, <2>7, <2>8, <2>9, <2>11, <2>12, ChatLocal DEF Sequential
  <2>. QED  BY Zenon, <1>4, <2>3, <2>13 DEF LoopInv
<1>. QED  BY Zenon, <1>7, <1>8

\* A call has been executed.
LEMMA ExecutedKeeps ==
  ASSUME LoopInv, NEW c \in Callers, Executed(c)
  PROVE  LoopInv'
<1>1. RegInv /\ StaleOnlyIfRaced /\ ExecInv /\ ChatInv
  BY Zenon DEF LoopInv
<1>2. /\ cpc[c] = "executing" /\ EndExecute(c) /\ Record(c, result[c]) /\ UNCHANGED registry
      /\ cpc' = [cpc EXCEPT ![c] = "dispatch"] /\ UNCHANGED <<approval, request, vt, calls, iter, reply>>
  BY Zenon DEF Executed
<1>3. Goroutine(c) /\ Rounds(c) /\ Sequential
  BY Zenon, <1>1 DEF ChatInv
<1>4. RegInv' /\ StaleOnlyIfRaced' /\ ExecInv' /\ UNCHANGED <<audit, roles, pc, task, got>>
  BY Zenon, <1>1, <1>2, RegistryUnmoved, StaleUnmoved, EndExecuteKeeps DEF registry
<1>5. call' = call /\ xpc'[c] = "out" /\ \A d \in Callers \ {c} : xpc'[d] = xpc[d]
  BY Zenon, <1>1, <1>2 DEF EndExecute, ExecInv, ExecTypes
<1>6. "read" \in roles[c] /\ pc[c] = "idle"
  BY Zenon, <1>2, <1>3 DEF Goroutine, Looking
<1>7. PICK S, T : results[c] \in Seq(S) /\ calls[c] \in Seq(T)
  BY Zenon, <1>3 DEF Sequential
<1>8. Len(results[c]) # Len(calls[c])
  BY <1>2, <1>3, <1>7 DEF Rounds
<1>. QED  BY Zenon, <1>2, <1>4, <1>5, <1>6, <1>8, RecordKeeps

-----------------------------------------------------------------------------
\* At first no request is under way.
LEMMA LoopInvInit == Init => LoopInv
<1>. SUFFICES ASSUME Init PROVE LoopInv
  BY Zenon
<1>1. RegInv /\ StaleOnlyIfRaced /\ ExecInv
  BY Zenon, RegInvInit, StaleInit, ExecInvInit DEF Init
<1>2. ChatTypes
  BY Zenon DEF Init, ChatTypes, CSteps, Replies
<1>3. Sequential
  <2>1. <<>> \in Seq({})
    OBVIOUS
  <2>2. \A c \in Callers : results[c] = <<>> /\ calls[c] = <<>>
    BY Zenon DEF Init
  <2>. QED  BY Zenon, <2>1, <2>2 DEF Sequential
<1>4. ASSUME NEW c \in Callers PROVE Goroutine(c) /\ Validated(c) /\ Rounds(c)
  <2>1. c \in Procs /\ pc[c] = "idle" /\ xpc[c] = "out"
    BY Zenon, LoopConstants DEF Init, RegistryInit, ExecutorInit
  <2>2. cpc[c] = "new" /\ vt[c] = None /\ results[c] = <<>> /\ calls[c] = <<>> /\ reply[c] = "none"
    BY Zenon DEF Init
  <2>3. DOMAIN results[c] = {}
    BY <2>2
  <2>. QED  BY Zenon, <2>1, <2>2, <2>3 DEF Goroutine, Validated, Rounds, Looking
<1>. QED  BY Zenon, <1>1, <1>2, <1>3, <1>4 DEF LoopInv, ChatInv

\* Every step keeps it.
LEMMA LoopNextKeeps == LoopInv /\ [Next]_vars => LoopInv'
<1>. SUFFICES ASSUME LoopInv, [Next]_vars PROVE LoopInv'
  BY Zenon
<1>1. CASE UNCHANGED vars \/ Finished
  BY Zenon, <1>1, LoopUnmoved DEF Finished
<1>2. ASSUME NEW p \in Procs, Administer(p) \/ Work(p) PROVE LoopInv'
  BY Zenon, <1>2, WorkKeeps
<1>3. ASSUME NEW c \in Callers, ChatStep(c) \/ Execute(c) PROVE LoopInv'
  BY Zenon, <1>3, ChatCompletionsKeeps, validateToolsKeeps, CompleteKeeps, DispatchKeeps, ResolveKeeps,
     ExecutedKeeps, ExecuteKeeps DEF ChatStep
<1>. QED  BY Zenon, <1>1, <1>2, <1>3, ExpireEntryKeeps DEF Next

\* Both steps together.
LEMMA LoopInvHolds == Spec => []LoopInv
  BY LoopInvInit, LoopNextKeeps, PTL DEF Spec

\* Whatever the gateway executes is the definition the client sent, still active in
\* the look-up made for this execution, exempt from approval, and under limits an
\* event of the audit log gave it (validateTools and executeToolLoop), however
\* many requests and administrators run.
THEOREM LoopAccountable == Spec => []ExecutionsAccountable
<1>1. LoopInv => ExecutionsAccountable
  <2>. SUFFICES ASSUME LoopInv, NEW c \in Callers, xpc[c] = "run"
       PROVE  /\ vt[c] # None
              /\ vt[c].def = request[c]
              /\ got[c] # None /\ got[c].active /\ got[c].def = request[c]
              /\ call[c] = [tool |-> Target, lim |-> vt[c].lim]
              /\ Target \notin approval
              /\ \E i \in DOMAIN audit : Accounts(audit[i], Target, vt[c])
    BY Zenon DEF ExecutionsAccountable
  <2>1. Goroutine(c) /\ Validated(c)
    BY Zenon DEF LoopInv, ChatInv
  <2>2. cpc[c] = "executing"
    BY Zenon, <2>1 DEF Goroutine
  <2>. QED  BY Zenon, <2>1, <2>2 DEF Validated, Accounted
<1>. QED  BY <1>1, LoopInvHolds, PTL

\* The model is called again only with one result of this round for each of its tool
\* calls, in their order; an answer that leaves tool calls unanswered says so.
THEOREM LoopAnswers == Spec => []CallsAnswered
<1>1. LoopInv => CallsAnswered
  <2>. SUFFICES ASSUME LoopInv, NEW c \in Callers
       PROVE  /\ cpc[c] = "model" =>
                   /\ Len(results[c]) = Len(calls[c])
                   /\ \A i \in DOMAIN results[c] : results[c][i].round = iter[c] /\ results[c][i].call = i
              /\ reply[c] = "stop" => calls[c] = <<>>
    BY Zenon DEF CallsAnswered
  <2>1. Rounds(c)
    BY Zenon DEF LoopInv, ChatInv
  <2>. QED  BY Zenon, <2>1 DEF Rounds
<1>. QED  BY <1>1, LoopInvHolds, PTL

\* Under the calls of the chat loop too, every runtime is in its channel or held by one
\* execution, and each runs within the limits of its tool.
THEOREM LoopExecutor == Spec => [](RuntimesConserved /\ RunsWithinLimits)
<1>1. LoopInv => RuntimesConserved /\ RunsWithinLimits
  BY Zenon, ConservedByInv, LimitsByInv DEF LoopInv
<1>. QED  BY <1>1, LoopInvHolds, PTL

\* Beside the look-ups of chat requests too, the log names the definition in force, and
\* the cache is stale only after a race or before its invalidation.
THEOREM LoopRegistry == Spec => [](AuditNamesActiveRow /\ StaleOnlyIfRaced)
<1>1. LoopInv => AuditNamesActiveRow /\ StaleOnlyIfRaced
  BY Zenon DEF LoopInv, RegInv
<1>. QED  BY <1>1, LoopInvHolds, PTL
-----------------------------------------------------------------------------
(* Chats advance *)

\* Before the loop, in it and after it.
Phase ==
  [new |-> 1, validating |-> 2, model |-> 3, dispatch |-> 3, resolving |-> 3, executing |-> 3,
   done |-> 4]

\* One tool call of a round, and the model's turn after the last one.
Turn == [new |-> 0, validating |-> 0, dispatch |-> 1, resolving |-> 2, executing |-> 3, model |-> 4,
         done |-> 5]

\* The steps of Execute.
XTurn ==
  [out |-> 0, limits |-> 1, acquire |-> 2, check |-> 3, compile |-> 4, instantiate |-> 5, run |-> 6,
   close |-> 7, release |-> 8, returned |-> 9]

\* A round is begun while MaxIterations allows one.
NextRound(c) ==
  /\ Phase[cpc[c]] = 3 /\ Phase[cpc'[c]] = 3
  /\ iter[c] < MaxIterations /\ iter'[c] = iter[c] + 1

\* Inside a round, one more call of the completion has its result.
NextResult(c) ==
  /\ Phase[cpc[c]] = 3 /\ Phase[cpc'[c]] = 3
  /\ iter'[c] = iter[c] /\ calls'[c] = calls[c]
  /\ Len(results'[c]) = Len(results[c]) + 1 /\ Len(results'[c]) <= Len(calls[c])

\* The same round, calls and results.
SameRound(c) ==
  /\ iter'[c] = iter[c] /\ calls'[c] = calls[c] /\ results'[c] = results[c]

\* The request comes closer to its answer: to a later phase, to the next round, to the
\* next result of a round, to the next step of a call, or to the next step of Execute.
Advances(c) ==
  \/ Phase[cpc[c]] < Phase[cpc'[c]]
  \/ NextRound(c)
  \/ NextResult(c)
  \/ SameRound(c) /\ Phase[cpc[c]] = 3 /\ Phase[cpc'[c]] = 3 /\ Turn[cpc[c]] < Turn[cpc'[c]]
  \/ SameRound(c) /\ cpc[c] = "executing" /\ cpc'[c] = cpc[c] /\ XTurn[xpc[c]] < XTurn[xpc'[c]]

\* Nothing of the request changes.
Stays(c) == SameRound(c) /\ cpc'[c] = cpc[c] /\ xpc'[c] = xpc[c]

\* Whatever administrators, entries that expire and other requests do: a chat stays as it
\* is or advances.
ChatsAdvance == [][\A c \in Callers : Stays(c) \/ Advances(c)]_vars

\* The values of the three orders.
LEMMA TurnsInOrder ==
  /\ Phase["new"] < Phase["validating"] /\ Phase["new"] < Phase["model"]
  /\ Phase["validating"] < Phase["model"] /\ Phase["validating"] < Phase["done"]
  /\ Phase["model"] < Phase["done"]
  /\ \A s \in {"model", "dispatch", "resolving", "executing"} : Phase[s] = 3
  /\ Turn["dispatch"] < Turn["resolving"] /\ Turn["resolving"] < Turn["executing"]
  /\ Turn["dispatch"] < Turn["model"]
BY DEF Phase, Turn

\* Execute goes forward only.
LEMMA ExecutorAdvances ==
  ASSUME ExecInv, NEW c \in Callers, ExecutorStep(c)
  PROVE  XTurn[xpc[c]] < XTurn[xpc'[c]]
<1>1. DOMAIN xpc = Callers
  BY Zenon DEF ExecInv, ExecTypes
<1>2. \/ xpc[c] = "limits" /\ xpc'[c] \in {"acquire", "returned"}
      \/ xpc[c] = "acquire" /\ xpc'[c] \in {"check", "returned"}
      \/ xpc[c] = "check" /\ xpc'[c] \in {"compile", "instantiate"}
      \/ xpc[c] = "compile" /\ xpc'[c] \in {"instantiate", "release"}
      \/ xpc[c] = "instantiate" /\ xpc'[c] \in {"run", "release"}
      \/ xpc[c] = "run" /\ xpc'[c] = "close"
      \/ xpc[c] = "close" /\ xpc'[c] = "release"
      \/ xpc[c] = "release" /\ xpc'[c] = "returned"
  <2>1. CASE ResolveLimits(c) \/ acquireRuntime(c) \/ GiveUp(c)
    BY Zenon, <1>1, <2>1 DEF ResolveLimits, acquireRuntime, GiveUp, Return
  <2>2. CASE CheckCompiled(c) \/ Compile(c)
    BY Zenon, <1>1, <2>2 DEF CheckCompiled, Compile, Unwind
  <2>3. CASE Instantiate(c) \/ Run(c)
    BY Zenon, <1>1, <2>3 DEF Instantiate, Run, Unwind
  <2>4. CASE CloseInstance(c) \/ releaseRuntime(c)
    BY Zenon, <1>1, <2>4 DEF CloseInstance, releaseRuntime
  <2>. QED  BY Zenon, <2>1, <2>2, <2>3, <2>4 DEF ExecutorStep
<1>. QED  BY <1>2 DEF XTurn

\* A recorded result is one more, and of a call of the completion.
LEMMA RecordAdvances ==
  ASSUME ChatInv, NEW c \in Callers, NEW r, Record(c, r), UNCHANGED <<iter, calls>>,
         cpc[c] \in {"dispatch", "resolving", "executing"}, Len(results[c]) # Len(calls[c]),
         cpc'[c] = "dispatch"
  PROVE  NextResult(c)
<1>1. ChatTypes /\ Sequential
  BY Zenon DEF ChatInv
<1>2. Len(results'[c]) <= Len(calls[c])
  BY Zenon, RecordNext
<1>3. PICK S : results[c] \in Seq(S)
  BY Zenon, <1>1 DEF Sequential
<1>4. PICK rec : results'[c] = Append(results[c], rec)
  BY Zenon, <1>1 DEF Record, ChatTypes
<1>5. Len(results'[c]) = Len(results[c]) + 1
  <2>1. results[c] \in Seq(S \cup {rec})
    BY <1>3
  <2>. QED  BY <1>4, <2>1
<1>6. Phase[cpc[c]] = 3 /\ Phase[cpc'[c]] = 3
  BY Zenon, TurnsInOrder
<1>. QED  BY Zenon, <1>2, <1>5, <1>6 DEF NextResult

\* Each step of a chat brings it further.
LEMMA ChatAdvances ==
  ASSUME LoopInv, NEW c \in Callers, ChatStep(c)
  PROVE  Advances(c)
<1>1. ChatInv /\ ChatTypes /\ Sequential /\ Rounds(c)
  BY Zenon DEF LoopInv, ChatInv
<1>2. CASE ChatCompletions(c)
  <2>1. cpc[c] = "new" /\ cpc'[c] \in {"model", "validating"}
    BY Zenon, <1>1, <1>2 DEF ChatCompletions, convertToUsecaseRequest, ChatTypes
  <2>. QED  BY Zenon, <2>1, TurnsInOrder DEF Advances
<1>3. CASE validateTools(c)
  <2>1. cpc[c] = "validating" /\ cpc'[c] \in {"model", "done"}
    BY Zenon, <1>1, <1>3 DEF validateTools, Answer, ChatTypes
  <2>. QED  BY Zenon, <2>1, TurnsInOrder DEF Advances
<1>4. CASE Complete(c)
  <2>1. \/ cpc'[c] = "done"
        \/ cpc'[c] = "dispatch" /\ ~(iter[c] >= MaxIterations) /\ iter'[c] = iter[c] + 1
    <3>1. \/ cpc' = [cpc EXCEPT ![c] = "done"]
          \/ /\ cpc' = [cpc EXCEPT ![c] = "dispatch"] /\ ~(iter[c] >= MaxIterations)
             /\ iter' = [iter EXCEPT ![c] = @ + 1]
      BY Zenon, <1>4 DEF Complete, AfterCompletion, Answer
    <3>. QED  BY Zenon, <1>1, <3>1 DEF ChatTypes
  <2>2. cpc[c] = "model"
    BY Zenon, <1>4 DEF Complete
  <2>3. CASE cpc'[c] = "done"
    BY Zenon, <2>2, <2>3, TurnsInOrder DEF Advances
  <2>4. CASE cpc'[c] = "dispatch" /\ ~(iter[c] >= MaxIterations) /\ iter'[c] = iter[c] + 1
    <3>1. iter[c] < MaxIterations
      BY <1>1, <2>4, LoopConstants DEF ChatTypes
    <3>2. NextRound(c)
      BY Zenon, <2>2, <2>4, <3>1, TurnsInOrder DEF NextRound
    <3>. QED  BY Zenon, <3>2 DEF Advances
  <2>. QED  BY Zenon, <2>1, <2>3, <2>4
<1>5. CASE Dispatch(c)
  <2>1. cpc[c] = "dispatch" /\ UNCHANGED <<iter, calls>>
    BY Zenon, <1>5 DEF Dispatch
  <2>2. CASE UNCHANGED results /\ (\E s \in {"model", "resolving"} : cpc' = [cpc EXCEPT ![c] = s])
    <3>1. cpc'[c] \in {"model", "resolving"}
      BY Zenon, <1>1, <2>2 DEF ChatTypes
    <3>2. Turn[cpc[c]] < Turn[cpc'[c]] /\ Phase[cpc[c]] = 3 /\ Phase[cpc'[c]] = 3
      BY Zenon, <2>1, <3>1, TurnsInOrder
    <3>3. SameRound(c)
      BY Zenon, <2>1, <2>2 DEF SameRound
    <3>. QED  BY Zenon, <3>2, <3>3 DEF Advances
  <2>3. CASE Len(results[c]) # Len(calls[c]) /\ Record(c, "not_found") /\ UNCHANGED cpc
    <3>1. NextResult(c)
      BY Zenon, <1>1, <2>1, <2>3, RecordAdvances
    <3>. QED  BY Zenon, <3>1 DEF Advances
  <2>. QED  BY Zenon, <1>5, <2>2, <2>3 DEF Dispatch, feedToolResultsAndRecall
<1>6. CASE Resolve(c)
  <2>1. cpc[c] = "resolving" /\ UNCHANGED <<iter, calls>>
    BY Zenon, <1>6 DEF Resolve
  <2>2. CASE UNCHANGED results /\ cpc' = [cpc EXCEPT ![c] = "executing"]
    <3>1. cpc'[c] = "executing"
      BY Zenon, <1>1, <2>2 DEF ChatTypes
    <3>2. Turn[cpc[c]] < Turn[cpc'[c]] /\ Phase[cpc[c]] = 3 /\ Phase[cpc'[c]] = 3
      BY Zenon, <2>1, <3>1, TurnsInOrder
    <3>3. SameRound(c)
      BY Zenon, <2>1, <2>2 DEF SameRound
    <3>. QED  BY Zenon, <3>2, <3>3 DEF Advances
  <2>3. CASE Record(c, Refusal(c)) /\ cpc' = [cpc EXCEPT ![c] = "dispatch"]
    <3>1. PICK S, T : results[c] \in Seq(S) /\ calls[c] \in Seq(T)
      BY Zenon, <1>1 DEF Sequential
    <3>2. Len(results[c]) # Len(calls[c])
      BY <1>1, <2>1, <3>1 DEF Rounds
    <3>3. cpc'[c] = "dispatch"
      BY Zenon, <1>1, <2>3 DEF ChatTypes
    <3>4. PICK r : r = Refusal(c)
      BY Zenon
    <3>5. Record(c, r)
      BY Zenon, <2>3, <3>4
    <3>6. NextResult(c)
      BY Zenon, <1>1, <2>1, <3>2, <3>3, <3>5, RecordAdvances
    <3>. QED  BY Zenon, <3>6 DEF Advances
  <2>. QED  BY Zenon, <1>6, <2>2, <2>3 DEF Resolve
<1>7. CASE Executed(c)
  <2>1. /\ cpc[c] = "executing" /\ UNCHANGED <<iter, calls>>
        /\ Record(c, result[c]) /\ cpc' = [cpc EXCEPT ![c] = "dispatch"]
    BY Zenon, <1>7 DEF Executed
  <2>2. PICK S, T : results[c] \in Seq(S) /\ calls[c] \in Seq(T)
    BY Zenon, <1>1 DEF Sequential
  <2>3. Len(results[c]) # Len(calls[c])
    BY <1>1, <2>1, <2>2 DEF Rounds
  <2>4. cpc'[c] = "dispatch"
    BY Zenon, <1>1, <2>1 DEF ChatTypes
  <2>5. NextResult(c)
    BY Zenon, <1>1, <2>1, <2>3, <2>4, RecordAdvances
  <2>. QED  BY Zenon, <2>5 DEF Advances
<1>. QED  BY Zenon, <1>2, <1>3, <1>4, <1>5, <1>6, <1>7 DEF ChatStep

\* A step of one chat leaves the others where they are.
LEMMA OthersStay ==
  ASSUME LoopInv, NEW c \in Callers, ChatStep(c), NEW d \in Callers \ {c}
  PROVE  Stays(d)
<1>1. ChatTypes /\ DOMAIN xpc = Callers
  BY Zenon DEF LoopInv, ChatInv, ExecInv, ExecTypes
<1>2. /\ xpc' = xpc \/ \E s : xpc' = [xpc EXCEPT ![c] = s]
      /\ cpc' = cpc \/ \E s : cpc' = [cpc EXCEPT ![c] = s]
      /\ calls' = calls \/ \E s : calls' = [calls EXCEPT ![c] = s]
      /\ results' = results \/ \E s : results' = [results EXCEPT ![c] = s]
      /\ iter' = iter \/ \E s : iter' = [iter EXCEPT ![c] = s]
  <2>1. CASE ChatCompletions(c) \/ validateTools(c)
    BY Zenon, <2>1 DEF ChatCompletions, convertToUsecaseRequest, validateTools, Answer, executor
  <2>2. CASE Complete(c)
    BY Zenon, <2>2 DEF Complete, AfterCompletion, Answer, executor
  <2>3. CASE Dispatch(c)
    BY Zenon, <2>3 DEF Dispatch, feedToolResultsAndRecall, Record, executor
  <2>4. CASE Resolve(c)
    BY Zenon, <2>4 DEF Resolve, Record, BeginExecute, executor
  <2>5. CASE Executed(c)
    BY Zenon, <2>5 DEF Executed, Record, EndExecute
  <2>. QED  BY Zenon, <2>1, <2>2, <2>3, <2>4, <2>5 DEF ChatStep
<1>3. xpc'[d] = xpc[d] /\ cpc'[d] = cpc[d] /\ iter'[d] = iter[d]
  BY Zenon, <1>1, <1>2 DEF ChatTypes
<1>4. calls'[d] = calls[d] /\ results'[d] = results[d]
  BY Zenon, <1>1, <1>2 DEF ChatTypes
<1>. QED  BY Zenon, <1>3, <1>4 DEF Stays, SameRound

\* A step of the system moves no chat back.
LEMMA ChatsAdvanceStep ==
  ASSUME LoopInv, [Next]_vars, NEW d \in Callers
  PROVE  Stays(d) \/ Advances(d)
<1>1. ASSUME UNCHANGED <<executor, chat>> PROVE Stays(d)
  BY Zenon, <1>1 DEF executor, chat, Stays, SameRound
<1>2. CASE UNCHANGED vars \/ Finished \/ ExpireEntry \/ \E p \in Procs : Administer(p) \/ Work(p)
  BY Zenon, <1>1, <1>2 DEF vars, Finished, ExpireEntry, Administer, Work
<1>3. ASSUME NEW c \in Callers, ChatStep(c) PROVE Stays(d) \/ Advances(d)
  BY Zenon, <1>3, ChatAdvances, OthersStay
<1>4. ASSUME NEW c \in Callers, Execute(c) PROVE Stays(d) \/ Advances(d)
  <2>1. ExecInv /\ Goroutine(c) /\ ExecutorStep(c) /\ UNCHANGED chat
    BY Zenon, <1>4 DEF LoopInv, ChatInv, Execute
  <2>2. xpc[c] # "out" /\ \A e \in Callers \ {c} : xpc'[e] = xpc[e]
    BY Zenon, <2>1, ExecutorFrame
  <2>3. SameRound(d) /\ cpc' = cpc
    BY Zenon, <2>1 DEF chat, SameRound
  <2>4. CASE d # c
    BY Zenon, <2>2, <2>3, <2>4 DEF Stays
  <2>5. CASE d = c
    <3>1. cpc[c] = "executing"
      BY Zenon, <2>1, <2>2 DEF Goroutine
    <3>2. XTurn[xpc[c]] < XTurn[xpc'[c]]
      BY Zenon, <2>1, ExecutorAdvances
    <3>. QED  BY Zenon, <2>3, <2>5, <3>1, <3>2 DEF Advances
  <2>. QED  BY Zenon, <2>4, <2>5
<1>. QED  BY Zenon, <1>2, <1>3, <1>4 DEF Next

\* A chat request never goes back: its rounds are counted up to MaxIterations, the results
\* of a round up to the calls of its completion, and a call goes through Execute once
\* (executeToolLoop).  What remains of ChatsEnd is that every step is eventually taken.
THEOREM LoopProgress == Spec => ChatsAdvance
<1>1. LoopInv /\ [Next]_vars => [\A c \in Callers : Stays(c) \/ Advances(c)]_vars
  BY Zenon, ChatsAdvanceStep
<1>. QED  BY <1>1, LoopInvHolds, PTL DEF Spec, ChatsAdvance
=============================================================================
