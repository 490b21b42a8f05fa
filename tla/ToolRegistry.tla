----------------------------- MODULE ToolRegistry -----------------------------
(***************************************************************************)
(* The tool registry of internal/adapter/postgres/tool_repository.go and    *)
(* the administration endpoints of handlers/admin_tools.go, for one tenant. *)
(* (Another tenant's rows, cache keys and audit lock are other ones.)       *)
(*                                                                          *)
(* A process runs one operation after the other.  A write is a transaction  *)
(* that changes rows of tool_definitions, appends an audit event under the  *)
(* tenant's audit lock and commits; the cache entry is dropped afterwards.  *)
(* Transactions are READ COMMITTED: a statement chooses its rows when it    *)
(* starts and then waits for the transactions that hold them.               *)
(***************************************************************************)
EXTENDS Naturals, Sequences, FiniteSets

CONSTANTS Procs,
          Names,      \* tool names
          Target,     \* the name that administrators change and requests look up
          Defs,       \* what ComputeHash covers: description and parameters
          Limits,     \* what it does not cover: grants, timeout and memory pages
          MaxTimeout, \* the CHECK constraint on execution_timeout_ms
          SeedTools,  \* ToolConfig.Tools with their effective limits: [name, row]
          Workloads,  \* who may run which operations: functions on Procs
          Ops,        \* bound: operations a process runs
          Starts,     \* the tables and logs of Target the model starts from
          None

Operations == {"create", "patch", "deactivate", "seed", "read"}

Rows == [def : Defs, lim : Limits, active : BOOLEAN]

\* ComputeHash: of the name, the description and the parameters only.  SHA-256 is
\* taken as free of collisions.
ComputeHash(n, row) == <<n, row.def>>

\* buildAuditEvent; "full" is the row marshalled into it.
AuditEvent(o, n, old, new, full, severity) ==
  [op |-> o, name |-> n, old |-> old, new |-> new, full |-> full, severity |-> severity]

\* The events that put a definition in force, and the one that accounts for a row: it
\* gives the row's definition and limits, or is the seed's, which leaves them out.
Activating(e) == e.op \in {"CREATE", "UPSERT"} \/ (e.op = "UPDATE" /\ e.full.active)

Accounts(e, n, row) ==
  /\ e.name = n /\ Activating(e)
  /\ \/ e.full # None /\ e.full.def = row.def /\ e.full.lim = row.lim
     \/ e.op = "UPSERT" /\ e.new = ComputeHash(n, row)

AuditEvents ==
  [op : {"CREATE", "UPDATE", "DELETE", "UPSERT"}, name : Names,
   old : (Names \X Defs) \cup {None}, new : (Names \X Defs) \cup {None},
   full : Rows \cup {None}, severity : {"info", "warn", "critical"}]

\* A table and a log that operations on the registry have left: one active row at
\* most, and the last event that activated the tool accounts for it.
Recorded(s) ==
  /\ s.rows \in Seq(Rows)
  /\ s.audit \in Seq(AuditEvents)
  /\ \A i \in DOMAIN s.rows : s.rows[i].active =>
       /\ \A j \in DOMAIN s.rows : s.rows[j].active => i = j
       /\ \E k \in DOMAIN s.audit :
            /\ Accounts(s.audit[k], Target, s.rows[i])
            /\ s.audit[k].new = ComputeHash(Target, s.rows[i])
            /\ \A m \in k+1..Len(s.audit) : s.audit[m].name = Target => ~Activating(s.audit[m])

ASSUME RegistryConstants ==
  /\ Target \in Names
  /\ \A l \in Limits : l.timeout \in Nat /\ l.pages \in Nat
  /\ Workloads \subseteq [Procs -> SUBSET Operations]
  /\ Ops \in Nat
  /\ SeedTools \in Seq([name : Names, row : {r \in Rows : r.active}]) /\ SeedTools # <<>>
  /\ \A i, j \in DOMAIN SeedTools : SeedTools[i].name = SeedTools[j].name => i = j
  /\ \A s \in Starts : Recorded(s)
  /\ None \notin Procs \cup Names \cup Rows

VARIABLES rows,      \* committed rows of each name, in the order of insertion
          audit,     \* the audit events of tool definitions, in the order of the chain
          auditLock, \* who holds the lock of the audit chain
          cache,     \* the LRU cache: a row, and whether it was out of date when added
          roles,     \* the operations each process may run, fixed at the start
          pc,
          ops,       \* operations each process has still to run
          task,      \* the one it runs: its kind, tool name and argument
          got,       \* what its last GetByName returned
          want,      \* the row its UPDATE writes
          seen,      \* the rows its statement has chosen
          pend       \* the rows its open transaction has written

shared == <<rows, audit, auditLock, cache>>
local == <<roles, ops, task, got, want, seen, pend>>
registry == <<rows, audit, auditLock, cache, pc, roles, ops, task, got, want, seen, pend>>

Steps == {"idle", "lookup", "query", "fill", "answered", "merge", "compare", "retire",
          "statement", "write", "audit", "commit", "invalidate"}

NoTask == [kind |-> None, name |-> None, arg |-> None]

RegistryTypeOK ==
  /\ rows \in [Names -> Seq(Rows)]
  /\ auditLock \in Procs \cup {None}
  /\ \A n \in Names : cache[n] = None \/ cache[n] \in [row : Rows, raced : BOOLEAN]
  /\ pc \in [Procs -> Steps]
  /\ roles \in Workloads
  /\ ops \in [Procs -> 0..Ops]
  /\ \A p \in Procs :
       /\ task[p].kind \in Operations \cup {None}
       /\ task[p].name \in Names \cup {None}
       /\ got[p] \in Rows \cup {None}
       /\ want[p] \in Rows \cup {None}
       /\ seen[p] \subseteq Nat

RegistryInit ==
  /\ \E s \in Starts : /\ rows = [n \in Names |-> IF n = Target THEN s.rows ELSE <<>>]
                       /\ audit = s.audit
  /\ auditLock = None
  /\ cache = [n \in Names |-> None]
  /\ roles \in Workloads
  /\ pc = [p \in Procs |-> "idle"]
  /\ ops = [p \in Procs |-> Ops]
  /\ task = [p \in Procs |-> NoTask]
  /\ got = [p \in Procs |-> None]
  /\ want = [p \in Procs |-> None]
  /\ seen = [p \in Procs |-> {}]
  /\ pend = [p \in Procs |-> <<>>]

Goto(p, step) == pc' = [pc EXCEPT ![p] = step]

\* The row that WHERE name = n AND is_active = true gives, or None.
ActiveRow(n) ==
  IF \E i \in DOMAIN rows[n] : rows[n][i].active
  THEN rows[n][CHOOSE i \in DOMAIN rows[n] : rows[n][i].active]
  ELSE None

-----------------------------------------------------------------------------
(* GetByName.  The caller continues at After with the result in got.        *)

After(p) == CASE task[p].kind = "deactivate" -> "retire"
              [] task[p].kind = "patch" -> IF want[p] = None THEN "merge" ELSE "compare"
              [] OTHER -> "answered"

CacheHit(p) ==
  /\ pc[p] = "lookup"
  /\ LET n == task[p].name
     IN IF cache[n] # None
        THEN got' = [got EXCEPT ![p] = cache[n].row] /\ Goto(p, After(p))
        ELSE Goto(p, "query") /\ UNCHANGED got
  /\ UNCHANGED <<shared, roles, ops, task, want, seen, pend>>

Query(p) ==
  /\ pc[p] = "query"
  /\ LET row == ActiveRow(task[p].name)
     IN /\ got' = [got EXCEPT ![p] = row]
        /\ Goto(p, IF row = None THEN After(p) ELSE "fill")
  /\ UNCHANGED <<shared, roles, ops, task, want, seen, pend>>

\* Nothing is compared when the row is added; "raced" notes whether it had changed.
Fill(p) ==
  /\ pc[p] = "fill"
  /\ LET n == task[p].name
     IN cache' = [cache EXCEPT ![n] = [row |-> got[p], raced |-> got[p] # ActiveRow(n)]]
  /\ Goto(p, After(p))
  /\ UNCHANGED <<rows, audit, auditLock, local>>

GetByName(p) == CacheHit(p) \/ Query(p) \/ Fill(p)

\* Mutant: a time to live of zero, for which the cache keeps its entries for ever.
Expire_NoTTL(n) ==
  /\ cache[n] # None
  /\ UNCHANGED registry

\* The time to live of an entry runs from its addition and no Get extends it.
Expire(n) ==
  /\ cache[n] # None
  /\ cache' = [cache EXCEPT ![n] = None]
  /\ UNCHANGED <<rows, audit, auditLock, pc, local>>

BeginLookup(p, n) ==
  /\ pc[p] = "idle"
  /\ task' = [task EXCEPT ![p] = [kind |-> "read", name |-> n, arg |-> None]]
  /\ Goto(p, "lookup")
  /\ UNCHANGED <<shared, ops, roles, got, want, seen, pend>>

EndLookup(p) ==
  /\ pc[p] = "answered"
  /\ Goto(p, "idle")
  /\ UNCHANGED <<shared, local>>

-----------------------------------------------------------------------------
(* The endpoints.                                                           *)

Begin(p, kind, name, arg, step) ==
  /\ pc[p] = "idle"
  /\ kind \in roles[p]
  /\ ops[p] > 0
  /\ ops' = [ops EXCEPT ![p] = @ - 1]
  /\ task' = [task EXCEPT ![p] = [kind |-> kind, name |-> name, arg |-> arg]]
  /\ Goto(p, step)
  /\ UNCHANGED <<shared, roles, got, want, seen, pend>>

CreateTool(p) ==
  \E row \in Rows : row.active /\ Begin(p, "create", Target, row, "write")

\* A PATCH of one field; its value is the argument.
UpdateTool(p) ==
  \E c \in [def : Defs] \cup [lim : Limits] \cup [active : BOOLEAN] :
    Begin(p, "patch", Target, c, "lookup")

DeactivateTool(p) == Begin(p, "deactivate", Target, None, "lookup")

InitFromConfig(p) == Begin(p, "seed", SeedTools[1].name, None, "write")

\* The operation is over; nothing of it is left behind.
Leave(p) ==
  /\ Goto(p, "idle")
  /\ task' = [task EXCEPT ![p] = NoTask]
  /\ got' = [got EXCEPT ![p] = None]
  /\ want' = [want EXCEPT ![p] = None]
  /\ seen' = [seen EXCEPT ![p] = {}]
  /\ pend' = [pend EXCEPT ![p] = <<>>]
  /\ UNCHANGED <<roles, ops>>

\* UpdateTool merges the change into the row it was given, then
\* UpdateToolDefinition looks the tool up again to compare.
Merged(row, c) == [f \in DOMAIN row |-> IF f \in DOMAIN c THEN c[f] ELSE row[f]]

Merge(p) ==
  /\ pc[p] = "merge"
  /\ IF got[p] = None
     THEN Leave(p)
     ELSE /\ want' = [want EXCEPT ![p] = Merged(got[p], task[p].arg)]
          /\ Goto(p, "lookup")
          /\ UNCHANGED <<roles, ops, task, got, seen, pend>>
  /\ UNCHANGED shared

Existing(p) ==
  /\ pc[p] \in {"compare", "retire"}
  /\ IF got[p] = None THEN Leave(p) ELSE Goto(p, "statement") /\ UNCHANGED local
  /\ UNCHANGED shared

-----------------------------------------------------------------------------
(* The transaction.                                                         *)

\* UPDATE ... WHERE name = n chooses all rows of the name, inactive ones too.
Statement(p) ==
  /\ pc[p] = "statement"
  /\ seen' = [seen EXCEPT ![p] = DOMAIN rows[task[p].name]]
  /\ Goto(p, "write")
  /\ UNCHANGED <<shared, roles, ops, task, got, want, pend>>

\* What the statement writes: new rows by their number, 0 for an inserted one.
\* The upsert of the seed takes the active row if there is one.
Written(p) ==
  LET seed == SeedTools[Len(pend[p]) + 1]
      n == IF task[p].kind = "seed" THEN seed.name ELSE task[p].name
      active == {i \in DOMAIN rows[n] : rows[n][i].active}
  IN [name |-> n,
      new |-> CASE task[p].kind = "create" -> [i \in {0} |-> task[p].arg]
                [] task[p].kind = "patch" -> [i \in seen[p] |-> want[p]]
                [] task[p].kind = "deactivate" ->
                     [i \in seen[p] |-> [rows[n][i] EXCEPT !.active = FALSE]]
                [] task[p].kind = "seed" ->
                     [i \in IF active = {} THEN {0} ELSE active |-> seed.row]]

Activates(w) == \E i \in DOMAIN w.new : w.new[i].active

\* Transactions that have written a row w writes, or that hold an entry of the
\* partial unique index on the active row which w needs.
Blockers(p, w) ==
  {q \in Procs \ {p} : \E j \in DOMAIN pend[q] :
     LET v == pend[q][j]
     IN /\ v.name = w.name
        /\ \/ (DOMAIN v.new \ {0}) \cap DOMAIN w.new # {}
           \/ Activates(w) /\ (Activates(v) \/ \E i \in DOMAIN v.new \ {0} : rows[v.name][i].active)}

\* The unique index on the active row and the CHECK on the timeout.
Accepted(w) ==
  /\ Activates(w) => /\ \E i \in DOMAIN w.new : DOMAIN w.new = {i}
                     /\ \A i \in DOMAIN rows[w.name] \ DOMAIN w.new : ~rows[w.name][i].active
  /\ \A i \in DOMAIN w.new : w.new[i].lim.timeout \in 1..MaxTimeout

Rollback(p) ==
  /\ auditLock' = IF auditLock = p THEN None ELSE auditLock
  /\ Leave(p)
  /\ UNCHANGED <<rows, audit, cache>>

WriteRows(p) ==
  /\ pc[p] = "write"
  /\ LET w == Written(p)
     IN /\ Blockers(p, w) = {}
        /\ IF Accepted(w)
           THEN /\ pend' = [pend EXCEPT ![p] = Append(@, w)]
                /\ Goto(p, "audit")
                /\ UNCHANGED <<shared, roles, ops, task, got, want, seen>>
           ELSE Rollback(p)

\* AppendWithTx: the event joins the transaction, the lock stays until its end.
LockAudit(p) ==
  /\ pc[p] = "audit"
  /\ auditLock \in {None, p}
  /\ auditLock' = p
  /\ Goto(p, IF task[p].kind = "seed" /\ Len(pend[p]) < Len(SeedTools) THEN "write" ELSE "commit")
  /\ UNCHANGED <<rows, audit, cache, local>>

FailAudit(p) ==
  /\ pc[p] = "audit"
  /\ Rollback(p)

\* The seed holds the audit lock and waits for a row, another transaction holds the
\* row and waits for the audit lock: the database aborts one of the two.
Deadlocked(p, q) ==
  /\ auditLock = p
  /\ pc[p] = "write"
  /\ q \in Blockers(p, Written(p))
  /\ pc[q] = "audit"

DeadlockAbort(p) ==
  /\ \E q \in Procs : Deadlocked(p, q) \/ Deadlocked(q, p)
  /\ Rollback(p)

\* The event of w, written by p's transaction.
EventOf(p, w) ==
  LET n == w.name
  IN CASE task[p].kind = "create" ->
            AuditEvent("CREATE", n, None, ComputeHash(n, w.new[0]), w.new[0], "info")
       [] task[p].kind = "patch" ->
            AuditEvent("UPDATE", n, ComputeHash(n, got[p]), ComputeHash(n, want[p]), want[p],
                       IF got[p].def # want[p].def THEN "critical" ELSE "warn")
       [] task[p].kind = "deactivate" ->
            AuditEvent("DELETE", n, ComputeHash(n, got[p]), None, got[p], "warn")
       [] task[p].kind = "seed" ->
            LET row == w.new[CHOOSE i \in DOMAIN w.new : TRUE]
            IN AuditEvent("UPSERT", n, None, ComputeHash(n, row), None, "info")

\* The table of w's name once w is written.
Applied(w) ==
  LET old == rows[w.name]
      upd == [i \in DOMAIN old |-> IF i \in DOMAIN w.new THEN w.new[i] ELSE old[i]]
  IN IF 0 \in DOMAIN w.new THEN Append(upd, w.new[0]) ELSE upd

\* Mutant: the event is appended in a transaction of its own, which may fail.
Commit_Unaudited(p) ==
  /\ pc[p] = "commit"
  /\ rows' = [n \in Names |->
                IF \E j \in DOMAIN pend[p] : pend[p][j].name = n
                THEN Applied(pend[p][CHOOSE j \in DOMAIN pend[p] : pend[p][j].name = n])
                ELSE rows[n]]
  /\ \/ audit' = audit \o [j \in DOMAIN pend[p] |-> EventOf(p, pend[p][j])]
     \/ UNCHANGED audit
  /\ auditLock' = None
  /\ pend' = [pend EXCEPT ![p] = <<>>]
  /\ Goto(p, "invalidate")
  /\ UNCHANGED <<cache, roles, ops, task, got, want, seen>>

Commit(p) ==
  /\ pc[p] = "commit"
  /\ rows' = [n \in Names |->
                IF \E j \in DOMAIN pend[p] : pend[p][j].name = n
                THEN Applied(pend[p][CHOOSE j \in DOMAIN pend[p] : pend[p][j].name = n])
                ELSE rows[n]]
  /\ audit' = audit \o [j \in DOMAIN pend[p] |-> EventOf(p, pend[p][j])]
  /\ auditLock' = None
  /\ pend' = [pend EXCEPT ![p] = <<>>]
  /\ Goto(p, "invalidate")
  /\ UNCHANGED <<cache, roles, ops, task, got, want, seen>>

\* Mutant: the seed does not clear the cache.
Invalidate_OneName(p) ==
  /\ pc[p] = "invalidate"
  /\ cache' = [n \in Names |-> IF n = task[p].name THEN None ELSE cache[n]]
  /\ Leave(p)
  /\ UNCHANGED <<rows, audit, auditLock>>

\* invalidateCache of the name, clearCache after the seed.
Invalidate(p) ==
  /\ pc[p] = "invalidate"
  /\ cache' = [n \in Names |-> IF task[p].kind = "seed" \/ n = task[p].name THEN None ELSE cache[n]]
  /\ Leave(p)
  /\ UNCHANGED <<rows, audit, auditLock>>

-----------------------------------------------------------------------------
Endpoint(p) == CreateTool(p) \/ UpdateTool(p) \/ DeactivateTool(p) \/ InitFromConfig(p)

Transaction(p) ==
  \/ Statement(p) \/ WriteRows(p) \/ LockAudit(p) \/ FailAudit(p) \/ DeadlockAbort(p)
  \/ Commit(p) \/ Invalidate(p)

RegistryStep(p) == GetByName(p) \/ Merge(p) \/ Existing(p) \/ Transaction(p)

\* What keeps an operation moving: the steps that a process takes by itself, the
\* failures excepted.
Progress(p) ==
  \/ GetByName(p) \/ Merge(p) \/ Existing(p) \/ Statement(p) \/ WriteRows(p) \/ LockAudit(p)
  \/ DeadlockAbort(p) \/ Commit(p) \/ Invalidate(p)

RegistryNext ==
  \/ \E p \in Procs : \/ Endpoint(p) \/ RegistryStep(p) \/ EndLookup(p)
                      \/ "read" \in roles[p] /\ BeginLookup(p, Target)
  \/ \E n \in Names : Expire(n)

\* The registry by itself.
RegistrySpec == RegistryInit /\ [][RegistryNext]_registry

-----------------------------------------------------------------------------
\* The audit log names the definition in force (AppendWithTx joins the transaction of
\* the change): the hash of a tool's active row is the new_hash of the last event of
\* that tool that activated it.
AuditNamesActiveRow ==
  \A n \in Names : ActiveRow(n) # None =>
    \E i \in DOMAIN audit :
      /\ audit[i].name = n /\ Activating(audit[i])
      /\ audit[i].new = ComputeHash(n, ActiveRow(n))
      /\ \A j \in i+1..Len(audit) : audit[j].name = n => ~Activating(audit[j])

\* A cached row differs from the one in force only while the writer that changed it has
\* yet to invalidate the entry, or because a lookup that read before the commit added
\* it after the invalidation (GetByName's Add checks nothing).
Invalidating(n) ==
  \E p \in Procs : pc[p] = "invalidate" /\ (task[p].kind = "seed" \/ task[p].name = n)

StaleOnlyIfRaced ==
  \A n \in Names : cache[n] # None /\ cache[n].row # ActiveRow(n) =>
    cache[n].raced \/ Invalidating(n)

\* Once the writers are done, what the cache says is what the table says for ever: a
\* stale entry leaves with its time to live.
CacheConverges == <>[](\A n \in Names : cache[n] # None => cache[n].row = ActiveRow(n))
=============================================================================
