------------------------------ MODULE AuditChain ------------------------------
(***************************************************************************)
(* The hash-chained audit log of internal/adapter/postgres/                 *)
(* audit_repository.go.  A writer runs transactions one after the other;    *)
(* each appends one event or, for the boot seed of tools, several with      *)
(* AppendWithTx.  The appends of a tenant are serialised by the row lock on *)
(* audit_chain_locks.  Transactions are READ COMMITTED: a statement sees    *)
(* what is committed when it starts and what its own transaction wrote.     *)
(***************************************************************************)
EXTENDS Naturals, Sequences, FiniteSets

CONSTANTS Writers,
          Tenants,
          TenantOf,   \* the tenant each writer's events belong to
          Events,     \* events each transaction of a writer appends, in turn
          None

ASSUME AuditConstants ==
  /\ TenantOf \in [Writers -> Tenants]
  /\ Events \in [Writers -> Seq(Nat \ {0})]
  /\ Writers \cap {None, "absent", "committed"} = {}

VARIABLES log,      \* committed rows of each tenant
          lockRow,  \* who inserted a tenant's row of audit_chain_locks
          locked,   \* who holds the lock on it
          pc,
          tx,       \* number of each writer's current transaction
          pending,  \* rows its open transaction has inserted
          last      \* row it has read as the last of the chain

vars == <<log, lockRow, locked, pc, tx, pending, last>>

\* An event is identified by its writer, transaction and place in it, which stand
\* for the columns that are hashed: all but id, actor_type and severity.
Bodies == Writers \X Nat \X Nat

\* A hash as the inputs it was computed from: SHA-256 taken as free of collisions.
Hashes == Seq(Nat \X Tenants \X Bodies)
Genesis == <<>>

\* sha256 of computeChainInput
ChainHash(prev, seq, T, body) == Append(prev, <<seq, T, body>>)

Row == [seq : Nat, prev : Hashes, hash : Hashes, body : Bodies]
NoRow == [seq |-> 0, prev |-> Genesis, hash |-> Genesis, body |-> None]

Steps == {"idle", "ensure", "lock", "read", "insert", "commit"}

TypeOK ==
  /\ log \in [Tenants -> Seq(Row)]
  /\ lockRow \in [Tenants -> Writers \cup {"absent", "committed"}]
  /\ locked \in [Tenants -> Writers \cup {None}]
  /\ pc \in [Writers -> Steps]
  /\ tx \in [Writers -> Nat]
  /\ pending \in [Writers -> Seq(Row)]
  /\ last \in [Writers -> Row \cup {NoRow}]

Init ==
  /\ log = [T \in Tenants |-> <<>>]
  /\ lockRow = [T \in Tenants |-> "absent"]
  /\ locked = [T \in Tenants |-> None]
  /\ pc = [w \in Writers |-> "idle"]
  /\ tx = [w \in Writers |-> 1]
  /\ pending = [w \in Writers |-> <<>>]
  /\ last = [w \in Writers |-> NoRow]

Goto(w, step) == pc' = [pc EXCEPT ![w] = step]

\* What w's transaction sees of its tenant's chain, and the row that ORDER BY seq
\* DESC LIMIT 1 gives.
Visible(w) == log[TenantOf[w]] \o pending[w]

LastOf(s) ==
  IF s = <<>> THEN NoRow
  ELSE s[CHOOSE i \in 1..Len(s) : \A j \in 1..Len(s) : s[j].seq <= s[i].seq]

-----------------------------------------------------------------------------
Begin(w) ==
  /\ pc[w] = "idle"
  /\ tx[w] <= Len(Events[w])
  /\ Goto(w, "ensure")
  /\ UNCHANGED <<log, lockRow, locked, tx, pending, last>>

\* INSERT ... ON CONFLICT DO NOTHING of the lock row waits for a transaction that
\* has inserted it and not ended.
EnsureLockRow(w) ==
  /\ pc[w] = "ensure"
  /\ \/ lockRow[TenantOf[w]] = "absent" /\ lockRow' = [lockRow EXCEPT ![TenantOf[w]] = w]
     \/ lockRow[TenantOf[w]] \in {w, "committed"} /\ UNCHANGED lockRow
  /\ Goto(w, "lock")
  /\ UNCHANGED <<log, locked, tx, pending, last>>

\* Mutant: SELECT without FOR UPDATE.
Lock_NotForUpdate(w) ==
  /\ pc[w] = "lock"
  /\ Goto(w, "read")
  /\ UNCHANGED <<log, lockRow, locked, tx, pending, last>>

\* SELECT ... FOR UPDATE; the lock is held until the transaction ends.
Lock(w) ==
  /\ pc[w] = "lock"
  /\ locked[TenantOf[w]] \in {w, None}
  /\ locked' = [locked EXCEPT ![TenantOf[w]] = w]
  /\ Goto(w, "read")
  /\ UNCHANGED <<log, lockRow, tx, pending, last>>

ReadLast(w) ==
  /\ pc[w] = "read"
  /\ last' = [last EXCEPT ![w] = LastOf(Visible(w))]
  /\ Goto(w, "insert")
  /\ UNCHANGED <<log, lockRow, locked, tx, pending>>

\* Mutant: the row is linked to the predecessor of the last one.
NextRow_Relinks(w) ==
  LET body == <<w, tx[w], Len(pending[w]) + 1>>
      seq == last[w].seq + 1
  IN [seq |-> seq, prev |-> last[w].prev, body |-> body,
      hash |-> ChainHash(last[w].prev, seq, TenantOf[w], body)]

\* The row AppendWithTx computes from the last one.
NextRow(w) ==
  LET body == <<w, tx[w], Len(pending[w]) + 1>>
      seq == last[w].seq + 1
  IN [seq |-> seq, prev |-> last[w].hash, body |-> body,
      hash |-> ChainHash(last[w].hash, seq, TenantOf[w], body)]

\* The transaction ends: its locks go and the next one may begin.
EndTx(w) ==
  /\ locked' = [T \in Tenants |-> IF locked[T] = w THEN None ELSE locked[T]]
  /\ pending' = [pending EXCEPT ![w] = <<>>]
  /\ tx' = [tx EXCEPT ![w] = tx[w] + 1]
  /\ Goto(w, "idle")
  /\ UNCHANGED last

\* Mutant: events are inserted outside the transaction and survive its end.
Rollback_KeepsEvents(w) ==
  /\ log' = [log EXCEPT ![TenantOf[w]] = Visible(w)]
  /\ lockRow' = [T \in Tenants |-> IF lockRow[T] = w THEN "absent" ELSE lockRow[T]]
  /\ EndTx(w)

Rollback(w) ==
  /\ lockRow' = [T \in Tenants |-> IF lockRow[T] = w THEN "absent" ELSE lockRow[T]]
  /\ UNCHANGED log
  /\ EndTx(w)

\* CreateAuditEvent takes seq and prev_hash from the chain as it is now; the
\* insertion waits for another open transaction that has taken the same seq.
\* When they differ from what AppendWithTx computed it returns an error, and the
\* event is lost: its writers log the error and go on.
Insert(w) ==
  /\ pc[w] = "insert"
  /\ \A v \in Writers \ {w} : TenantOf[v] = TenantOf[w] =>
       \A i \in 1..Len(pending[v]) : pending[v][i].seq # LastOf(Visible(w)).seq + 1
  /\ IF LastOf(Visible(w)) = last[w]
       THEN /\ pending' = [pending EXCEPT ![w] = Append(pending[w], NextRow(w))]
            /\ Goto(w, IF Len(pending[w]) + 1 < Events[w][tx[w]] THEN "ensure" ELSE "commit")
            /\ UNCHANGED <<log, lockRow, locked, tx, last>>
       ELSE Rollback(w)

\* Mutant: a lock of the session, not of the transaction.
Commit_KeepsLock(w) ==
  /\ pc[w] = "commit"
  /\ log' = [log EXCEPT ![TenantOf[w]] = Visible(w)]
  /\ lockRow' = [T \in Tenants |-> IF lockRow[T] = w THEN "committed" ELSE lockRow[T]]
  /\ pending' = [pending EXCEPT ![w] = <<>>]
  /\ tx' = [tx EXCEPT ![w] = tx[w] + 1]
  /\ Goto(w, "idle")
  /\ UNCHANGED <<locked, last>>

Commit(w) ==
  /\ pc[w] = "commit"
  /\ log' = [log EXCEPT ![TenantOf[w]] = Visible(w)]
  /\ lockRow' = [T \in Tenants |-> IF lockRow[T] = w THEN "committed" ELSE lockRow[T]]
  /\ EndTx(w)

\* A statement or the work around the append fails, or the process ends.
Fail(w) ==
  /\ pc[w] # "idle"
  /\ Rollback(w)

Step(w) ==
  \/ EnsureLockRow(w) \/ Lock(w) \/ ReadLast(w) \/ Insert(w) \/ Commit(w)

Next == \E w \in Writers : Begin(w) \/ Step(w) \/ Fail(w)

\* Statements return, and PostgreSQL grants a row lock to the transactions that
\* wait for it in turn.
Fairness ==
  \A w \in Writers :
    /\ SF_vars(EnsureLockRow(w))
    /\ SF_vars(Lock(w))
    /\ WF_vars(ReadLast(w) \/ Insert(w) \/ Commit(w))

Spec == Init /\ [][Next]_vars /\ Fairness

-----------------------------------------------------------------------------
(* Verification *)

\* Mutant: only the first row's prev_hash is looked at.
LinksTo_Anything(rows, r) ==
  (\A q \in rows : r.seq <= q.seq) => r.prev = Genesis

\* The check of r.prev in VerifyChain's loop over the selected rows: the first one
\* is taken for the genesis event.
LinksTo(rows, r) ==
  /\ (\A q \in rows : r.seq <= q.seq) => r.prev = Genesis
  /\ \A q \in rows :
       q.seq < r.seq /\ (\A p \in rows : ~(q.seq < p.seq /\ p.seq < r.seq)) => r.prev = q.hash

\* The hash is recomputed from the columns of the row.  ChainInput takes them in
\* the order of computeChainInput.
VerifyChainInput(T, r) == r.hash = ChainHash(r.prev, r.seq, T, r.body)

\* VerifyChain(from, to) on a tenant's table
VerifyChain(table, T, from, to) ==
  LET rows == {r \in table : from <= r.seq /\ r.seq <= to}
  IN \A r \in rows :
       LinksTo(rows, r) /\ VerifyChainInput(T, r)

Table(T) == {log[T][i] : i \in 1..Len(log[T])}

-----------------------------------------------------------------------------
(* Properties *)

\* The rows s are numbered from 1 and each is hashed over its predecessor's hash.
Intact(s, T) ==
  \A i \in 1..Len(s) :
    /\ s[i].seq = i
    /\ s[i].prev = (IF i = 1 THEN Genesis ELSE s[i - 1].hash)
    /\ s[i].hash = ChainHash(s[i].prev, i, T, s[i].body)

\* A tenant's committed rows form a chain without gaps, however the transactions
\* that wrote them were interleaved, failed or rolled back.
ChainIntact == \A T \in Tenants : Intact(log[T], T)

\* No event is lost to a concurrent append: when a writer inserts, the last row of
\* the chain is still the one it has read, so AppendWithTx's checks of the row
\* that comes back never fail.
ReadsStayCurrent ==
  \A w \in Writers : pc[w] = "insert" => last[w] = LastOf(Visible(w))

\* The events of one transaction are in the log all together, one after the other
\* in the order they were appended, or not at all.
BatchesWhole ==
  \A T \in Tenants : \A i \in 1..Len(log[T]) :
    LET b == log[T][i].body IN
    /\ b[3] > 1 => i > 1 /\ log[T][i - 1].body = <<b[1], b[2], b[3] - 1>>
    /\ b[3] < Events[b[1]][b[2]] =>
         i < Len(log[T]) /\ log[T][i + 1].body = <<b[1], b[2], b[3] + 1>>

\* VerifyChain accepts every beginning of a chain that AppendWithTx has written.
WrittenChainsVerify ==
  \A T \in Tenants : \A n \in 0..Len(log[T]) : VerifyChain(Table(T), T, 1, n)

\* "VerifyChain detects tampering" (README.md:114): a row whose body, hash or link
\* is not what was written, or a row missing before the last, makes the chain
\* invalid.  (A cut at the end leaves a valid chain.)
CorruptionDetected ==
  \A T \in Tenants : \A r \in Table(T) :
    LET others == Table(T) \ {r}
        Detected(table) == ~VerifyChain(table, T, 1, Len(log[T]))
    IN /\ \A q \in Table(T) :
            /\ q.body # r.body => Detected(others \cup {[r EXCEPT !.body = q.body]})
            /\ q.hash # r.hash => Detected(others \cup {[r EXCEPT !.hash = q.hash]})
            /\ q.prev # r.prev => Detected(others \cup {[r EXCEPT !.prev = q.prev]})
       /\ r.seq < Len(log[T]) => Detected(others)

\* Every transaction that appends events ends: no append waits for a lock for ever.
TransactionsEnd == \A w \in Writers : pc[w] # "idle" ~> pc[w] = "idle"
==============================================================================
