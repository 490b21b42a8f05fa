------------------------------ MODULE TenantPool ------------------------------
(***************************************************************************)
(* Units of work on the PostgreSQL pool: WithTenant, WithTenantTx and       *)
(* WithTenantBackground of internal/adapter/postgres/db.go.  Each begins a  *)
(* transaction and binds the tenant to it with set_config(..., true).       *)
(* WithTenantTx runs its function on that transaction.  The other two do    *)
(* not hand it over: their functions query the pool, that is, a second      *)
(* connection, while the first is held.                                     *)
(***************************************************************************)
EXTENDS Naturals, FiniteSets

CONSTANTS Workers,      \* goroutines that run units of work
          Conns,        \* the pool, MaxConns connections
          Tenants,
          TenantOf,     \* the tenant each worker works for
          Nested,       \* workers that use WithTenant or WithTenantBackground
          RlsEnforced,  \* the database role is subject to row level security
          Unset

ASSUME PoolConstants ==
  /\ TenantOf \in [Workers -> Tenants]
  /\ Nested \subseteq Workers
  /\ RlsEnforced \in BOOLEAN
  /\ Unset \notin Tenants \cup Conns
  /\ IsFiniteSet(Workers)
  /\ IsFiniteSet(Conns)

VARIABLES unit,     \* where each worker is in its unit of work
          txConn,   \* connection of the worker's transaction
          fnConn,   \* connection its function has borrowed
          guc,      \* app.current_tenant on each connection
          saw,      \* tenants whose rows the worker's query returned
          result

poolVars == <<unit, txConn, fnConn, guc, saw, result>>

UnitSteps == {"idle", "begin", "bind", "fn", "query", "commit"}

PoolTypeOK ==
  /\ unit \in [Workers -> UnitSteps]
  /\ txConn \in [Workers -> Conns \cup {Unset}]
  /\ fnConn \in [Workers -> Conns \cup {Unset}]
  /\ guc \in [Conns -> Tenants \cup {Unset}]
  /\ saw \in [Workers -> SUBSET Tenants]
  /\ result \in [Workers -> {"none", "ok", "error"}]

PoolInit ==
  /\ unit = [w \in Workers |-> "idle"]
  /\ txConn = [w \in Workers |-> Unset]
  /\ fnConn = [w \in Workers |-> Unset]
  /\ guc = [c \in Conns |-> Unset]
  /\ saw = [w \in Workers |-> {}]
  /\ result = [w \in Workers |-> "none"]

Held == {txConn[w] : w \in Workers} \cup {fnConn[w] : w \in Workers}
Free == Conns \ Held

Advance(w, step) == unit' = [unit EXCEPT ![w] = step]

-----------------------------------------------------------------------------
Start(w) ==
  /\ unit[w] = "idle"
  /\ Advance(w, "begin")
  /\ saw' = [saw EXCEPT ![w] = {}]
  /\ result' = [result EXCEPT ![w] = "none"]
  /\ UNCHANGED <<txConn, fnConn, guc>>

\* pool.Begin takes a connection and keeps it until Commit or Rollback.
Begin(w) ==
  /\ unit[w] = "begin"
  /\ \E c \in Free : txConn' = [txConn EXCEPT ![w] = c]
  /\ Advance(w, "bind")
  /\ UNCHANGED <<fnConn, guc, saw, result>>

\* SELECT set_config('app.current_tenant', $1, true)
Bind(w) ==
  /\ unit[w] = "bind"
  /\ guc' = [guc EXCEPT ![txConn[w]] = TenantOf[w]]
  /\ Advance(w, "fn")
  /\ UNCHANGED <<txConn, fnConn, saw, result>>

\* The rows that a query on connection c returns: all those it asks for, or of
\* these the ones of the bound tenant when row level security applies.
Visible(c, asked) == IF RlsEnforced THEN asked \cap {guc[c]} ELSE asked

\* The function of WithTenantTx queries the transaction, with or without a
\* condition on tenant_id.
RunOnTx(w) ==
  /\ unit[w] = "fn"
  /\ w \notin Nested
  /\ \E asked \in {{TenantOf[w]}, Tenants} :
       saw' = [saw EXCEPT ![w] = Visible(txConn[w], asked)]
  /\ Advance(w, "commit")
  /\ UNCHANGED <<txConn, fnConn, guc, result>>

\* The function of WithTenant queries the pool: it waits for a connection ...
Borrow(w) ==
  /\ unit[w] = "fn"
  /\ w \in Nested
  /\ \E c \in Free : fnConn' = [fnConn EXCEPT ![w] = c]
  /\ Advance(w, "query")
  /\ UNCHANGED <<txConn, guc, saw, result>>

\* ... and gives it back after the query, which commits by itself.
RunOnPool(w) ==
  /\ unit[w] = "query"
  /\ \E asked \in {{TenantOf[w]}, Tenants} :
       saw' = [saw EXCEPT ![w] = Visible(fnConn[w], asked)]
  /\ fnConn' = [fnConn EXCEPT ![w] = Unset]
  /\ Advance(w, "commit")
  /\ UNCHANGED <<txConn, guc, result>>

\* Mutant: the setting is made for the session, not for the transaction.
EndTx_KeepsSetting(w) ==
  /\ txConn' = [txConn EXCEPT ![w] = Unset]
  /\ fnConn' = [fnConn EXCEPT ![w] = Unset]
  /\ UNCHANGED guc
  /\ Advance(w, "idle")

\* Mutant: without the deferred Rollback a connection the function borrowed for
\* a failed query is the only one given back.
EndTx_NoRollback(w) ==
  /\ UNCHANGED txConn
  /\ fnConn' = [fnConn EXCEPT ![w] = Unset]
  /\ guc' = [c \in Conns |-> IF c = txConn[w] THEN Unset ELSE guc[c]]
  /\ Advance(w, "idle")

\* Commit, or the deferred Rollback: the setting ends with the transaction and
\* the connections go back.
EndTx(w) ==
  /\ txConn' = [txConn EXCEPT ![w] = Unset]
  /\ fnConn' = [fnConn EXCEPT ![w] = Unset]
  /\ guc' = [c \in Conns |-> IF c = txConn[w] THEN Unset ELSE guc[c]]
  /\ Advance(w, "idle")

Commit(w) ==
  /\ unit[w] = "commit"
  /\ EndTx(w)
  /\ result' = [result EXCEPT ![w] = "ok"]
  /\ UNCHANGED saw

\* Begin, a statement or the commit returns an error, or the context ends, also
\* while the worker waits for a connection; what RunOnPool wrote stays.
Fail(w) ==
  /\ unit[w] # "idle"
  /\ EndTx(w)
  /\ result' = [result EXCEPT ![w] = "error"]
  /\ UNCHANGED saw

Work(w) ==
  \/ Start(w) \/ Begin(w) \/ Bind(w) \/ RunOnTx(w) \/ Borrow(w) \/ RunOnPool(w)
  \/ Commit(w) \/ Fail(w)

PoolNext == \E w \in Workers : Work(w)

\* Statements return, and the pool serves the goroutines that wait for a
\* connection in the order they came, so none is passed over for ever.
Fairness ==
  \A w \in Workers :
    /\ SF_poolVars(Begin(w))
    /\ SF_poolVars(Borrow(w))
    /\ WF_poolVars(Bind(w) \/ RunOnTx(w) \/ RunOnPool(w) \/ Commit(w))

PoolSpec == PoolInit /\ [][PoolNext]_poolVars /\ Fairness

-----------------------------------------------------------------------------
(* Properties *)

\* The tenant setting is on a connection only while a transaction of that tenant
\* holds it: a connection from the pool carries no one's tenant ("never a plain
\* SET on a pooled connection", AD-002).
SettingScoped ==
  \A c \in Conns :
    guc[c] # Unset => \E w \in Workers : txConn[w] = c /\ guc[c] = TenantOf[w]

\* Under row level security no unit of work sees another tenant's rows, also
\* when its query has no condition on tenant_id (AD-002).
Isolated == RlsEnforced => \A w \in Workers : saw[w] \subseteq {TenantOf[w]}

\* A unit of work run on its transaction sees its tenant's rows, whatever units
\* ran on the same connection before.
TxSeesOwnRows ==
  \A w \in Workers \ Nested : unit[w] = "commit" => TenantOf[w] \in saw[w]

\* A worker between two units of work holds no connection, whichever way the
\* last one ended.
ConnectionsReturned ==
  \A w \in Workers : unit[w] \in {"idle", "begin"} => txConn[w] = Unset /\ fnConn[w] = Unset

\* A worker that waits for nothing but the database.
Running(w) ==
  unit[w] \in {"bind", "query", "commit"} \/ (unit[w] = "fn" /\ w \notin Nested)

\* With more connections than workers that need a second one, the workers never
\* all wait for each other's connections.
NeverStalled ==
  Cardinality(Nested) < Cardinality(Conns) =>
    Free # {} \/ \E w \in Workers : Running(w)

\* Every unit of work ends, also when nothing fails and no context ends.
UnitsEnd == \A w \in Workers : unit[w] # "idle" ~> unit[w] = "idle"

\* "All repository methods MUST run inside WithTenant for RLS to work correctly"
\* (db.go:17): a unit of work sees its tenant's rows.
OwnRowsVisible ==
  \A w \in Workers : unit[w] = "commit" => TenantOf[w] \in saw[w]
==============================================================================
