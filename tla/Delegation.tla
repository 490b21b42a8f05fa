------------------------------ MODULE Delegation ------------------------------
(***************************************************************************)
(* Delegation grants: the checks of internal/domain/delegation/, the rows   *)
(* of delegation_grants (internal/adapter/postgres/delegation_repository.go) *)
(* and the budget pools in Redis (internal/adapter/redis/                   *)
(* delegation_budget.go).  The middleware that runs the checks is wired; the *)
(* code that issues and revokes grants is not written yet, so issuing       *)
(* follows the integration tests and the comment "Grant generation is set   *)
(* at issuance".  UpdateStatus has no caller, not even a test.              *)
(***************************************************************************)
EXTENDS Integers, FiniteSets

CONSTANTS Grants, Chains,
          NoGrant,
          Envelope,         \* what the holder of each grant presents
          MaxDepth, MaxFanOut

ASSUME DelegationConstants ==
  /\ NoGrant \notin Grants
  /\ IsFiniteSet(Grants)
  /\ MaxDepth \in Nat /\ MaxFanOut \in Nat
  /\ \A g \in Grants :
       /\ Envelope[g].chain \in Chains
       /\ Envelope[g].parent \in Grants \cup {NoGrant}
       /\ Envelope[g].depth \in Nat
       /\ Envelope[g].budget \in Nat
       /\ Envelope[g].status \in {"issued", "active"}

VARIABLES row,          \* status of each row of delegation_grants
          generation,   \* generation written into each grant
          pool,         \* budget left in Redis, by chain
          funded,       \* budget that InitBudget put there
          lapsed,       \* grants past their expires_at
          killed        \* history: grants that a revocation found in its chain

grantVars == <<row, generation, pool, funded, lapsed, killed>>

RowStatuses == {"absent", "drafted", "issued", "active", "revoked"}

DelegationTypeOK ==
  /\ row \in [Grants -> RowStatuses]
  /\ generation \in [Grants -> 0..Cardinality(Grants)]
  /\ pool \in [Chains -> Nat]
  /\ funded \in [Chains -> Nat]
  /\ lapsed \subseteq Grants
  /\ killed \subseteq Grants

DelegationInit ==
  /\ row = [g \in Grants |-> "absent"]
  /\ generation = [g \in Grants |-> 0]
  /\ pool = [c \in Chains |-> 0]
  /\ funded = [c \in Chains |-> 0]
  /\ lapsed = {}
  /\ killed = {}

-----------------------------------------------------------------------------
(* Rows *)

InChain(c) == {g \in Grants : Envelope[g].chain = c}

\* SELECT COUNT(*) ... status = 'revoked'
GetChainGeneration(c) == Cardinality({g \in InChain(c) : row[g] = "revoked"})

\* SELECT COUNT(*) ... parent_grant_id = $2 AND status = 'active'
CountActiveChildren(g) ==
  Cardinality({h \in Grants : Envelope[h].parent = g /\ row[h] = "active"})

\* The issuer reads the generation of the chain ...
Draft(g) ==
  /\ row[g] = "absent"
  /\ row' = [row EXCEPT ![g] = "drafted"]
  /\ generation' = [generation EXCEPT ![g] = GetChainGeneration(Envelope[g].chain)]
  /\ UNCHANGED <<pool, funded, lapsed, killed>>

\* ... and inserts the row later.
Create(g) ==
  /\ row[g] = "drafted"
  /\ row' = [row EXCEPT ![g] = Envelope[g].status]
  /\ UNCHANGED <<generation, pool, funded, lapsed, killed>>

\* InitBudget, once the root grant of the chain is there.
InitBudget(c) ==
  /\ funded[c] = 0
  /\ \E g \in InChain(c) :
       /\ Envelope[g].parent = NoGrant
       /\ row[g] \notin {"absent", "drafted"}
       /\ Envelope[g].budget > 0
       /\ funded' = [funded EXCEPT ![c] = Envelope[g].budget]
       /\ pool' = [pool EXCEPT ![c] = Envelope[g].budget]
  /\ UNCHANGED <<row, generation, lapsed, killed>>

\* WHERE chain_id = $2 AND status = 'active'
Revocable(c) == {g \in InChain(c) : row[g] = "active"}

\* RevokeByChain.  Grants still "issued" keep their status; a chain that has no
\* active row keeps its generation, and so the revocation has no effect on it.
RevokeByChain(c) ==
  /\ \E g \in InChain(c) : row[g] = "active"
  /\ row' = [g \in Grants |-> IF g \in Revocable(c) THEN "revoked" ELSE row[g]]
  /\ killed' = killed \cup {g \in InChain(c) : row[g] # "absent"}
  /\ UNCHANGED <<generation, pool, funded, lapsed>>

Lapse(g) ==
  /\ row[g] \notin {"absent", "drafted"}
  /\ g \notin lapsed
  /\ lapsed' = lapsed \cup {g}
  /\ UNCHANGED <<row, generation, pool, funded, killed>>

-----------------------------------------------------------------------------
(* Checks *)

\* The status in the envelope is issued or active, never a terminal one.
ValidateTTL(g) == g \notin lapsed

\* A token without scopes skips the intersection.
ValidateScopeIntersection(parentScope, g) ==
  parentScope # {} => parentScope \cap Envelope[g].scopes # {}

ValidateDepth(g) == Envelope[g].depth < MaxDepth

ValidateCycle(delegate, ancestors) == delegate \notin ancestors

ValidateCrossTenant(tenant, g) == Envelope[g].tenant = tenant

\* The checks that need nothing but the envelope and the token.
EnvelopeValid(g, tenant, user, scopes, ancestors) ==
  /\ ValidateCrossTenant(tenant, g)
  /\ ValidateTTL(g)
  /\ ValidateScopeIntersection(scopes, g)
  /\ ValidateDepth(g)
  /\ ValidateCycle(user, ancestors)

\* Mutant: a grant survives one revocation.
ChainRevoked_OffByOne(g) == generation[g] + 1 < GetChainGeneration(Envelope[g].chain)

\* ValidateChainRevocation
ChainRevoked(g) == generation[g] < GetChainGeneration(Envelope[g].chain)

\* Of the grant presented, not of its parent.
ValidateFanOut(g) == CountActiveChildren(g) < MaxFanOut

\* Mutant: an empty pool is not refused.
Spend_Unchecked(c) ==
  /\ pool' = [pool EXCEPT ![c] = IF @ = 0 THEN 0 ELSE @ - 1]
  /\ UNCHANGED <<row, generation, funded, lapsed, killed>>

\* The decrement of the script; a missing pool and an empty one give -1.
Spend(c) ==
  /\ pool[c] >= 1
  /\ pool' = [pool EXCEPT ![c] = @ - 1]
  /\ UNCHANGED <<row, generation, funded, lapsed, killed>>
==============================================================================
