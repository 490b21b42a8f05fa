----------------------------- MODULE MCTenantPool -----------------------------
EXTENDS TenantPool, TLC

CONSTANTS w1, w2, w3, w4, t1, t2

\* Two tenants with two workers each; the configurations say which workers take
\* a second connection.
MCTenantOf == (w1 :> t1) @@ (w2 :> t2) @@ (w3 :> t1) @@ (w4 :> t2)
==============================================================================
