----------------------------- MODULE MCAuditChain -----------------------------
EXTENDS AuditChain, TLC

CONSTANTS w1, w2, w3, w4, t1, t2

\* Three HTTP requests, of which one audits its end too, and a boot seed of two
\* tools; one request is of another tenant.
MCTenantOf == (w1 :> t1) @@ (w2 :> t1) @@ (w3 :> t1) @@ (w4 :> t2)
MCEvents == (w1 :> <<1, 1>>) @@ (w2 :> <<1>>) @@ (w3 :> <<2>>) @@ (w4 :> <<1>>)
==============================================================================
