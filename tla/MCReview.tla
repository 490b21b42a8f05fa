------------------------------- MODULE MCReview -------------------------------
EXTENDS ReviewStream, TLC

CONSTANTS v1, v2, o1, o2, o3, t1, t2, s1, s2

MCTenantOf == (v1 :> t1) @@ (v2 :> t2)

\* All operations on both reviews with the sweep and nobody listening, and two
\* operations on one review with every stream.
MCWorkloads ==
  {[ops |-> Ops, streams |-> {}, reviews |-> Reviews, expiry |-> TRUE]} \cup
  {[ops |-> O, streams |-> Streams, reviews |-> {v1}, expiry |-> FALSE] :
    O \in {P \in SUBSET Ops : Cardinality(P) = 2}}

\* Operations are interchangeable: each one takes every kind and every target;
\* so are streams.
OpSymmetry == Permutations(Ops) \cup Permutations(Streams)
==============================================================================
