------------------------------ MODULE MCRouting ------------------------------
\* Two providers: the first serves both models, the second one of them.
EXTENDS Routing

CONSTANTS p1, p2, m1, m2

MCProviders == {p1, p2}
MCModels == {m1, m2}
MCPriority == p1 :> 1 @@ p2 :> 2
MCServes == p1 :> {m1, m2} @@ p2 :> {m1}
MCBreakerEnabled == [p \in {p1, p2} |-> TRUE]
MCType == p1 :> "openai" @@ p2 :> "openai"

\* The second provider has no limit of its own and takes the chain's.
MCMaxRetries == p1 :> 1 @@ p2 :> 0

\* A rule for one transient error, whose second name is no sentinel's; the
\* rule after it comes too late for that error and takes the chain's limit for
\* another one.
MCFallbackRules ==
  << [onErrors |-> {"provider rate limited", "no such error"}, maxRetries |-> 1],
     [onErrors |-> {"provider rate limited", "provider invalid request"},
      maxRetries |-> 0] >>

\* One model that every provider serves.
OneModel == {m1}
ServesAll == [p \in Providers |-> OneModel]
NoRules == << >>
OneRetry == [p \in Providers |-> 1]
SamePriority == [p \in Providers |-> 1]
AllEnabled == [p \in Providers |-> TRUE]
MockFirst == p1 :> "mock" @@ p2 :> "openai"
==============================================================================
