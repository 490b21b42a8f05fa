------------------------------ MODULE MCGateway ------------------------------
EXTENDS Gateway, TLC

CONSTANTS t1, u1, u2, r1, r2, r3, g1, g2, g3, g4, c1

-----------------------------------------------------------------------------
(* Limits: a window of four units; limits of 1, 2 and 4 in it *)

Limits(req, tok, exec) == [requests |-> req, tokens |-> tok, tool_execs |-> exec]

MCDefaultQuota == Limits(2, 4, 2)
LowTokens == Limits(4, 1, 4)
HighTokens == Limits(4, 4, 1)

-----------------------------------------------------------------------------
(* A chain: a root grant, its child, and two below that *)

Grant(parent, depth, budget, scopes, status) ==
  [tenant |-> t1, chain |-> c1, parent |-> parent, depth |-> depth,
   budget |-> budget, scopes |-> scopes, status |-> status]

MCEnvelope == (g1 :> Grant(NoGrant, 0, 1, {"read"}, "active"))
              @@ (g2 :> Grant(g1, 1, 1, {"read", "write"}, "active"))
              @@ (g3 :> Grant(g2, 2, 0, {"write"}, "issued"))
              @@ (g4 :> Grant(g2, 2, 0, {"read"}, "active"))

MCScopesOf == (u1 :> {}) @@ (u2 :> {"read"})

-----------------------------------------------------------------------------
(* Guardrails *)

MCRules == <<[name |-> "broken", type |-> "regex", severity |-> "warn",
              phase |-> "both", pattern |-> FALSE],
             [name |-> "hate", type |-> "wordlist", severity |-> "warn",
              phase |-> "input", pattern |-> FALSE]>>

MCThresholds == "hate" :> 80

Score(cat, det, conf) == [category |-> cat, detected |-> det, confidence |-> conf]

OpenAIAnswers ==
  {[flagged |-> FALSE, scores |-> {Score("hate", FALSE, 10)}],
   [flagged |-> TRUE, scores |-> {Score("hate", TRUE, 90), Score("violence", FALSE, 99)}],
   [flagged |-> TRUE, scores |-> {Score("hate", FALSE, 75), Score("violence", TRUE, 70)}]}

AnthropicAnswers ==
  {[prose |-> TRUE, scores |-> {}],
   [prose |-> FALSE, scores |-> {Score("hate", TRUE, 75), Score("violence", FALSE, 20)}],
   [prose |-> FALSE, scores |-> {Score("hate", TRUE, 80)}]}

LlamaGuardAnswers ==
  {[verdict |-> "safe", names |-> {}], [verdict |-> "unsafe", names |-> {}],
   [verdict |-> "unsafe", names |-> {""}], [verdict |-> "unsafe", names |-> {"H1", "V1"}]}

LocalAnswers == {[matched |-> FALSE], [matched |-> TRUE]}

Services == ("openai" :> OpenAIAnswers) @@ ("anthropic" :> AnthropicAnswers)
            @@ ("llamaguard" :> LlamaGuardAnswers) @@ ("local" :> LocalAnswers)

Guard(send, type, fail, merge) ==
  [enabled |-> TRUE, pii |-> {"email"}, send |-> send, type |-> type,
   failBehavior |-> fail, mergeLogic |-> merge]

LocalOnly == Guard(FALSE, "local", "fallback_local", "any_violation")

-----------------------------------------------------------------------------
(* Workloads *)

Request(user, grant, path, text) ==
  [token |-> "ok", tenant |-> t1, user |-> user, grant |-> grant,
   ancestors |-> {}, after |-> {}, path |-> path, text |-> text]

Unauthenticated == [Request(u1, NoGrant, "other", {}) EXCEPT !.token = "invalid"]

Quiet(reqs) ==
  [reqs |-> reqs, guard |-> LocalOnly, answers |-> {}, codes |-> {200},
   faults |-> FALSE, failOpen |-> FALSE, until |-> 0, statuses |-> {},
   issues |-> {}, revokes |-> {}, lapses |-> {}, quotas |-> {}]

\* Three requests on one chain while it is issued, revoked and reissued.
Delegated ==
  [Quiet((r1 :> Request(u1, g1, "other", {})) @@ (r2 :> Request(u2, g2, "other", {}))
         @@ (r3 :> Request(u1, g3, "other", {})))
     EXCEPT !.issues = {g1, g2, g3}, !.revokes = Chains]

\* Three requests of a tenant while the clock runs; the third comes after the second.
Limited ==
  [Quiet([r \in Reqs |-> [Request(u1, NoGrant, "other", {})
                           EXCEPT !.after = {q \in {r2} : r = r3}]])
     EXCEPT !.until = 4]

\* Two requests while an administrator lowers the limits.
Requoted ==
  [Quiet((r1 :> Request(u1, NoGrant, "other", {})) @@ (r2 :> Request(u2, NoGrant, "other", {})))
     EXCEPT !.until = 5, !.quotas = {[scope |-> <<t1, NoUser>>, limits |-> LowTokens]}]

\* One request and every failure: with a grant and a limiter that fails closed ...
Faulty ==
  [Quiet(r1 :> Request(u2, g2, "chat", {"hate"}))
     EXCEPT !.faults = TRUE, !.codes = {200, 400, 500},
            !.issues = {g1, g2, g4}, !.revokes = Chains, !.lapses = {g2}]

\* ... and with quotas and a limiter that fails open.
FaultyOpen ==
  [Quiet(r1 :> Request(u2, NoGrant, "chat", {"hate"}))
     EXCEPT !.faults = TRUE, !.codes = {200, 400, 500}, !.failOpen = TRUE,
            !.quotas = {[scope |-> <<t1, NoUser>>, limits |-> LowTokens],
                        [scope |-> <<t1, u2>>, limits |-> HighTokens]}]

\* Requests of every kind of token while the tenant is suspended and reinstated.
Suspended ==
  [Quiet((r1 :> Request(u1, NoGrant, "other", {})) @@ (r2 :> Unauthenticated)
         @@ (r3 :> [Unauthenticated EXCEPT !.token = "tenantless"]))
     EXCEPT !.statuses = {"suspended", "active"}, !.codes = {200, 400, 500}]

\* A chat request before every configuration of the guardrails.
Judged(guard, text) ==
  [Quiet(r1 :> Request(u1, NoGrant, "chat", text))
     EXCEPT !.guard = guard, !.answers = Services[guard.type]]

Types == <<"openai", "anthropic", "llamaguard", "local">>
Fails == <<"fallback_local", "fail_open", "fail_closed">>
Merges == <<"any_violation", "all_violation", "weighted">>
Texts == <<{}, {"long", "email"}, {"ssn", "broken"}, {"hate", "injection"}, {"injection"}>>

JudgedAll ==
  [i \in 1..(4 * 3 * 3 * 5) |->
     Judged(Guard(TRUE, Types[1 + (i % 4)], Fails[1 + ((i \div 4) % 3)],
                  Merges[1 + ((i \div 12) % 3)]),
            Texts[1 + ((i \div 36) % 5)])]

MCWorkloads ==
  <<Delegated, Limited, Requoted, Faulty, FaultyOpen, Suspended>> \o JudgedAll
==============================================================================
