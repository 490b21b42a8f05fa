------------------------------ MODULE Guardrails ------------------------------
(***************************************************************************)
(* How the gateway judges a text: the local rules                           *)
(* (internal/adapter/guardrail/local.go), the external classifiers          *)
(* (internal/adapter/guardrail/external/), their combination                *)
(* (internal/adapter/guardrail/composite.go) and the retrying HTTP client   *)
(* between them.  Nothing here is shared between requests, so the module    *)
(* has no variables: the middleware that acts on the verdict is in Gateway. *)
(*                                                                         *)
(* A text is the set of what the rules would find in it.  Confidences and   *)
(* thresholds are percentages.                                              *)
(***************************************************************************)
EXTENDS Naturals, Sequences, FiniteSets

CONSTANTS Rules,        \* cfg.Rules: a sequence of custom rules
          Thresholds    \* configured thresholds of the external classifier

Phases == {"input", "output"}
FailBehaviors == {"fallback_local", "fail_open", "fail_closed"}
MergeLogics == {"any_violation", "all_violation", "weighted"}

\* A custom rule: pattern is FALSE when the regular expression did not compile.
Rule == [name : STRING, type : {"regex", "wordlist", "pii", "injection"},
         severity : {"critical", "warn", "info", ""},
         phase : Phases \cup {"both"}, pattern : BOOLEAN]

ASSUME GuardrailConstants ==
  /\ \A i \in DOMAIN Rules : Rules[i] \in Rule
  /\ \A c \in DOMAIN Thresholds : Thresholds[c] \in 0..100

-----------------------------------------------------------------------------
(* Local rules.  Each check gives the violations it could report, in its own *)
(* order; the caller returns the first.                                      *)

Violation(rule, severity) == [rule |-> rule, severity |-> severity]

checkLength(text) ==
  IF "long" \in text THEN <<Violation("length_limit", "critical")>> ELSE <<>>

\* Only regular expressions that compiled and word lists are ever matched: a
\* rule of type "pii" or "injection" falls through the switch.
Matches(rule, text) ==
  /\ rule.name \in text
  /\ rule.type = "wordlist" \/ (rule.type = "regex" /\ rule.pattern)

checkRules(text, phase) ==
  LET Hit(rule) == rule.phase \in {"both", phase} /\ Matches(rule, text)
      hits == SelectSeq(Rules, Hit)
  IN  [i \in DOMAIN hits |-> Violation(hits[i].name, hits[i].severity)]

\* Critical on input, a warning on output.
checkPII(g, text, phase) ==
  LET Hit(p) == p \in g.pii /\ p \in text
      hits == SelectSeq(<<"email", "credit_card", "ssn">>, Hit)
  IN  [i \in DOMAIN hits |->
         Violation(hits[i], IF phase = "output" THEN "warn" ELSE "critical")]

checkInjection(text, phase) ==
  IF phase = "input" /\ "injection" \in text
    THEN <<Violation("injection", "critical")>> ELSE <<>>

\* CheckInput and CheckOutput: at most one violation, the first one found.
LocalCheck(g, text, phase) ==
  LET found == checkLength(text) \o checkRules(text, phase)
                 \o checkPII(g, text, phase) \o checkInjection(text, phase)
  IN  IF ~g.enabled \/ found = <<>> THEN {} ELSE {Head(found)}

-----------------------------------------------------------------------------
(* Classification results *)

Category(name, detected, confidence, threshold) ==
  [category |-> name, detected |-> detected, confidence |-> confidence,
   threshold |-> threshold]

Result(violated, categories) == [violated |-> violated, categories |-> categories]

Safe == Result(FALSE, {})

ThresholdOf(name, default) ==
  IF name \in DOMAIN Thresholds THEN Thresholds[name] ELSE default

violationToClassification(found) ==
  Result(found # {},
         {Category(v.rule, TRUE,
                   CASE v.severity = "critical" -> 95
                     [] v.severity \in {"warn", ""} -> 70
                     [] OTHER -> 90, 70) : v \in found})

ClassifyLocally(g, text, phase) ==
  violationToClassification(LocalCheck(g, text, phase))

-----------------------------------------------------------------------------
(* External classifiers: what each makes of the answer of its service *)

\* OpenAI: the service says what it detected; the threshold, where zero counts as
\* not configured, is only reported.
ParseOpenAI(a) ==
  LET Reported(name) == IF ThresholdOf(name, 0) = 0 THEN 70 ELSE Thresholds[name]
  IN  Result(a.flagged,
             {Category(s.category, s.detected, s.confidence, Reported(s.category)) :
                s \in a.scores})

\* Anthropic: a detection counts from its threshold up; an answer with no JSON
\* object in it is a safe one.
ParseAnthropic(a) ==
  LET cats == {Category(s.category,
                        s.detected /\ s.confidence >= ThresholdOf(s.category, 70),
                        s.confidence, ThresholdOf(s.category, 70)) : s \in a.scores}
  IN  IF a.prose THEN Safe ELSE Result(\E c \in cats : c.detected, cats)

\* Llama Guard: the categories are the second line of an "unsafe" answer, cut
\* at the commas; without that line there are none, and an empty line gives one
\* with an empty name.  Anything that is not "unsafe" is safe.
ParseLlamaGuard(a) ==
  IF a.verdict = "unsafe"
    THEN Result(TRUE, {Category(c, TRUE, 80, ThresholdOf(c, 50)) : c \in a.names})
    ELSE Safe

\* The "local" classifier of the factory: one category for all its patterns.
ParseLocal(a) ==
  IF a.matched
    THEN Result(TRUE, {Category("local_pattern", TRUE, 70, 70)})
    ELSE Safe

\* CreateClassifier: the configured type selects the classifier.
ParseAnswer(type, a) ==
  CASE type = "openai" -> ParseOpenAI(a)
    [] type = "anthropic" -> ParseAnthropic(a)
    [] type = "llamaguard" -> ParseLlamaGuard(a)
    [] type = "local" -> ParseLocal(a)

-----------------------------------------------------------------------------
(* The composite *)

Listed(name, res) == {d \in res.categories : d.category = name}

Top(dets) == {d \in dets : \A e \in dets : e.confidence <= d.confidence}

\* The detection with the highest confidence, the local one on a tie.
Best(local, ext) ==
  LET top == Top(local \cup ext)
  IN  IF top \cap local # {} THEN top \cap local ELSE top

\* Whether a category counts: one detection is enough, or every classifier has to
\* list it and detect it.
MergeDetects(logic, name, local, ext) ==
  LET L == Listed(name, local)
      E == Listed(name, ext)
  IN  CASE logic \in {"any_violation", "weighted"} -> \E d \in L \cup E : d.detected
        [] logic = "all_violation" -> L # {} /\ E # {} /\ \A d \in L \cup E : d.detected
        [] OTHER -> FALSE

\* mergeResults: category by category; a category that does not count is kept
\* with its most confident entry, which may be a detection.
mergeResults(logic, local, ext) ==
  LET names == {d.category : d \in local.categories \cup ext.categories}
      Detected(name, res) == {d \in Listed(name, res) : d.detected}
      Kept(name) == IF MergeDetects(logic, name, local, ext)
                      THEN Best(Detected(name, local), Detected(name, ext))
                      ELSE Best(Listed(name, local), Listed(name, ext))
  IN  Result(\E n \in names : MergeDetects(logic, n, local, ext),
             UNION {Kept(n) : n \in names})

Unavailable == [error |-> "classifier unavailable"]

\* The external classifier failed: what the local verdict is worth.
FailBehaviorResult(behavior, local) ==
  CASE behavior = "fail_open" -> Safe
    [] behavior = "fail_closed" -> Unavailable
    [] OTHER -> local

\* classify, with the local guardrail that main.go always configures.
classify(g, local, ext) ==
  CASE ~g.send -> local
    [] g.send /\ ext = Unavailable -> FailBehaviorResult(g.failBehavior, local)
    [] OTHER -> mergeResults(g.mergeLogic, local, ext)

\* Mutant: the first category is reported, detected or not.
classificationToViolation_AnyCategory(res) ==
  IF ~res.violated THEN {{}}
  ELSE {{Violation(c.category, "warn")} : c \in res.categories}

\* classificationToViolation: the detected category with the highest confidence;
\* the results come out of a Go map, so any of several equals.  No violation if
\* the name of that category is empty.  The confidence it has to beat starts at
\* zero.
classificationToViolation(res) ==
  LET top == Top({c \in res.categories : c.detected /\ c.confidence > 0})
      Report(c) == IF c.category = "" THEN {}
                   ELSE {Violation(c.category, IF c.confidence >= c.threshold
                                                 THEN "critical" ELSE "warn")}
  IN  IF res.violated /\ top # {} THEN {Report(c) : c \in top} ELSE {{}}
==============================================================================
