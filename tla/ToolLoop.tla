------------------------------- MODULE ToolLoop -------------------------------
(***************************************************************************)
(* A chat request with tools: the validation of handlers/chat.go, the       *)
(* bounded tool loop of usecase/chat/orchestrator.go, the registry it asks   *)
(* before each execution and the executor it calls, beside administrators   *)
(* that change the registry.  What the model answers is any completion.     *)
(***************************************************************************)
EXTENDS ToolRegistry, WasmExecutor

CONSTANTS MaxIterations,
          MaxCalls,     \* bound: tool calls in one completion
          MaybeGuarded  \* tools that may be configured to require approval

\* The goroutine of a chat request serves that request only.
ASSUME LoopConstants ==
  /\ Callers \subseteq Procs
  /\ \A w \in Workloads : \A p \in Procs : "read" \in w[p] => w[p] = {"read"}
  /\ MaxIterations \in Nat
  /\ MaybeGuarded \subseteq Names

VARIABLES approval, \* tools whose configuration says RequiresApproval
          cpc,
          request,  \* the definition of Target the request carries, or None
          vt,       \* the validated tool
          calls,    \* tool calls of the last completion
          results,  \* results of this round
          iter,     \* iterations of the loop
          reply     \* how the request was answered

chat == <<cpc, request, vt, calls, results, iter, reply>>
vars == <<registry, executor, approval, chat>>

CSteps == {"new", "validating", "model", "dispatch", "resolving", "executing", "done"}
Replies == {"none", "not_found", "mismatch", "error", "stop", "max_iterations"}
Completions == UNION {[1..k -> Names] : k \in 0..MaxCalls}
Results == Errors \cup {"ok", "mismatch", "approval"}

TypeOK ==
  /\ RegistryTypeOK
  /\ ExecutorTypeOK
  /\ approval \subseteq Names
  /\ cpc \in [Callers -> CSteps]
  /\ request \in [Callers -> Defs \cup {None}]
  /\ vt \in [Callers -> Rows \cup {None}]
  /\ calls \in [Callers -> Completions]
  /\ \A c \in Callers : results[c] \in Seq([round : Nat, call : Nat, result : Results])
  /\ iter \in [Callers -> 0..MaxIterations]
  /\ reply \in [Callers -> Replies]

Init ==
  /\ RegistryInit
  /\ ExecutorInit
  /\ approval \in SUBSET MaybeGuarded
  /\ cpc = [c \in Callers |-> "new"]
  /\ request = [c \in Callers |-> None]
  /\ vt = [c \in Callers |-> None]
  /\ calls = [c \in Callers |-> <<>>]
  /\ results = [c \in Callers |-> <<>>]
  /\ iter = [c \in Callers |-> 0]
  /\ reply = [c \in Callers |-> "none"]

CGoto(c, step) == cpc' = [cpc EXCEPT ![c] = step]

Answer(c, r) ==
  /\ reply' = [reply EXCEPT ![c] = r]
  /\ CGoto(c, "done")

-----------------------------------------------------------------------------
\* A request without function tools is not validated.
convertToUsecaseRequest(c) ==
  \/ CGoto(c, "model") /\ UNCHANGED <<registry, request>>
  \/ /\ \E d \in Defs : request' = [request EXCEPT ![c] = d]
     /\ BeginLookup(c, Target)
     /\ CGoto(c, "validating")

ChatCompletions(c) ==
  /\ cpc[c] = "new"
  /\ "read" \in roles[c]
  /\ convertToUsecaseRequest(c)
  /\ UNCHANGED <<executor, approval, vt, calls, results, iter, reply>>

\* The client's definition must have the hash of the registry's; what goes on is the
\* registry's row with its limits.
validateTools(c) ==
  /\ cpc[c] = "validating"
  /\ EndLookup(c)
  /\ LET def == got[c]
     IN IF def = None \/ ~def.active
        THEN Answer(c, "not_found") /\ UNCHANGED vt
        ELSE IF ComputeHash(Target, def) # ComputeHash(Target, [def EXCEPT !.def = request[c]])
        THEN Answer(c, "mismatch") /\ UNCHANGED vt
        ELSE /\ vt' = [vt EXCEPT ![c] = def]
             /\ CGoto(c, "model")
             /\ UNCHANGED reply
  /\ UNCHANGED <<executor, approval, request, calls, results, iter>>

\* Mutant: toolResults is declared outside the loop.
AfterCompletion_KeepsResults(c, next) ==
  IF next = <<>> \/ iter[c] >= MaxIterations
  THEN /\ Answer(c, IF iter[c] >= MaxIterations THEN "max_iterations" ELSE "stop")
       /\ UNCHANGED <<iter, results>>
  ELSE /\ iter' = [iter EXCEPT ![c] = @ + 1]
       /\ CGoto(c, "dispatch")
       /\ UNCHANGED <<reply, results>>

\* Mutant: a round in which no tool ran is not counted.
AfterCompletion_Uncounted(c, next) ==
  IF next = <<>> \/ iter[c] >= MaxIterations
  THEN /\ Answer(c, IF iter[c] >= MaxIterations THEN "max_iterations" ELSE "stop")
       /\ UNCHANGED <<iter, results>>
  ELSE /\ iter' = [iter EXCEPT ![c] = IF vt[c] = None THEN @ ELSE @ + 1]
       /\ results' = [results EXCEPT ![c] = <<>>]
       /\ CGoto(c, "dispatch")
       /\ UNCHANGED reply

\* The head of the loop.
AfterCompletion(c, next) ==
  IF next = <<>> \/ iter[c] >= MaxIterations
  THEN /\ Answer(c, IF iter[c] >= MaxIterations THEN "max_iterations" ELSE "stop")
       /\ UNCHANGED <<iter, results>>
  ELSE /\ iter' = [iter EXCEPT ![c] = @ + 1]
       /\ results' = [results EXCEPT ![c] = <<>>]
       /\ CGoto(c, "dispatch")
       /\ UNCHANGED reply

\* ExecuteWithFallback answers with a completion or fails.
Complete(c) ==
  /\ cpc[c] = "model"
  /\ \/ \E next \in Completions : /\ calls' = [calls EXCEPT ![c] = next]
                                  /\ AfterCompletion(c, next)
     \/ Answer(c, "error") /\ UNCHANGED <<calls, iter, results>>
  /\ UNCHANGED <<registry, executor, approval, request, vt>>

Record(c, r) ==
  results' = [results EXCEPT ![c] = Append(@, [round |-> iter[c], call |-> Len(@) + 1, result |-> r])]

NextCall(c) == calls[c][Len(results[c]) + 1]

\* The results of the round, and of no earlier one, go to the model.
feedToolResultsAndRecall(c) == CGoto(c, "model") /\ UNCHANGED <<registry, results>>

\* The next tool call of the round, or the next completion when there is none.  A
\* call outside the set of validated tools is answered without a look-up.
Dispatch(c) ==
  /\ cpc[c] = "dispatch"
  /\ IF Len(results[c]) = Len(calls[c])
     THEN feedToolResultsAndRecall(c)
     ELSE IF vt[c] = None \/ NextCall(c) # Target
     THEN Record(c, "not_found") /\ UNCHANGED <<registry, cpc>>
     ELSE BeginLookup(c, Target) /\ CGoto(c, "resolving") /\ UNCHANGED results
  /\ UNCHANGED <<executor, approval, request, vt, calls, iter, reply>>

\* Mutant: the tool is not looked up again.
Refusal_Trusting(c) == IF Target \in approval THEN "approval" ELSE "none"

\* Why a validated tool is not executed after all, or "none".
Refusal(c) ==
  CASE got[c] = None -> "not_found"
    [] got[c] # None /\ ComputeHash(Target, got[c]) # ComputeHash(Target, vt[c]) -> "mismatch"
    [] got[c] # None /\ ComputeHash(Target, got[c]) = ComputeHash(Target, vt[c]) ->
         IF ~got[c].active THEN "not_found" ELSE IF Target \in approval THEN "approval" ELSE "none"

\* The limits of the execution are those found at the validation.
Resolve(c) ==
  /\ cpc[c] = "resolving"
  /\ EndLookup(c)
  /\ IF Refusal(c) # "none"
     THEN Record(c, Refusal(c)) /\ CGoto(c, "dispatch") /\ UNCHANGED executor
     ELSE BeginExecute(c, Target, vt[c].lim) /\ CGoto(c, "executing") /\ UNCHANGED results
  /\ UNCHANGED <<approval, request, vt, calls, iter, reply>>

Executed(c) ==
  /\ cpc[c] = "executing"
  /\ EndExecute(c)
  /\ Record(c, result[c])
  /\ CGoto(c, "dispatch")
  /\ UNCHANGED <<registry, approval, request, vt, calls, iter, reply>>

ChatStep(c) ==
  \/ ChatCompletions(c) \/ validateTools(c) \/ Complete(c) \/ Dispatch(c) \/ Resolve(c)
  \/ Executed(c)

-----------------------------------------------------------------------------
Administer(p) ==
  /\ Endpoint(p)
  /\ UNCHANGED <<executor, approval, chat>>

Work(p) == RegistryStep(p) /\ UNCHANGED <<executor, approval, chat>>

Execute(c) == ExecutorStep(c) /\ UNCHANGED <<registry, approval, chat>>

ExpireEntry == (\E n \in Names : Expire(n)) /\ UNCHANGED <<executor, approval, chat>>

\* Nothing is left to do.
Finished ==
  /\ \A p \in Procs : pc[p] = "idle"
  /\ \A c \in Callers : cpc[c] \in {"new", "done"}
  /\ UNCHANGED vars

Next ==
  \/ \E p \in Procs : Administer(p) \/ Work(p)
  \/ \E c \in Callers : ChatStep(c) \/ Execute(c)
  \/ ExpireEntry
  \/ Finished

\* The goroutines and the database are scheduled fairly, the timeouts of a provider, of
\* the pool and of a call pass, and so does the time to live of an entry.
Fairness ==
  /\ \A p \in Procs : WF_vars(Progress(p) /\ UNCHANGED <<executor, approval, chat>>)
  /\ \A c \in Callers : /\ WF_vars(ChatStep(c) /\ cpc[c] # "new")
                        /\ WF_vars(Execute(c))
  /\ WF_vars(ExpireEntry)

Spec == Init /\ [][Next]_vars /\ Fairness

-----------------------------------------------------------------------------
\* Whatever is executed was authorised and can be accounted for: it is the definition
\* the client sent and the look-up made for this execution still gave, it needs no
\* approval, and it runs under limits that an event of the
\* audit log gave this very definition (validateTools, the re-resolution and the hash
\* comparison of executeToolLoop).
ExecutionsAccountable ==
  \A c \in Callers : xpc[c] = "run" =>
    /\ vt[c] # None
    /\ vt[c].def = request[c]
    /\ got[c] # None /\ got[c].active /\ got[c].def = request[c]
    /\ call[c] = [tool |-> Target, lim |-> vt[c].lim]
    /\ Target \notin approval
    /\ \E i \in DOMAIN audit : Accounts(audit[i], Target, vt[c])

\* The model is called again only when every tool call of its last completion has its
\* result of this round, in order (each branch of executeToolLoop appends one); and a
\* client that is answered with tool calls nobody ran is told that the iterations were
\* used up (the finish reason set after the loop).
CallsAnswered ==
  \A c \in Callers :
    /\ cpc[c] = "model" =>
         /\ Len(results[c]) = Len(calls[c])
         /\ \A i \in DOMAIN results[c] : results[c][i].round = iter[c] /\ results[c][i].call = i
    /\ reply[c] = "stop" => calls[c] = <<>>

\* Every request that was begun is answered, however the registry changes meanwhile and
\* however the executions end; the loop is bounded and no lock is held for ever.
ChatsEnd == \A c \in Callers : cpc[c] # "new" ~> cpc[c] = "done"
=============================================================================
