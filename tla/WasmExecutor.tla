----------------------------- MODULE WasmExecutor -----------------------------
(***************************************************************************)
(* The WebAssembly tool executor of internal/adapter/tool/wazero/           *)
(* executor.go: limits taken from the registry, a pool of runtimes for each *)
(* memory bucket, modules compiled on first use for each runtime, and a new *)
(* instance for each call.  A caller runs one call at a time.               *)
(***************************************************************************)
EXTENDS Naturals, Sequences, FiniteSets

CONSTANTS Callers,
          Tools,              \* the names of config.Tools
          Requested,          \* limits of the validated tools, with 0 for unset ones
          RuntimesPerBucket,  \* MaxRuntimesPerBucket
          CeilingTimeout,     \* config.DefaultTimeoutMs, 0 if not set
          CeilingPages,       \* config.DefaultMemoryPages, 0 if not set
          Nobody

MinTimeoutMs == 1
MaxTimeoutMs == 300000
MemoryBuckets == <<256, 512, 1024, 2048>>
Buckets == {MemoryBuckets[i] : i \in DOMAIN MemoryBuckets}
Runtimes == Buckets \X (1..RuntimesPerBucket)

ASSUME ExecutorConstants ==
  /\ RuntimesPerBucket \in Nat \ {0}
  /\ CeilingTimeout \in Nat
  /\ CeilingPages \in Nat
  /\ \A l \in Requested : l.timeout \in Nat /\ l.pages \in Nat
  /\ Nobody \notin Callers
  /\ Nobody \notin Runtimes

VARIABLES available,  \* the channel of each pool
          compiled,   \* the tools compiled on each runtime
          instances,  \* module instances alive on each runtime, by caller
          compiling,  \* who holds compileMu
          xpc,        \* where each caller is in Execute
          call,       \* its tool and the validated tool's limits
          runtime,    \* the runtime it holds
          result      \* what Execute returned

executor == <<available, compiled, instances, compiling, xpc, call, runtime, result>>

Errors == {"not_found", "no_limits", "exhausted", "cancelled", "compile_failed",
           "instantiation_failed", "execution_failed"}
XSteps == {"out", "limits", "acquire", "check", "compile", "instantiate", "run", "close",
           "release", "returned"}
NoCall == [tool |-> Nobody, lim |-> [timeout |-> 0, pages |-> 0]]

ExecutorTypeOK ==
  /\ available \in [Buckets -> Seq(Runtimes)]
  /\ compiled \in [Runtimes -> SUBSET Tools]
  /\ instances \in [Runtimes -> SUBSET (Callers \X Tools)]
  /\ compiling \in Callers \cup {Nobody}
  /\ xpc \in [Callers -> XSteps]
  /\ runtime \in [Callers -> Runtimes \cup {Nobody}]
  /\ result \in [Callers -> Errors \cup {"none", "ok"}]

\* NewWasmExecutor: every pool is filled with its runtimes.
ExecutorInit ==
  /\ available = [b \in Buckets |-> [i \in 1..RuntimesPerBucket |-> <<b, i>>]]
  /\ compiled = [r \in Runtimes |-> {}]
  /\ instances = [r \in Runtimes |-> {}]
  /\ compiling = Nobody
  /\ xpc = [c \in Callers |-> "out"]
  /\ call = [c \in Callers |-> NoCall]
  /\ runtime = [c \in Callers |-> Nobody]
  /\ result = [c \in Callers |-> "none"]

XGoto(c, step) == xpc' = [xpc EXCEPT ![c] = step]

-----------------------------------------------------------------------------
(* The limits.                                                              *)

Lesser(a, b) == IF a < b THEN a ELSE b
Greater(a, b) == IF a > b THEN a ELSE b

\* Mutant: the configured value is a fallback, not a ceiling.
getExecutionTimeout_Fallback(lim) ==
  IF lim.timeout = 0 THEN CeilingTimeout
  ELSE Lesser(Greater(lim.timeout, MinTimeoutMs), MaxTimeoutMs)

\* 0 when the registry sets none; the configured value is a ceiling.
getExecutionTimeout(lim) ==
  IF lim.timeout = 0 THEN 0
  ELSE LET t == IF CeilingTimeout > 0 THEN Lesser(lim.timeout, CeilingTimeout) ELSE lim.timeout
       IN Lesser(Greater(t, MinTimeoutMs), MaxTimeoutMs)

\* The least bucket that holds the pages, the largest one when none does.
RoundUp(pages) ==
  IF \A b \in Buckets : b < pages THEN MemoryBuckets[Len(MemoryBuckets)]
  ELSE CHOOSE b \in Buckets : pages <= b /\ \A a \in Buckets : pages <= a => b <= a

getMemoryBucketFromValidated(lim) ==
  IF lim.pages = 0 THEN 0
  ELSE RoundUp(IF CeilingPages > 0 THEN Lesser(lim.pages, CeilingPages) ELSE lim.pages)

BucketOf(c) == getMemoryBucketFromValidated(call[c].lim)

-----------------------------------------------------------------------------
(* Execute.                                                                 *)

BeginExecute(c, tool, lim) ==
  /\ xpc[c] = "out"
  /\ call' = [call EXCEPT ![c] = [tool |-> tool, lim |-> lim]]
  /\ result' = [result EXCEPT ![c] = "none"]
  /\ XGoto(c, "limits")
  /\ UNCHANGED <<available, compiled, instances, compiling, runtime>>

Return(c, r) ==
  /\ result' = [result EXCEPT ![c] = r]
  /\ XGoto(c, "returned")

\* The tool's configuration, then its limits: without them the call is refused.
ResolveLimits(c) ==
  /\ xpc[c] = "limits"
  /\ LET lim == call[c].lim
     IN IF call[c].tool \notin Tools THEN Return(c, "not_found")
        ELSE IF getExecutionTimeout(lim) = 0 \/ getMemoryBucketFromValidated(lim) = 0
        THEN Return(c, "no_limits")
        ELSE XGoto(c, "acquire") /\ UNCHANGED result
  /\ UNCHANGED <<available, compiled, instances, compiling, call, runtime>>

acquireRuntime(c) ==
  /\ xpc[c] = "acquire"
  /\ available[BucketOf(c)] # <<>>
  /\ runtime' = [runtime EXCEPT ![c] = Head(available[BucketOf(c)])]
  /\ available' = [available EXCEPT ![BucketOf(c)] = Tail(@)]
  /\ XGoto(c, "check")
  /\ UNCHANGED <<compiled, instances, compiling, call, result>>

\* Five seconds without a runtime; or the request's context is done, which a ready
\* runtime does not outrun.
GiveUp(c) ==
  /\ xpc[c] = "acquire"
  /\ \/ available[BucketOf(c)] = <<>> /\ Return(c, "exhausted")
     \/ Return(c, "cancelled")
  /\ UNCHANGED <<available, compiled, instances, compiling, call, runtime>>

\* The deferred releaseRuntime; "r" is what Execute is about to return.
Unwind(c, step, r) ==
  /\ result' = [result EXCEPT ![c] = r]
  /\ XGoto(c, step)

\* getOrCompileModule: look up under the read lock, else compile under the write
\* lock.  The key names the runtime, which c holds alone, so that the second look
\* finds nothing either.
CheckCompiled(c) ==
  /\ xpc[c] = "check"
  /\ compiling = Nobody
  /\ IF call[c].tool \in compiled[runtime[c]]
     THEN XGoto(c, "instantiate") /\ UNCHANGED compiling
     ELSE XGoto(c, "compile") /\ compiling' = c
  /\ UNCHANGED <<available, compiled, instances, call, runtime, result>>

Compile(c) ==
  /\ xpc[c] = "compile"
  /\ compiling' = Nobody
  /\ \/ /\ compiled' = [compiled EXCEPT ![runtime[c]] = @ \cup {call[c].tool}]
        /\ XGoto(c, "instantiate")
        /\ UNCHANGED result
     \/ Unwind(c, "release", "compile_failed") /\ UNCHANGED compiled
  /\ UNCHANGED <<available, instances, call, runtime>>

\* A second instance of the same name on a runtime is refused; memory the module
\* needs beyond the bucket, or an expired context, too.
Instantiate(c) ==
  /\ xpc[c] = "instantiate"
  /\ \/ /\ \A i \in instances[runtime[c]] : i[2] # call[c].tool
        /\ instances' = [instances EXCEPT ![runtime[c]] = @ \cup {<<c, call[c].tool>>}]
        /\ XGoto(c, "run")
        /\ UNCHANGED result
     \/ Unwind(c, "release", "instantiation_failed") /\ UNCHANGED instances
  /\ UNCHANGED <<available, compiled, compiling, call, runtime>>

\* The call ends by itself, by a trap, or when its timeout closes the module; a
\* module without an execute function ends in the same error.
Run(c) ==
  /\ xpc[c] = "run"
  /\ \E r \in {"ok", "execution_failed"} : Unwind(c, "close", r)
  /\ UNCHANGED <<available, compiled, instances, compiling, call, runtime>>

\* Deferred calls run in reverse: the instance is closed before the runtime goes back.
CloseInstance(c) ==
  /\ xpc[c] = "close"
  /\ instances' = [instances EXCEPT ![runtime[c]] = @ \ {<<c, call[c].tool>>}]
  /\ XGoto(c, "release")
  /\ UNCHANGED <<available, compiled, compiling, call, runtime, result>>

\* Mutant: the runtime of a call that failed is not given back.
releaseRuntime_OnSuccess(c) ==
  /\ xpc[c] = "release"
  /\ LET b == runtime[c][1]
     IN available' = IF result[c] = "ok" THEN [available EXCEPT ![b] = Append(@, runtime[c])]
                     ELSE available
  /\ runtime' = [runtime EXCEPT ![c] = Nobody]
  /\ XGoto(c, "returned")
  /\ UNCHANGED <<compiled, instances, compiling, call, result>>

\* A send that does not block: a full channel would lose the runtime.
releaseRuntime(c) ==
  /\ xpc[c] = "release"
  /\ LET b == runtime[c][1]
     IN available' = IF Len(available[b]) < RuntimesPerBucket
                     THEN [available EXCEPT ![b] = Append(@, runtime[c])]
                     ELSE available
  /\ runtime' = [runtime EXCEPT ![c] = Nobody]
  /\ XGoto(c, "returned")
  /\ UNCHANGED <<compiled, instances, compiling, call, result>>

EndExecute(c) ==
  /\ xpc[c] = "returned"
  /\ XGoto(c, "out")
  /\ UNCHANGED <<available, compiled, instances, compiling, call, runtime, result>>

ExecutorStep(c) ==
  \/ ResolveLimits(c) \/ acquireRuntime(c) \/ GiveUp(c) \/ CheckCompiled(c) \/ Compile(c)
  \/ Instantiate(c) \/ Run(c) \/ CloseInstance(c) \/ releaseRuntime(c)

ExecutorNext ==
  \E c \in Callers : \/ ExecutorStep(c) \/ EndExecute(c)
                     \/ \E tool \in Tools, lim \in Requested : BeginExecute(c, tool, lim)

\* The executor by itself, with any calls.
ExecutorSpec == ExecutorInit /\ [][ExecutorNext]_executor

-----------------------------------------------------------------------------
\* No runtime is lost and none is in two places (releaseRuntime runs on every path out
\* of Execute and its send never finds the channel full): each is in its pool's channel
\* once, or with exactly one caller.  An instance lives only while its caller holds the
\* runtime (mod.Close runs before releaseRuntime), so that a call never finds the name
\* of its module taken.
Holders(r) == {c \in Callers : runtime[c] = r}

RuntimesConserved ==
  /\ \A r \in Runtimes :
       /\ Cardinality({i \in DOMAIN available[r[1]] : available[r[1]][i] = r})
            + Cardinality(Holders(r)) = 1
       /\ \A i \in instances[r] : runtime[i[1]] = r
  /\ \A c \in Callers : xpc[c] = "instantiate" => instances[runtime[c]] = {}

\* A call runs on a runtime of its registry limits' bucket with a module compiled there
\* (CompileCacheKey names the runtime): the timeout is at most the registry's and the
\* configured one, and the memory at least what was asked up to the ceiling.
RunsWithinLimits ==
  \A c \in Callers : xpc[c] = "run" =>
    LET lim == call[c].lim
        t == getExecutionTimeout(lim)
        asked == IF CeilingPages = 0 THEN lim.pages ELSE Lesser(lim.pages, CeilingPages)
    IN /\ call[c].tool \in compiled[runtime[c]]
       /\ 0 < t /\ t <= lim.timeout /\ t <= MaxTimeoutMs
       /\ CeilingTimeout > 0 => t <= CeilingTimeout
       /\ asked > 0
       /\ runtime[c][1] >= Lesser(asked, 2048)
       /\ \A b \in Buckets : b < runtime[c][1] => b < asked
=============================================================================
