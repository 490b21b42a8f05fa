------------------------------ MODULE ToolProofs ------------------------------
(***************************************************************************)
(* Proofs about the two components below the chat loop.  The executor, for  *)
(* any number of callers, runtimes, tools and limits: no runtime is lost or *)
(* shared, and each call runs within the limits it was given.  The tool     *)
(* registry, for any number of processes, tools, definitions, limits and    *)
(* operations: its audit log and its cache.                                 *)
(***************************************************************************)
EXTENDS WasmExecutor, ToolRegistry, FiniteSetTheorems, TLAPS

-----------------------------------------------------------------------------
(* The limits *)

\* The pools of NewWasmExecutor.
LEMMA BucketSizes == Buckets = {256, 512, 1024, 2048} /\ MemoryBuckets[Len(MemoryBuckets)] = 2048
<1>1. DOMAIN MemoryBuckets = 1..4 /\ Len(MemoryBuckets) = 4
  BY DEF MemoryBuckets
<1>2. /\ MemoryBuckets[1] = 256 /\ MemoryBuckets[2] = 512
      /\ MemoryBuckets[3] = 1024 /\ MemoryBuckets[4] = 2048
  BY Zenon DEF MemoryBuckets
<1>. QED
  BY <1>1, <1>2 DEF Buckets

\* Rounding up gives a bucket that holds the pages, or the largest one, and
\* no smaller bucket would do.
LEMMA RoundUpFits ==
  ASSUME NEW pages \in Nat
  PROVE  /\ RoundUp(pages) \in Buckets
         /\ RoundUp(pages) >= Lesser(pages, 2048)
         /\ \A b \in Buckets : b < RoundUp(pages) => b < pages
<1>1. CASE \A b \in Buckets : b < pages
  BY <1>1, BucketSizes DEF RoundUp, Lesser
<1>2. CASE ~ \A b \in Buckets : b < pages
  <2> DEFINE Least(b) == pages <= b /\ \A a \in Buckets : pages <= a => b <= a
  <2>1. \E b \in Buckets : Least(b)
    BY <1>2, BucketSizes
  <2>2. RoundUp(pages) = CHOOSE b \in Buckets : Least(b)
    BY Zenon, <1>2 DEF RoundUp
  <2>3. RoundUp(pages) \in Buckets /\ Least(RoundUp(pages))
    BY Zenon, <2>1, <2>2
  <2>. QED
    BY <2>3, BucketSizes DEF Lesser
<1>. QED
  BY Zenon, <1>1, <1>2

\* The pages an execution asks for, and the bucket it gets.
Asked(lim) == IF CeilingPages = 0 THEN lim.pages ELSE Lesser(lim.pages, CeilingPages)

\* The bucket chosen is the least that holds what was asked, up to the largest.
LEMMA BucketFits ==
  ASSUME NEW lim, lim.pages \in Nat, getMemoryBucketFromValidated(lim) # 0
  PROVE  /\ getMemoryBucketFromValidated(lim) \in Buckets
         /\ Asked(lim) > 0
         /\ getMemoryBucketFromValidated(lim) >= Lesser(Asked(lim), 2048)
         /\ \A b \in Buckets : b < getMemoryBucketFromValidated(lim) => b < Asked(lim)
<1>1. CeilingPages \in Nat /\ lim.pages # 0
  BY Zenon, ExecutorConstants DEF getMemoryBucketFromValidated
<1>2. Asked(lim) \in Nat /\ Asked(lim) > 0
  BY <1>1 DEF Asked, Lesser
<1>3. getMemoryBucketFromValidated(lim) = RoundUp(Asked(lim))
  BY <1>1 DEF getMemoryBucketFromValidated, Asked
<1>. QED
  BY <1>2, <1>3, RoundUpFits

\* A timeout that is set is within the registry's, the configured one and the
\* largest one.
LEMMA TimeoutFits ==
  ASSUME NEW lim, lim.timeout \in Nat, getExecutionTimeout(lim) # 0
  PROVE  /\ 0 < getExecutionTimeout(lim)
         /\ getExecutionTimeout(lim) <= lim.timeout
         /\ getExecutionTimeout(lim) <= MaxTimeoutMs
         /\ CeilingTimeout > 0 => getExecutionTimeout(lim) <= CeilingTimeout
  BY ExecutorConstants DEF getExecutionTimeout, Lesser, Greater, MinTimeoutMs, MaxTimeoutMs

-----------------------------------------------------------------------------
(* The executor *)

\* The steps in which a call holds a runtime.
Holding == {"check", "compile", "instantiate", "run", "close", "release"}

\* The types of the executor.
ExecTypes ==
  /\ available \in [Buckets -> Seq(Runtimes)]
  /\ compiled \in [Runtimes -> SUBSET Tools]
  /\ instances \in [Runtimes -> SUBSET (Callers \X Tools)]
  /\ xpc \in [Callers -> XSteps]
  /\ DOMAIN call = Callers
  /\ runtime \in [Callers -> Runtimes \cup {Nobody}]

\* A runtime is in some channel.
InPool(r) == \E b \in Buckets : \E i \in 1..Len(available[b]) : available[b][i] = r

\* A channel holds runtimes of its bucket, each once.
PoolsSound ==
  \A b \in Buckets : \A i \in 1..Len(available[b]) :
    /\ available[b][i][1] = b
    /\ \A j \in 1..Len(available[b]) : available[b][i] = available[b][j] => i = j

\* Callers between acquireRuntime and releaseRuntime, and no others, have a runtime,
\* which nobody else has; and every runtime is somewhere.
HeldOnce ==
  /\ \A c \in Callers : xpc[c] \in Holding <=> runtime[c] # Nobody
  /\ \A c \in Callers : runtime[c] # Nobody =>
       ~InPool(runtime[c]) /\ \A d \in Callers : runtime[d] = runtime[c] => d = c
  /\ \A r \in Runtimes : InPool(r) \/ \E c \in Callers : runtime[c] = r

\* An instance belongs to a call that is running or about to close it.
InstancesOwned ==
  \A r \in Runtimes : \A i \in instances[r] :
    xpc[i[1]] \in {"run", "close"} /\ runtime[i[1]] = r /\ i[2] = call[i[1]].tool

\* The limits of a call are numbers, they were not 0 when it went past the check,
\* and it holds a runtime of their bucket, on which its tool is compiled.
CallsSound ==
  \A c \in Callers :
    /\ xpc[c] # "out" => call[c].lim.timeout \in Nat /\ call[c].lim.pages \in Nat
    /\ xpc[c] \in Holding \cup {"acquire"} =>
         /\ call[c].tool \in Tools
         /\ getExecutionTimeout(call[c].lim) # 0
         /\ BucketOf(c) # 0
    /\ xpc[c] \in Holding => runtime[c][1] = BucketOf(c)
    /\ xpc[c] \in {"instantiate", "run"} => call[c].tool \in compiled[runtime[c]]

\* The inductive invariant of the executor.
ExecInv == ExecTypes /\ PoolsSound /\ HeldOnce /\ InstancesOwned /\ CallsSound

USE DEF XGoto

\* An injection goes into no smaller set.
LEMMA Crowded ==
  ASSUME NEW S, IsFiniteSet(S), NEW T, IsFiniteSet(T), NEW g \in [S -> T],
         \A x, y \in S : g[x] = g[y] => x = y
  PROVE  ~(Cardinality(T) < Cardinality(S))
<1>. SUFFICES ASSUME Cardinality(T) < Cardinality(S) PROVE FALSE
  BY Zenon
<1>1. \E x, y \in S : x # y /\ g[x] = g[y]
  BY FS_PigeonHole
<1>. QED  BY Zenon, <1>1

\* The pools are full and nobody calls.
LEMMA ExecInvInit == ExecutorInit => ExecInv
<1>. SUFFICES ASSUME ExecutorInit PROVE ExecInv
  BY Zenon
<1>1. RuntimesPerBucket \in Nat
  BY Zenon, ExecutorConstants
<1>2. \A b \in Buckets : available[b] \in [1..RuntimesPerBucket -> Runtimes]
  BY Zenon DEF ExecutorInit, Runtimes
<1>3. \A b \in Buckets : /\ available[b] \in Seq(Runtimes)
                         /\ Len(available[b]) = RuntimesPerBucket
  BY <1>1, <1>2
<1>4. \A b \in Buckets : \A i \in 1..RuntimesPerBucket : available[b][i] = <<b, i>>
  BY Zenon DEF ExecutorInit
<1>5. ExecTypes
  BY Zenon, <1>3 DEF ExecutorInit, ExecTypes, XSteps
<1>6. PoolsSound
  BY <1>3, <1>4 DEF PoolsSound
<1>7. \A r \in Runtimes : InPool(r)
  BY <1>3, <1>4 DEF InPool, Runtimes
<1>8. HeldOnce
  BY Zenon, <1>7 DEF HeldOnce, ExecutorInit, Holding
<1>9. InstancesOwned /\ CallsSound
  BY Zenon DEF InstancesOwned, CallsSound, ExecutorInit, Holding
<1>. QED
  BY Zenon, <1>5, <1>6, <1>8, <1>9 DEF ExecInv

\* The numbers from 1 to n are n numbers.
LEMMA CountTo ==
  ASSUME NEW n \in Nat
  PROVE  IsFiniteSet(1..n) /\ Cardinality(1..n) = n
<1>1. 1 \in Int /\ n \in Int /\ (IF 1 > n THEN 0 ELSE n - 1 + 1) = n
  OBVIOUS
<1>. QED  BY Zenon, <1>1, FS_Interval

\* A channel has room for a runtime that a caller holds: the runtimes in it are
\* of its bucket, all different and not that one.
LEMMA RoomForHeld ==
  ASSUME ExecInv, NEW c \in Callers, runtime[c] # Nobody
  PROVE  /\ runtime[c] \in Runtimes /\ runtime[c][1] \in Buckets
         /\ Len(available[runtime[c][1]]) < RuntimesPerBucket
<1> DEFINE b == runtime[c][1]
           n == Len(available[b])
           N == RuntimesPerBucket
           f == [i \in 1..(n + 1) |-> IF i = n + 1 THEN runtime[c][2] ELSE available[b][i][2]]
<1>1. runtime[c] \in Runtimes /\ b \in Buckets /\ runtime[c][2] \in 1..N
  BY Zenon DEF ExecInv, ExecTypes, Runtimes
<1>2. n \in Nat /\ N \in Nat /\ \A i \in 1..n : available[b][i] \in Runtimes
  BY <1>1, ExecutorConstants DEF ExecInv, ExecTypes
<1>3. \A i \in 1..n : available[b][i] = <<b, available[b][i][2]>> /\ available[b][i][2] \in 1..N
  BY <1>1, <1>2 DEF ExecInv, PoolsSound, Runtimes
<1>4. runtime[c] = <<b, runtime[c][2]>>
  BY <1>1 DEF Runtimes
<1>5. \A i \in 1..n : available[b][i] # runtime[c]
  BY Zenon, <1>1 DEF ExecInv, HeldOnce, InPool
<1>6. \A i, j \in 1..n : available[b][i] = available[b][j] => i = j
  BY Zenon, <1>1 DEF ExecInv, PoolsSound
<1> HIDE DEF b, n, N
<1>7. f \in [1..(n + 1) -> 1..N]
  BY <1>1, <1>2, <1>3
<1>8. \A i, j \in 1..(n + 1) : f[i] = f[j] => i = j
  <2>. SUFFICES ASSUME NEW i \in 1..(n + 1), NEW j \in 1..(n + 1), f[i] = f[j] PROVE i = j
    BY Zenon
  <2>1. CASE i \in 1..n /\ j \in 1..n
    <3>1. f[i] = available[b][i][2] /\ f[j] = available[b][j][2]
      BY <1>2, <2>1
    <3>2. available[b][i] = available[b][j]
      BY Zenon, <1>3, <2>1, <3>1
    <3>. QED  BY Zenon, <1>6, <2>1, <3>2
  <2>2. CASE i \in 1..n /\ j = n + 1
    <3>1. f[i] = available[b][i][2] /\ f[j] = runtime[c][2]
      BY <1>2, <2>2
    <3>2. available[b][i] = runtime[c]
      BY Zenon, <1>3, <1>4, <2>2, <3>1
    <3>. QED  BY Zenon, <1>5, <2>2, <3>2
  <2>3. CASE i = n + 1 /\ j \in 1..n
    <3>1. f[j] = available[b][j][2] /\ f[i] = runtime[c][2]
      BY <1>2, <2>3
    <3>2. available[b][j] = runtime[c]
      BY Zenon, <1>3, <1>4, <2>3, <3>1
    <3>. QED  BY Zenon, <1>5, <2>3, <3>2
  <2>. QED  BY <1>2, <2>1, <2>2, <2>3
<1> HIDE DEF f
<1>9. /\ IsFiniteSet(1..(n + 1)) /\ Cardinality(1..(n + 1)) = n + 1
      /\ IsFiniteSet(1..N) /\ Cardinality(1..N) = N
  <2>1. n + 1 \in Nat
    BY <1>2
  <2>. QED  BY Zenon, <1>2, <2>1, CountTo
<1>10. n + 1 <= N
  <2>1. ~(Cardinality(1..N) < Cardinality(1..(n + 1)))
    BY Zenon, <1>7, <1>8, <1>9, Crowded
  <2>. QED  BY <1>2, <1>9, <2>1
<1>. QED
  BY <1>1, <1>2, <1>10 DEF b, n, N

\* The call of a caller that has passed the check of the limits has a pool.
LEMMA CallHasBucket ==
  ASSUME ExecInv, NEW c \in Callers, xpc[c] \in Holding \cup {"acquire"}
  PROVE  BucketOf(c) \in Buckets
<1>1. call[c].lim.pages \in Nat /\ BucketOf(c) # 0
  BY Zenon DEF ExecInv, CallsSound, Holding
<1>. QED
  BY <1>1, BucketFits DEF BucketOf

\* A step that moves one caller, to a place with the same claim to a runtime,
\* leaves the pools and the holders as they are.
LEMMA PoolsUnmoved ==
  ASSUME ExecInv, NEW c \in Callers, NEW step, step \in Holding <=> xpc[c] \in Holding,
         xpc' = [xpc EXCEPT ![c] = step], UNCHANGED <<available, runtime>>
  PROVE  PoolsSound' /\ HeldOnce'
  BY DEF ExecInv, ExecTypes, PoolsSound, HeldOnce, InPool

\* Execute is called.
LEMMA BeginKeeps ==
  ASSUME ExecInv, NEW c \in Callers, NEW tool, NEW lim, BeginExecute(c, tool, lim),
         lim.timeout \in Nat, lim.pages \in Nat
  PROVE  ExecInv'
<1>1. ExecTypes'
  BY Zenon DEF BeginExecute, ExecInv, ExecTypes, XSteps
<1>2. PoolsSound' /\ HeldOnce'
  BY Zenon, PoolsUnmoved DEF BeginExecute, Holding
<1>3. InstancesOwned'
  BY DEF BeginExecute, ExecInv, ExecTypes, InstancesOwned
<1>4. CallsSound'
  BY Zenon DEF BeginExecute, ExecInv, ExecTypes, CallsSound, Holding, BucketOf
<1>. QED  BY Zenon, <1>1, <1>2, <1>3, <1>4 DEF ExecInv

\* The limits are found or the call is refused.
LEMMA ResolveLimitsKeeps ==
  ASSUME ExecInv, NEW c \in Callers, ResolveLimits(c)
  PROVE  ExecInv'
<1>1. /\ xpc[c] = "limits" /\ UNCHANGED <<available, compiled, instances, compiling, call, runtime>>
      /\ \/ xpc' = [xpc EXCEPT ![c] = "returned"]
         \/ /\ xpc' = [xpc EXCEPT ![c] = "acquire"]
            /\ call[c].tool \in Tools /\ getExecutionTimeout(call[c].lim) # 0
            /\ getMemoryBucketFromValidated(call[c].lim) # 0
  BY Zenon DEF ResolveLimits, Return
<1>2. ExecTypes'
  BY Zenon, <1>1 DEF ExecInv, ExecTypes, XSteps
<1>3. PoolsSound' /\ HeldOnce'
  BY Zenon, <1>1, PoolsUnmoved DEF Holding
<1>4. InstancesOwned'
  BY <1>1 DEF ExecInv, ExecTypes, InstancesOwned
<1>5. CallsSound'
  BY Zenon, <1>1 DEF ExecInv, ExecTypes, CallsSound, Holding, BucketOf
<1>. QED  BY Zenon, <1>2, <1>3, <1>4, <1>5 DEF ExecInv

\* The caller takes the runtime at the head of its pool's channel.
LEMMA AcquireKeeps ==
  ASSUME ExecInv, NEW c \in Callers, acquireRuntime(c)
  PROVE  ExecInv'
<1> DEFINE b == BucketOf(c)
           s == available[b]
<1>1. b \in Buckets
  BY Zenon, CallHasBucket DEF acquireRuntime
<1>2. s \in Seq(Runtimes) /\ s # <<>>
  BY Zenon, <1>1 DEF acquireRuntime, ExecInv, ExecTypes
<1>3. /\ Head(s) = s[1] /\ s[1] \in Runtimes /\ Len(s) \in Nat \ {0}
      /\ Tail(s) \in Seq(Runtimes) /\ Len(Tail(s)) = Len(s) - 1
      /\ \A i \in 1..(Len(s) - 1) : Tail(s)[i] = s[i + 1]
  BY <1>2
<1>4. \A i \in 1..Len(s) : s[i][1] = b /\ \A j \in 1..Len(s) : s[i] = s[j] => i = j
  BY Zenon, <1>1 DEF ExecInv, PoolsSound
<1>5. \A r : (\E i \in 1..Len(s) : s[i] = r) => InPool(r)
  BY Zenon, <1>1 DEF InPool
<1>6. /\ xpc[c] = "acquire" /\ xpc' = [xpc EXCEPT ![c] = "check"]
      /\ runtime' = [runtime EXCEPT ![c] = s[1]]
      /\ available' = [available EXCEPT ![b] = Tail(s)]
      /\ UNCHANGED <<compiled, instances, compiling, call>>
  BY Zenon, <1>3 DEF acquireRuntime
<1>7. s[1] # Nobody /\ s[1][1] = b /\ runtime[c] = Nobody
  BY <1>1, <1>3, <1>6, ExecutorConstants DEF ExecInv, PoolsSound, HeldOnce, Holding
<1>8. ExecTypes'
  BY Zenon, <1>1, <1>3, <1>6 DEF ExecInv, ExecTypes, XSteps
<1>9. available'[b] = Tail(s) /\ \A a \in Buckets \ {b} : available'[a] = available[a]
  BY Zenon, <1>1, <1>6 DEF ExecInv, ExecTypes
<1> HIDE DEF s, b
<1>10. PoolsSound'
  <2>. SUFFICES ASSUME NEW a \in Buckets, NEW i \in 1..Len(available'[a])
                PROVE  /\ available'[a][i][1] = a
                       /\ \A j \in 1..Len(available'[a]) : available'[a][i] = available'[a][j] => i = j
    BY Zenon DEF PoolsSound
  <2>1. CASE a = b
    <3>1. available'[a] = Tail(s) /\ i \in 1..(Len(s) - 1)
      BY Zenon, <1>3, <1>9, <2>1
    <3>2. \A j \in 1..(Len(s) - 1) : j + 1 \in 1..Len(s) /\ Tail(s)[j] = s[j + 1]
      BY <1>3
    <3>3. s[i + 1][1] = b /\ \A j \in 1..(Len(s) - 1) : s[i + 1] = s[j + 1] => i + 1 = j + 1
      BY Zenon, <1>4, <3>1, <3>2
    <3>4. Len(Tail(s)) = Len(s) - 1
      BY <1>3
    <3>5. ASSUME NEW j \in 1..(Len(s) - 1), Tail(s)[i] = Tail(s)[j] PROVE i = j
      <4>1. i + 1 = j + 1
        BY Zenon, <3>1, <3>2, <3>3, <3>5
      <4>2. i \in Nat /\ j \in Nat
        BY <1>3, <3>1
      <4>. QED  BY ONLY <4>1, <4>2
    <3>6. Tail(s)[i][1] = a
      BY Zenon, <2>1, <3>1, <3>2, <3>3
    <3>. QED  BY Zenon, <3>1, <3>4, <3>5, <3>6
  <2>2. CASE a # b
    BY Zenon, <1>9, <2>2 DEF ExecInv, PoolsSound
  <2>. QED  BY Zenon, <2>1, <2>2
<1>11. \A r : InPool(r)' <=> InPool(r) /\ r # s[1]
  <2>1. \A i \in 2..Len(s) : s[i] # s[1]
    BY <1>3, <1>4
  <2>2. \A a \in Buckets \ {b} : \A i \in 1..Len(available[a]) : available[a][i] # s[1]
    BY <1>7 DEF ExecInv, PoolsSound
  <2>3. ASSUME NEW r, InPool(r)' PROVE InPool(r) /\ r # s[1]
    <3>1. PICK a \in Buckets : \E i \in 1..Len(available'[a]) : available'[a][i] = r
      BY Zenon, <2>3 DEF InPool
    <3>2. CASE a = b
      <4>1. PICK i \in 1..(Len(s) - 1) : Tail(s)[i] = r
        BY Zenon, <1>3, <1>9, <3>1, <3>2
      <4>2. i + 1 \in 2..Len(s) /\ i + 1 \in 1..Len(s) /\ s[i + 1] = r
        BY <1>3, <4>1
      <4>. QED  BY Zenon, <1>5, <2>1, <4>2
    <3>3. CASE a # b
      BY Zenon, <1>9, <2>2, <3>1, <3>3 DEF InPool
    <3>. QED  BY Zenon, <3>2, <3>3
  <2>4. ASSUME NEW r, InPool(r), r # s[1] PROVE InPool(r)'
    <3>1. PICK a \in Buckets : \E i \in 1..Len(available[a]) : available[a][i] = r
      BY Zenon, <2>4 DEF InPool
    <3>2. CASE a = b
      <4>1. PICK i \in 1..Len(s) : s[i] = r
        BY Zenon, <3>1, <3>2 DEF s
      <4>2. i - 1 \in 1..(Len(s) - 1) /\ Tail(s)[i - 1] = r
        BY <1>3, <2>4, <4>1
      <4>. QED  BY Zenon, <1>1, <1>3, <1>9, <4>2 DEF InPool
    <3>3. CASE a # b
      BY Zenon, <1>9, <3>1, <3>3 DEF InPool
    <3>. QED  BY Zenon, <3>2, <3>3
  <2>. QED  BY Zenon, <2>3, <2>4
<1>12. InPool(s[1])
  BY <1>3, <1>5
<1>13. HeldOnce'
  <2>1. runtime'[c] = s[1] /\ \A d \in Callers \ {c} : runtime'[d] = runtime[d] /\ runtime[d] # s[1]
    BY Zenon, <1>6, <1>7, <1>12 DEF ExecInv, ExecTypes, HeldOnce
  <2>2. \A d \in Callers : xpc'[d] \in Holding <=> runtime'[d] # Nobody
    BY Zenon, <1>6, <1>7, <2>1 DEF ExecInv, ExecTypes, HeldOnce, Holding
  <2>3. \A d \in Callers : runtime'[d] # Nobody =>
          ~InPool(runtime[d])' /\ \A e \in Callers : runtime'[e] = runtime'[d] => e = d
    BY Zenon, <1>11, <2>1 DEF ExecInv, HeldOnce
  <2>4. ASSUME NEW r \in Runtimes PROVE InPool(r)' \/ \E d \in Callers : runtime'[d] = r
    <3>1. InPool(r) \/ \E d \in Callers : runtime[d] = r
      BY Zenon DEF ExecInv, HeldOnce
    <3>2. \A d \in Callers : runtime[d] = r => d # c
      BY Zenon, <1>7, ExecutorConstants
    <3>. QED  BY Zenon, <1>11, <2>1, <3>1, <3>2
  <2>. QED  BY Zenon, <2>2, <2>3, <2>4 DEF HeldOnce
<1>14. InstancesOwned'
  BY <1>6 DEF ExecInv, ExecTypes, InstancesOwned
<1>15. CallsSound'
  BY Zenon, <1>6, <1>7 DEF ExecInv, ExecTypes, CallsSound, Holding, BucketOf, b
<1>. QED  BY Zenon, <1>8, <1>10, <1>13, <1>14, <1>15 DEF ExecInv

\* The wait for a runtime ends without one.
LEMMA GiveUpKeeps ==
  ASSUME ExecInv, NEW c \in Callers, GiveUp(c)
  PROVE  ExecInv'
<1>1. /\ xpc[c] = "acquire" /\ xpc' = [xpc EXCEPT ![c] = "returned"]
      /\ UNCHANGED <<available, compiled, instances, compiling, call, runtime>>
  BY Zenon DEF GiveUp, Return
<1>2. ExecTypes'
  BY Zenon, <1>1 DEF ExecInv, ExecTypes, XSteps
<1>3. PoolsSound' /\ HeldOnce'
  BY Zenon, <1>1, PoolsUnmoved DEF Holding
<1>4. InstancesOwned'
  BY <1>1 DEF ExecInv, ExecTypes, InstancesOwned
<1>5. CallsSound'
  BY Zenon, <1>1 DEF ExecInv, ExecTypes, CallsSound, Holding, BucketOf
<1>. QED  BY Zenon, <1>2, <1>3, <1>4, <1>5 DEF ExecInv

\* The module is found compiled, or compileMu is taken.
LEMMA CheckCompiledKeeps ==
  ASSUME ExecInv, NEW c \in Callers, CheckCompiled(c)
  PROVE  ExecInv'
<1>1. /\ xpc[c] = "check" /\ UNCHANGED <<available, compiled, instances, call, runtime>>
      /\ \/ xpc' = [xpc EXCEPT ![c] = "instantiate"] /\ call[c].tool \in compiled[runtime[c]]
         \/ xpc' = [xpc EXCEPT ![c] = "compile"]
  BY Zenon DEF CheckCompiled
<1>2. ExecTypes'
  BY Zenon, <1>1 DEF ExecInv, ExecTypes, XSteps
<1>3. PoolsSound' /\ HeldOnce'
  BY Zenon, <1>1, PoolsUnmoved DEF Holding
<1>4. InstancesOwned'
  BY <1>1 DEF ExecInv, ExecTypes, InstancesOwned
<1>5. CallsSound'
  BY Zenon, <1>1 DEF ExecInv, ExecTypes, CallsSound, Holding, BucketOf
<1>. QED  BY Zenon, <1>2, <1>3, <1>4, <1>5 DEF ExecInv

\* The module is compiled or cannot be.
LEMMA CompileKeeps ==
  ASSUME ExecInv, NEW c \in Callers, Compile(c)
  PROVE  ExecInv'
<1> DEFINE r == runtime[c]
<1>1. /\ xpc[c] = "compile" /\ UNCHANGED <<available, instances, call, runtime>>
      /\ \/ /\ xpc' = [xpc EXCEPT ![c] = "instantiate"]
            /\ compiled' = [compiled EXCEPT ![r] = @ \cup {call[c].tool}]
         \/ xpc' = [xpc EXCEPT ![c] = "release"] /\ UNCHANGED compiled
  BY Zenon DEF Compile, Unwind
<1>2. r \in Runtimes /\ call[c].tool \in Tools
  BY <1>1 DEF ExecInv, ExecTypes, HeldOnce, CallsSound, Holding
<1>3. ExecTypes'
  BY <1>1, <1>2 DEF ExecInv, ExecTypes, XSteps
<1>4. PoolsSound' /\ HeldOnce'
  BY Zenon, <1>1, PoolsUnmoved DEF Holding
<1>5. InstancesOwned'
  BY <1>1 DEF ExecInv, ExecTypes, InstancesOwned
<1>6. \A d \in Callers : runtime[d] \in Runtimes => compiled[runtime[d]] \subseteq compiled'[runtime[d]]
  BY Zenon, <1>1, <1>2 DEF ExecInv, ExecTypes
<1>7. xpc'[c] = "instantiate" => call[c].tool \in compiled'[r]
  BY Zenon, <1>1, <1>2 DEF ExecInv, ExecTypes
<1>8. CallsSound'
  <2>. SUFFICES ASSUME NEW d \in Callers
       PROVE  /\ xpc'[d] # "out" => call[d].lim.timeout \in Nat /\ call[d].lim.pages \in Nat
              /\ xpc'[d] \in Holding \cup {"acquire"} =>
                   /\ call[d].tool \in Tools
                   /\ getExecutionTimeout(call[d].lim) # 0
                   /\ BucketOf(d) # 0
              /\ xpc'[d] \in Holding => runtime[d][1] = BucketOf(d)
              /\ xpc'[d] \in {"instantiate", "run"} => call[d].tool \in compiled'[runtime[d]]
    BY Zenon, <1>1 DEF CallsSound, BucketOf
  <2>1. CASE d = c
    BY Zenon, <1>1, <1>7, <2>1 DEF ExecInv, ExecTypes, CallsSound, Holding
  <2>2. CASE d # c
    <3>1. xpc'[d] = xpc[d]
      BY Zenon, <1>1, <2>2 DEF ExecInv, ExecTypes
    <3>2. xpc[d] \in {"instantiate", "run"} => runtime[d] \in Runtimes
      BY Zenon DEF ExecInv, ExecTypes, HeldOnce, Holding
    <3>. QED  BY Zenon, <1>6, <3>1, <3>2 DEF ExecInv, CallsSound
  <2>. QED  BY Zenon, <2>1, <2>2
<1>. QED  BY Zenon, <1>3, <1>4, <1>5, <1>8 DEF ExecInv

\* On a runtime that its caller holds before the module is instantiated there is
\* no instance: its owner would hold the same runtime.
LEMMA NoInstanceYet ==
  ASSUME ExecInv, NEW c \in Callers, xpc[c] \in Holding \ {"run", "close"}
  PROVE  instances[runtime[c]] = {}
<1>1. runtime[c] \in Runtimes /\ runtime[c] # Nobody
  BY Zenon DEF ExecInv, ExecTypes, HeldOnce
<1>2. ASSUME NEW i \in instances[runtime[c]] PROVE FALSE
  <2>1. i[1] \in Callers /\ xpc[i[1]] \in {"run", "close"} /\ runtime[i[1]] = runtime[c]
    BY <1>1, <1>2 DEF ExecInv, ExecTypes, InstancesOwned
  <2>. QED  BY Zenon, <1>1, <2>1 DEF ExecInv, HeldOnce
<1>. QED  BY Zenon, <1>2

\* The module is instantiated or cannot be.
LEMMA InstantiateKeeps ==
  ASSUME ExecInv, NEW c \in Callers, Instantiate(c)
  PROVE  ExecInv'
<1> DEFINE r == runtime[c]
<1>1. /\ xpc[c] = "instantiate" /\ UNCHANGED <<available, compiled, call, runtime>>
      /\ \/ /\ xpc' = [xpc EXCEPT ![c] = "run"]
            /\ instances' = [instances EXCEPT ![r] = @ \cup {<<c, call[c].tool>>}]
         \/ xpc' = [xpc EXCEPT ![c] = "release"] /\ UNCHANGED instances
  BY Zenon DEF Instantiate, Unwind
<1>2. r \in Runtimes /\ call[c].tool \in Tools
  BY <1>1 DEF ExecInv, ExecTypes, HeldOnce, CallsSound, Holding
<1>3. ExecTypes'
  BY <1>1, <1>2 DEF ExecInv, ExecTypes, XSteps
<1>4. PoolsSound' /\ HeldOnce'
  BY Zenon, <1>1, PoolsUnmoved DEF Holding
<1>5. InstancesOwned'
  <2>. SUFFICES ASSUME NEW q \in Runtimes, NEW i \in instances'[q]
       PROVE xpc'[i[1]] \in {"run", "close"} /\ runtime[i[1]] = q /\ i[2] = call[i[1]].tool
    BY Zenon, <1>1 DEF InstancesOwned
  <2>1. CASE i \in instances[q]
    <3>1. i[1] \in Callers /\ i[1] # c
      BY <1>1, <2>1 DEF ExecInv, ExecTypes, InstancesOwned
    <3>. QED  BY Zenon, <1>1, <2>1, <3>1 DEF ExecInv, ExecTypes, InstancesOwned
  <2>2. CASE i \notin instances[q]
    <3>1. q = r /\ i = <<c, call[c].tool>> /\ xpc' = [xpc EXCEPT ![c] = "run"]
      BY <1>1, <1>2, <2>2 DEF ExecInv, ExecTypes
    <3>. QED  BY Zenon, <3>1 DEF ExecInv, ExecTypes
  <2>. QED  BY Zenon, <2>1, <2>2
<1>6. CallsSound'
  BY Zenon, <1>1 DEF ExecInv, ExecTypes, CallsSound, Holding, BucketOf
<1>. QED  BY Zenon, <1>3, <1>4, <1>5, <1>6 DEF ExecInv

\* The module has run.
LEMMA RunKeeps ==
  ASSUME ExecInv, NEW c \in Callers, Run(c)
  PROVE  ExecInv'
<1>1. /\ xpc[c] = "run" /\ xpc' = [xpc EXCEPT ![c] = "close"]
      /\ UNCHANGED <<available, compiled, instances, call, runtime>>
  BY Zenon DEF Run, Unwind
<1>2. ExecTypes'
  BY Zenon, <1>1 DEF ExecInv, ExecTypes, XSteps
<1>3. PoolsSound' /\ HeldOnce'
  BY Zenon, <1>1, PoolsUnmoved DEF Holding
<1>4. InstancesOwned'
  BY <1>1 DEF ExecInv, ExecTypes, InstancesOwned
<1>5. CallsSound'
  BY Zenon, <1>1 DEF ExecInv, ExecTypes, CallsSound, Holding, BucketOf
<1>. QED  BY Zenon, <1>2, <1>3, <1>4, <1>5 DEF ExecInv

\* The instance is closed.
LEMMA CloseInstanceKeeps ==
  ASSUME ExecInv, NEW c \in Callers, CloseInstance(c)
  PROVE  ExecInv'
<1> DEFINE r == runtime[c]
<1>1. /\ xpc[c] = "close" /\ UNCHANGED <<available, compiled, call, runtime>>
      /\ xpc' = [xpc EXCEPT ![c] = "release"]
      /\ instances' = [instances EXCEPT ![r] = @ \ {<<c, call[c].tool>>}]
  BY Zenon DEF CloseInstance
<1>2. r \in Runtimes
  BY Zenon, <1>1 DEF ExecInv, ExecTypes, HeldOnce, Holding
<1>3. ExecTypes'
  BY Zenon, <1>1, <1>2 DEF ExecInv, ExecTypes, XSteps
<1>4. PoolsSound' /\ HeldOnce'
  BY Zenon, <1>1, PoolsUnmoved DEF Holding
<1>5. InstancesOwned'
  <2>. SUFFICES ASSUME NEW q \in Runtimes, NEW i \in instances'[q]
       PROVE xpc'[i[1]] \in {"run", "close"} /\ runtime[i[1]] = q /\ i[2] = call[i[1]].tool
    BY Zenon, <1>1 DEF InstancesOwned
  <2>1. i \in instances[q] /\ (q = r => i # <<c, call[c].tool>>)
    BY Zenon, <1>1, <1>2 DEF ExecInv, ExecTypes
  <2>2. /\ i \in Callers \X Tools /\ runtime[i[1]] = q /\ i[2] = call[i[1]].tool
        /\ xpc[i[1]] \in {"run", "close"}
    BY Zenon, <2>1 DEF ExecInv, ExecTypes, InstancesOwned
  <2>3. i[1] # c
    BY <2>1, <2>2
  <2>. QED  BY Zenon, <1>1, <2>2, <2>3 DEF ExecInv, ExecTypes
<1>6. CallsSound'
  BY Zenon, <1>1 DEF ExecInv, ExecTypes, CallsSound, Holding, BucketOf
<1>. QED  BY Zenon, <1>3, <1>4, <1>5, <1>6 DEF ExecInv

\* The runtime goes back to the end of its pool's channel.
LEMMA ReleaseKeeps ==
  ASSUME ExecInv, NEW c \in Callers, releaseRuntime(c)
  PROVE  ExecInv'
<1> DEFINE r == runtime[c]
           b == r[1]
           s == available[b]
<1>1. xpc[c] = "release" /\ r # Nobody
  BY Zenon DEF releaseRuntime, ExecInv, HeldOnce, Holding
<1>2. r \in Runtimes /\ b \in Buckets /\ Len(s) < RuntimesPerBucket
  BY Zenon, <1>1, RoomForHeld
<1>3. s \in Seq(Runtimes)
  BY Zenon, <1>2 DEF ExecInv, ExecTypes
<1>4. /\ xpc' = [xpc EXCEPT ![c] = "returned"]
      /\ runtime' = [runtime EXCEPT ![c] = Nobody]
      /\ available' = [available EXCEPT ![b] = Append(s, r)]
      /\ UNCHANGED <<compiled, instances, call>>
  BY Zenon, <1>2 DEF releaseRuntime
<1>5. available'[b] = Append(s, r) /\ \A a \in Buckets \ {b} : available'[a] = available[a]
  BY Zenon, <1>2, <1>4 DEF ExecInv, ExecTypes
<1>6. \A i \in 1..Len(s) : s[i][1] = b /\ s[i] # r /\ \A j \in 1..Len(s) : s[i] = s[j] => i = j
  BY <1>1, <1>2 DEF ExecInv, PoolsSound, HeldOnce, InPool
<1>7. \A a \in Buckets \ {b} : \A i \in 1..Len(available[a]) : available[a][i] # r
  BY Zenon, <1>1, <1>2 DEF ExecInv, HeldOnce, InPool
<1>8. instances[r] = {}
  BY Zenon, <1>1, NoInstanceYet DEF Holding
<1>9. b = r[1]
  BY Zenon
<1>10. \A q : (\E i \in 1..Len(s) : s[i] = q) => InPool(q)
  BY Zenon, <1>2 DEF InPool
<1>11. ExecTypes'
  BY <1>2, <1>3, <1>4 DEF ExecInv, ExecTypes, XSteps
<1>12. \A a \in Buckets : a = b => available[a] = s
  BY Zenon
<1> HIDE DEF s, b
<1>13. /\ Len(Append(s, r)) = Len(s) + 1 /\ Append(s, r)[Len(s) + 1] = r /\ Len(s) \in Nat
       /\ \A i \in 1..Len(s) : Append(s, r)[i] = s[i]
  BY <1>3
<1>14. PoolsSound'
  <2>. SUFFICES ASSUME NEW a \in Buckets, NEW i \in 1..Len(available'[a])
                PROVE  /\ available'[a][i][1] = a
                       /\ \A j \in 1..Len(available'[a]) : available'[a][i] = available'[a][j] => i = j
    BY Zenon DEF PoolsSound
  <2>1. CASE a = b
    <3>1. available'[a] = Append(s, r) /\ i \in 1..(Len(s) + 1)
      BY Zenon, <1>5, <1>13, <2>1
    <3>2. \A j \in 1..(Len(s) + 1) : j \in 1..Len(s) \/ j = Len(s) + 1
      BY <1>13
    <3>. QED  BY <1>6, <1>9, <1>13, <2>1, <3>1, <3>2
  <2>2. CASE a # b
    BY Zenon, <1>5, <2>2 DEF ExecInv, PoolsSound
  <2>. QED  BY Zenon, <2>1, <2>2
<1>15. \A q : InPool(q)' <=> InPool(q) \/ q = r
  <2>1. ASSUME NEW q, InPool(q)' PROVE InPool(q) \/ q = r
    <3>1. PICK a \in Buckets : \E i \in 1..Len(available'[a]) : available'[a][i] = q
      BY Zenon, <2>1 DEF InPool
    <3>2. CASE a = b
      <4>1. PICK i \in 1..(Len(s) + 1) : Append(s, r)[i] = q
        BY Zenon, <1>5, <1>13, <3>1, <3>2
      <4>2. i \in 1..Len(s) \/ i = Len(s) + 1
        BY <1>13, <4>1
      <4>. QED  BY Zenon, <1>10, <1>13, <4>1, <4>2
    <3>3. CASE a # b
      BY Zenon, <1>5, <3>1, <3>3 DEF InPool
    <3>. QED  BY Zenon, <3>2, <3>3
  <2>2. ASSUME NEW q, InPool(q) PROVE InPool(q)'
    <3>1. PICK a \in Buckets : \E i \in 1..Len(available[a]) : available[a][i] = q
      BY Zenon, <2>2 DEF InPool
    <3>2. CASE a = b
      <4>1. PICK i \in 1..Len(s) : s[i] = q
        BY Zenon, <1>12, <3>1, <3>2
      <4>2. i \in 1..Len(Append(s, r)) /\ Append(s, r)[i] = q
        BY <1>13, <4>1
      <4>. QED  BY Zenon, <1>2, <1>5, <4>2 DEF InPool
    <3>3. CASE a # b
      BY Zenon, <1>5, <3>1, <3>3 DEF InPool
    <3>. QED  BY Zenon, <3>2, <3>3
  <2>3. ASSUME NEW q, q = r PROVE InPool(q)'
    <3>1. Len(s) + 1 \in 1..Len(available'[b]) /\ available'[b][Len(s) + 1] = q
      BY <1>5, <1>13, <2>3
    <3>. QED  BY Zenon, <1>2, <3>1 DEF InPool
  <2>. QED  BY Zenon, <2>1, <2>2, <2>3
<1>16. HeldOnce'
  <2>1. runtime'[c] = Nobody /\ \A d \in Callers \ {c} : runtime'[d] = runtime[d] /\ runtime[d] # r
    BY Zenon, <1>1, <1>4 DEF ExecInv, ExecTypes, HeldOnce
  <2>2. \A d \in Callers : xpc'[d] \in Holding <=> runtime'[d] # Nobody
    BY Zenon, <1>4, <2>1 DEF ExecInv, ExecTypes, HeldOnce, Holding
  <2>3. \A d \in Callers : runtime'[d] # Nobody =>
          ~InPool(runtime[d])' /\ \A e \in Callers : runtime'[e] = runtime'[d] => e = d
    BY <1>15, <2>1 DEF ExecInv, HeldOnce
  <2>4. ASSUME NEW q \in Runtimes PROVE InPool(q)' \/ \E d \in Callers : runtime'[d] = q
    <3>1. InPool(q) \/ \E d \in Callers : runtime[d] = q
      BY Zenon DEF ExecInv, HeldOnce
    <3>. QED  BY Zenon, <1>15, <2>1, <3>1
  <2>. QED  BY Zenon, <2>2, <2>3, <2>4 DEF HeldOnce
<1>17. InstancesOwned'
  BY <1>1, <1>4, <1>8 DEF ExecInv, ExecTypes, InstancesOwned
<1>18. CallsSound'
  <2>1. \A d \in Callers \ {c} : xpc'[d] = xpc[d] /\ runtime'[d] = runtime[d]
    BY Zenon, <1>4 DEF ExecInv, ExecTypes
  <2>2. xpc'[c] = "returned"
    BY Zenon, <1>4 DEF ExecInv, ExecTypes
  <2>. QED  BY Zenon, <1>1, <1>4, <2>1, <2>2 DEF ExecInv, CallsSound, Holding, BucketOf
<1>. QED  BY Zenon, <1>11, <1>14, <1>16, <1>17, <1>18 DEF ExecInv

\* Execute has returned.
LEMMA EndExecuteKeeps ==
  ASSUME ExecInv, NEW c \in Callers, EndExecute(c)
  PROVE  ExecInv'
<1>1. /\ xpc[c] = "returned" /\ xpc' = [xpc EXCEPT ![c] = "out"]
      /\ UNCHANGED <<available, compiled, instances, call, runtime>>
  BY Zenon DEF EndExecute
<1>2. ExecTypes'
  BY Zenon, <1>1 DEF ExecInv, ExecTypes, XSteps
<1>3. PoolsSound' /\ HeldOnce'
  BY Zenon, <1>1, PoolsUnmoved DEF Holding
<1>4. InstancesOwned'
  BY <1>1 DEF ExecInv, ExecTypes, InstancesOwned
<1>5. CallsSound'
  BY Zenon, <1>1 DEF ExecInv, ExecTypes, CallsSound, Holding, BucketOf
<1>. QED  BY Zenon, <1>2, <1>3, <1>4, <1>5 DEF ExecInv

\* Whatever step of Execute a caller takes.
LEMMA ExecutorStepKeeps ==
  ASSUME ExecInv, NEW c \in Callers, ExecutorStep(c)
  PROVE  ExecInv'
  BY Zenon, ResolveLimitsKeeps, AcquireKeeps, GiveUpKeeps, CheckCompiledKeeps, CompileKeeps,
     InstantiateKeeps, RunKeeps, CloseInstanceKeeps, ReleaseKeeps DEF ExecutorStep

\* A step elsewhere.
LEMMA ExecutorUnmoved ==
  ASSUME ExecInv, UNCHANGED executor
  PROVE  ExecInv'
<1>1. UNCHANGED <<available, compiled, instances, compiling, xpc, call, runtime, result>>
  BY Zenon DEF executor
<1>2. ExecTypes' /\ PoolsSound'
  BY Zenon, <1>1 DEF ExecInv, ExecTypes, PoolsSound
<1>3. HeldOnce' /\ InstancesOwned'
  BY <1>1 DEF ExecInv, HeldOnce, InPool, InstancesOwned
<1>4. CallsSound'
  BY <1>1 DEF ExecInv, CallsSound, BucketOf
<1>. QED  BY Zenon, <1>2, <1>3, <1>4 DEF ExecInv

\* What the invariant says of runtimes and instances.
LEMMA ConservedByInv == ExecInv => RuntimesConserved
<1>. SUFFICES ASSUME ExecInv PROVE RuntimesConserved
  BY Zenon
<1>1. ASSUME NEW r \in Runtimes
      PROVE  Cardinality({i \in DOMAIN available[r[1]] : available[r[1]][i] = r})
               + Cardinality(Holders(r)) = 1
  <2> DEFINE s == available[r[1]]
             P == {i \in DOMAIN s : s[i] = r}
  <2>1. r[1] \in Buckets /\ r # Nobody
    BY Zenon, ExecutorConstants DEF Runtimes
  <2>2. s \in Seq(Runtimes) /\ DOMAIN s = 1..Len(s)
    BY <2>1 DEF ExecInv, ExecTypes
  <2>3. ASSUME InPool(r) PROVE Cardinality(P) + Cardinality(Holders(r)) = 1
    <3>1. PICK a \in Buckets : \E i \in 1..Len(available[a]) : available[a][i] = r
      BY Zenon, <2>3 DEF InPool
    <3>2. a = r[1]
      BY Zenon, <3>1 DEF ExecInv, PoolsSound
    <3>3. PICK i \in DOMAIN s : s[i] = r
      BY Zenon, <2>2, <3>1, <3>2
    <3>4. P = {i}
      BY <2>1, <2>2, <3>3 DEF ExecInv, PoolsSound
    <3>5. Holders(r) = {}
      BY Zenon, <2>1, <2>3 DEF Holders, ExecInv, HeldOnce
    <3>6. Cardinality(P) = 1 /\ Cardinality(Holders(r)) = 0
      BY Zenon, <3>4, <3>5, FS_EmptySet, FS_Singleton
    <3> HIDE DEF P
    <3>. QED  BY <3>6
  <2>4. ASSUME ~InPool(r) PROVE Cardinality(P) + Cardinality(Holders(r)) = 1
    <3>1. P = {}
      BY Zenon, <2>1, <2>2, <2>4 DEF InPool
    <3>2. PICK c \in Callers : runtime[c] = r
      BY Zenon, <2>4 DEF ExecInv, HeldOnce
    <3>3. Holders(r) = {c}
      BY Zenon, <2>1, <3>2 DEF Holders, ExecInv, HeldOnce
    <3>4. Cardinality(P) = 0 /\ Cardinality(Holders(r)) = 1
      BY Zenon, <3>1, <3>3, FS_EmptySet, FS_Singleton
    <3> HIDE DEF P
    <3>. QED  BY <3>4
  <2>5. Cardinality(P) + Cardinality(Holders(r)) = 1
    BY Zenon, <2>3, <2>4
  <2>. QED  BY Zenon, <2>5
<1>2. \A r \in Runtimes : \A i \in instances[r] : runtime[i[1]] = r
  BY Zenon DEF ExecInv, InstancesOwned
<1>3. \A c \in Callers : xpc[c] = "instantiate" => instances[runtime[c]] = {}
  BY Zenon, NoInstanceYet DEF Holding
<1>. QED  BY Zenon, <1>1, <1>2, <1>3 DEF RuntimesConserved

\* What it says of a call that runs.
LEMMA LimitsByInv == ExecInv => RunsWithinLimits
<1>. SUFFICES ASSUME ExecInv, NEW c \in Callers, xpc[c] = "run"
     PROVE LET lim == call[c].lim
               t == getExecutionTimeout(lim)
               asked == IF CeilingPages = 0 THEN lim.pages ELSE Lesser(lim.pages, CeilingPages)
           IN /\ call[c].tool \in compiled[runtime[c]]
              /\ 0 < t /\ t <= lim.timeout /\ t <= MaxTimeoutMs
              /\ CeilingTimeout > 0 => t <= CeilingTimeout
              /\ asked > 0
              /\ runtime[c][1] >= Lesser(asked, 2048)
              /\ \A b \in Buckets : b < runtime[c][1] => b < asked
  BY Zenon DEF RunsWithinLimits
<1>1. /\ call[c].lim.timeout \in Nat /\ call[c].lim.pages \in Nat
      /\ getExecutionTimeout(call[c].lim) # 0
      /\ getMemoryBucketFromValidated(call[c].lim) # 0
      /\ runtime[c][1] = getMemoryBucketFromValidated(call[c].lim)
      /\ call[c].tool \in compiled[runtime[c]]
  BY Zenon DEF ExecInv, CallsSound, Holding, BucketOf
<1>. QED
  BY <1>1, TimeoutFits, BucketFits DEF Asked

\* The steps together.
LEMMA ExecInvHolds == ExecutorSpec => []ExecInv
<1>1. ASSUME ExecInv, [ExecutorNext]_executor PROVE ExecInv'
  <2>1. ASSUME NEW c \in Callers, NEW tool \in Tools, NEW lim \in Requested,
               BeginExecute(c, tool, lim)
        PROVE  ExecInv'
    BY Zenon, <1>1, <2>1, ExecutorConstants, BeginKeeps
  <2>. QED
    BY Zenon, <1>1, <2>1, ExecutorStepKeeps, EndExecuteKeeps, ExecutorUnmoved DEF ExecutorNext
<1>. QED
  BY <1>1, ExecInvInit, PTL DEF ExecutorSpec

\* The executor under any calls conserves its runtimes: releaseRuntime gives each
\* one back once, on every path out of Execute, and never finds the channel full.
THEOREM ExecutorConserves == ExecutorSpec => []RuntimesConserved
  BY ExecInvHolds, ConservedByInv, PTL

\* The executor under any calls runs each one within its limits, on a runtime of
\* their bucket where its module was compiled.
THEOREM ExecutorLimits == ExecutorSpec => []RunsWithinLimits
  BY ExecInvHolds, LimitsByInv, PTL

-----------------------------------------------------------------------------
(* The registry *)

\* The parts of a process's state.
Changes == [def : Defs] \cup [lim : Limits] \cup [active : BOOLEAN]
Tasks == [kind : Operations \cup {None}, name : Names \cup {None},
          arg : Rows \cup Changes \cup {None}]
Writes == [name : Names, new : UNION {[D -> Rows] : D \in SUBSET Nat}]

\* The types of the registry.
RegTypes ==
  /\ rows \in [Names -> Seq(Rows)]
  /\ audit \in Seq(AuditEvents)
  /\ cache \in [Names -> [row : Rows, raced : BOOLEAN] \cup {None}]
  /\ pc \in [Procs -> Steps]
  /\ roles \in Workloads
  /\ task \in [Procs -> Tasks]
  /\ got \in [Procs -> Rows \cup {None}]
  /\ want \in [Procs -> Rows \cup {None}]
  /\ seen \in [Procs -> SUBSET Nat]
  /\ pend \in [Procs -> Seq(Writes)]

\* A tool has one active row at most.
OneActive ==
  \A n \in Names : \A i, j \in DOMAIN rows[n] : rows[n][i].active /\ rows[n][j].active => i = j

\* An event of the log accounts for the row of the tool.
Accounted(n, row) == \E i \in DOMAIN audit : Accounts(audit[i], n, row)

\* Every active row has an event behind it.
ActiveAccounted ==
  \A n \in Names : \A i \in DOMAIN rows[n] : rows[n][i].active => Accounted(n, rows[n][i])

\* What a look-up gives was active and accounted for, and the table has had rows
\* of the name since.
Known(n, row) == row.active /\ Accounted(n, row) /\ rows[n] # <<>>

\* Every cached row was active, with an event behind it, and its tool has rows.
CacheKnown == \A n \in Names : cache[n] # None => Known(n, cache[n].row)

\* The operation of a process fits the step it is at.
TaskSound(p) ==
  LET t == task[p]
      updates == t.kind \in {"patch", "deactivate"}
  IN
  /\ pc[p] # "idle" => t.name \in Names
  /\ pc[p] \in {"lookup", "query", "fill"} => t.kind \in {"read", "patch", "deactivate"}
  /\ pc[p] = "answered" => t.kind = "read"
  /\ pc[p] \in {"merge", "compare"} => t.kind = "patch"
  /\ pc[p] = "retire" => t.kind = "deactivate"
  /\ pc[p] = "statement" => updates
  /\ pc[p] \in {"write", "audit", "commit", "invalidate"} => t.kind \in Operations \ {"read"}
  /\ pc[p] # "idle" /\ t.kind = "create" => t.arg \in Rows /\ t.arg.active
  /\ pc[p] # "idle" /\ t.kind = "patch" => t.arg \in Changes
  /\ pc[p] \in {"compare", "statement", "write", "audit", "commit"} /\ t.kind = "patch" =>
       want[p] # None
  /\ pc[p] \in {"statement", "write", "audit", "commit"} /\ updates => got[p] # None
  /\ pc[p] = "fill" => got[p] # None
  /\ pc[p] \notin {"idle", "lookup", "query"} /\ (updates \/ t.kind = "read") /\ got[p] # None =>
       Known(t.name, got[p])
  /\ pc[p] = "write" /\ updates => seen[p] # {} /\ seen[p] \subseteq DOMAIN rows[t.name]

\* The value a statement writes fits the operation, whose event names it.
ValueFits(p, j, row) ==
  CASE task[p].kind = "create" -> row = task[p].arg
    [] task[p].kind = "patch" -> row = want[p]
    [] task[p].kind = "deactivate" -> ~row.active
    [] task[p].kind = "seed" -> row = SeedTools[j].row

\* What is written exists; one that activates a row leaves no other active, as long
\* as the transaction is open.
WriteSound(p, j) ==
  LET w == pend[p][j] IN
  /\ w.name = IF task[p].kind = "seed" THEN SeedTools[j].name ELSE task[p].name
  /\ DOMAIN w.new # {} /\ DOMAIN w.new \subseteq {0} \cup DOMAIN rows[w.name]
  /\ task[p].kind = "create" => DOMAIN w.new = {0}
  /\ \A i \in DOMAIN w.new : ValueFits(p, j, w.new[i])
  /\ Activates(w) => /\ \E i \in DOMAIN w.new : DOMAIN w.new = {i}
                     /\ \A i \in DOMAIN rows[w.name] \ DOMAIN w.new : ~rows[w.name][i].active

\* What a transaction has pending at each of its steps.
PendSound(p) ==
  LET most == IF task[p].kind = "seed" THEN Len(SeedTools) ELSE 1 IN
  /\ pc[p] \notin {"write", "audit", "commit"} => pend[p] = <<>>
  /\ pc[p] = "write" => Len(pend[p]) < most
  /\ pc[p] \in {"audit", "commit"} => Len(pend[p]) <= most
  /\ \A j \in DOMAIN pend[p] : WriteSound(p, j)

\* Two open transactions never both activate a row of one tool.
Exclusive ==
  \A p, q \in Procs : p # q =>
    \A i \in DOMAIN pend[p], j \in DOMAIN pend[q] :
      pend[p][i].name = pend[q][j].name => ~(Activates(pend[p][i]) /\ Activates(pend[q][j]))

\* The inductive invariant of the registry.
RegInv ==
  /\ RegTypes
  /\ OneActive /\ ActiveAccounted /\ CacheKnown /\ AuditNamesActiveRow
  /\ \A p \in Procs : TaskSound(p) /\ PendSound(p)
  /\ Exclusive

USE DEF Goto

\* A sequence that is not empty has a first element.
LEMMA NonEmptySeq ==
  ASSUME NEW S, NEW s \in Seq(S), s # <<>>
  PROVE  1 \in DOMAIN s /\ s[1] \in S /\ DOMAIN s # {} /\ DOMAIN s \subseteq Nat
OBVIOUS

\* An element of a sequence.
LEMMA ElementOfSeq ==
  ASSUME NEW S, NEW s \in Seq(S), NEW i \in 1..Len(s)
  PROVE  i \in DOMAIN s /\ s[i] \in S
OBVIOUS

\* The active row of a tool, whichever way it is found.
LEMMA ActiveRowIs ==
  ASSUME NEW n \in Names
  PROVE  /\ ActiveRow(n) # None => \E i \in DOMAIN rows[n] : rows[n][i].active /\ ActiveRow(n) = rows[n][i]
         /\ OneActive => \A i \in DOMAIN rows[n] : rows[n][i].active => ActiveRow(n) = rows[n][i]
<1> DEFINE Is(i) == rows[n][i].active
<1>1. (\E i \in DOMAIN rows[n] : Is(i)) =>
        /\ (CHOOSE i \in DOMAIN rows[n] : Is(i)) \in DOMAIN rows[n]
        /\ Is(CHOOSE i \in DOMAIN rows[n] : Is(i))
  BY Zenon
<1>. QED  BY Zenon, <1>1 DEF ActiveRow, OneActive

\* The active row of a tool is a row with an event behind it.
LEMMA ActiveRowKnown ==
  ASSUME RegInv, NEW n \in Names, ActiveRow(n) # None
  PROVE  ActiveRow(n) \in Rows /\ Known(n, ActiveRow(n))
<1>1. PICK i \in DOMAIN rows[n] : rows[n][i].active /\ ActiveRow(n) = rows[n][i]
  BY Zenon, ActiveRowIs
<1>2. rows[n] \in Seq(Rows)
  BY Zenon DEF RegInv, RegTypes
<1>3. rows[n][i] \in Rows /\ rows[n] # <<>>
  BY <1>2
<1>4. Accounted(n, rows[n][i])
  BY Zenon, <1>1 DEF RegInv, ActiveAccounted
<1>. QED  BY Zenon, <1>1, <1>3, <1>4 DEF Known

\* A process with nothing written has nothing to answer for.
LEMMA NothingWritten ==
  ASSUME NEW p \in Procs, pend'[p] = <<>>
  PROVE  PendSound(p)'
<1>1. Len(SeedTools) \in Nat \ {0} /\ Len(pend'[p]) = 0 /\ DOMAIN pend'[p] = {}
  BY RegistryConstants
<1>. QED  BY <1>1 DEF PendSound

\* A step of p that leaves the tables alone and writes nothing more.
LEMMA QuietStep ==
  ASSUME RegInv, NEW p \in Procs, RegTypes', CacheKnown', UNCHANGED <<rows, audit>>,
         \A q \in Procs \ {p} : /\ pc'[q] = pc[q] /\ task'[q] = task[q] /\ got'[q] = got[q]
                                /\ want'[q] = want[q] /\ seen'[q] = seen[q] /\ pend'[q] = pend[q],
         pend'[p] = pend[p] \/ pend'[p] = <<>>,
         TaskSound(p)', PendSound(p)'
  PROVE  RegInv'
<1>1. OneActive' /\ ActiveAccounted' /\ AuditNamesActiveRow'
  BY DEF RegInv, OneActive, ActiveAccounted, Accounted, AuditNamesActiveRow, ActiveRow
<1>2. ASSUME NEW q \in Procs \ {p} PROVE TaskSound(q)' /\ PendSound(q)'
  <2>1. TaskSound(q) /\ PendSound(q)
    BY Zenon DEF RegInv
  <2>2. TaskSound(q)'
    BY Zenon, <2>1 DEF TaskSound, Known, Accounted
  <2>3. ASSUME NEW j \in DOMAIN pend[q] PROVE WriteSound(q, j)'
    <3>1. WriteSound(q, j)
      BY Zenon, <2>1 DEF PendSound
    <3>2. \A row : ValueFits(q, j, row)' <=> ValueFits(q, j, row)
      BY Zenon DEF ValueFits
    <3>. QED  BY Zenon, <3>1, <3>2 DEF WriteSound
  <2>4. PendSound(q)'
    BY Zenon, <2>1, <2>3 DEF PendSound
  <2>. QED  BY Zenon, <2>2, <2>4
<1>3. Exclusive'
  <2>1. \A q \in Procs : pend'[q] = pend[q] \/ DOMAIN pend'[q] = {}
    OBVIOUS
  <2>. QED  BY <2>1 DEF RegInv, Exclusive
<1>. QED  BY Zenon, <1>1, <1>2, <1>3 DEF RegInv

\* The end of an operation.
LEMMA LeaveKeeps ==
  ASSUME RegInv, NEW p \in Procs, Leave(p), UNCHANGED <<rows, audit>>, CacheKnown',
         cache' \in [Names -> [row : Rows, raced : BOOLEAN] \cup {None}]
  PROVE  RegInv'
<1>1. NoTask \in Tasks /\ <<>> \in Seq(Writes)
  BY DEF NoTask, Tasks
<1>2. RegTypes'
  BY Zenon, <1>1 DEF RegInv, RegTypes, Leave, Steps
<1>3. pend'[p] = <<>> /\ pc'[p] = "idle"
  BY Zenon DEF RegInv, RegTypes, Leave
<1>4. TaskSound(p)'
  BY Zenon, <1>3 DEF TaskSound
<1>5. PendSound(p)'
  BY Zenon, <1>3, NothingWritten
<1>6. \A q \in Procs \ {p} : /\ pc'[q] = pc[q] /\ task'[q] = task[q] /\ got'[q] = got[q]
                             /\ want'[q] = want[q] /\ seen'[q] = seen[q] /\ pend'[q] = pend[q]
  BY Zenon DEF RegInv, RegTypes, Leave
<1>. QED  BY Zenon, <1>2, <1>3, <1>4, <1>5, <1>6, QuietStep

\* A transaction fails.
LEMMA RollbackKeeps ==
  ASSUME RegInv, NEW p \in Procs, Rollback(p)
  PROVE  RegInv'
<1>1. CacheKnown'
  BY Zenon DEF RegInv, CacheKnown, Known, Accounted, Rollback
<1>. QED  BY Zenon, <1>1, LeaveKeeps DEF RegInv, RegTypes, Rollback

\* A look-up is answered from the cache.
LEMMA CacheHitKeeps ==
  ASSUME RegInv, NEW p \in Procs, CacheHit(p)
  PROVE  RegInv'
<1> DEFINE n == task[p].name
<1>1. /\ pc[p] = "lookup" /\ UNCHANGED <<rows, audit, auditLock, cache, roles, ops, task, want, seen, pend>>
      /\ \/ /\ cache[n] # None /\ got' = [got EXCEPT ![p] = cache[n].row]
            /\ pc' = [pc EXCEPT ![p] = After(p)]
         \/ pc' = [pc EXCEPT ![p] = "query"] /\ UNCHANGED got
  BY Zenon DEF CacheHit, shared
<1>2. n \in Names /\ task[p].kind \in {"read", "patch", "deactivate"} /\ pend[p] = <<>>
  BY Zenon, <1>1 DEF RegInv, TaskSound, PendSound
<1>3. After(p) \in {"retire", "merge", "compare", "answered"} /\ After(p) \in Steps
  BY Zenon DEF After, Steps
<1>4. cache[n] # None => cache[n].row \in Rows /\ cache[n].row # None /\ Known(n, cache[n].row)
  BY Zenon, <1>2, RegistryConstants DEF RegInv, RegTypes, CacheKnown
<1>5. RegTypes'
  BY Zenon, <1>1, <1>3, <1>4 DEF RegInv, RegTypes, Steps
<1>6. CacheKnown'
  BY Zenon, <1>1 DEF RegInv, CacheKnown, Known, Accounted
<1>7. PendSound(p)'
  BY Zenon, <1>1, <1>2, NothingWritten
<1>8. TaskSound(p)'
  <2>1. TaskSound(p)
    BY Zenon DEF RegInv
  <2>2. CASE cache[n] # None /\ got' = [got EXCEPT ![p] = cache[n].row] /\ pc' = [pc EXCEPT ![p] = After(p)]
    <3>1. pc'[p] = After(p) /\ got'[p] = cache[n].row
      BY Zenon, <2>2 DEF RegInv, RegTypes
    <3>. QED  BY <1>1, <1>2, <1>4, <2>1, <2>2, <3>1 DEF TaskSound, After, Known, Accounted
  <2>3. CASE pc' = [pc EXCEPT ![p] = "query"] /\ UNCHANGED got
    <3>1. pc'[p] = "query"
      BY Zenon, <2>3 DEF RegInv, RegTypes
    <3>. QED  BY Zenon, <1>1, <1>2, <2>1, <2>3, <3>1 DEF TaskSound
  <2>. QED  BY Zenon, <1>1, <2>2, <2>3
<1>. QED
  BY Zenon, <1>1, <1>5, <1>6, <1>7, <1>8, QuietStep DEF RegInv, RegTypes

\* A look-up reads the table.
LEMMA QueryKeeps ==
  ASSUME RegInv, NEW p \in Procs, Query(p)
  PROVE  RegInv'
<1> DEFINE n == task[p].name
           row == ActiveRow(n)
           next == IF row = None THEN After(p) ELSE "fill"
<1>1. /\ pc[p] = "query" /\ UNCHANGED <<rows, audit, auditLock, cache, roles, ops, task, want, seen, pend>>
      /\ got' = [got EXCEPT ![p] = row] /\ pc' = [pc EXCEPT ![p] = next]
  BY Zenon DEF Query, shared
<1>2. n \in Names /\ task[p].kind \in {"read", "patch", "deactivate"} /\ pend[p] = <<>>
  BY Zenon, <1>1 DEF RegInv, TaskSound, PendSound
<1>3. next \in Steps
  BY Zenon DEF After, Steps
<1>4. row # None => row \in Rows /\ Known(n, row)
  BY Zenon, <1>2, ActiveRowKnown
<1>5. RegTypes'
  BY Zenon, <1>1, <1>3, <1>4 DEF RegInv, RegTypes
<1>6. CacheKnown'
  BY Zenon, <1>1 DEF RegInv, CacheKnown, Known, Accounted
<1>7. PendSound(p)'
  BY Zenon, <1>1, <1>2, NothingWritten
<1>8. TaskSound(p)'
  <2>1. TaskSound(p)
    BY Zenon DEF RegInv
  <2>2. pc'[p] = next /\ got'[p] = row
    BY Zenon, <1>1 DEF RegInv, RegTypes
  <2> HIDE DEF row
  <2>. QED  BY <1>1, <1>2, <1>4, <2>1, <2>2 DEF TaskSound, After, Known, Accounted
<1>. QED
  BY Zenon, <1>1, <1>5, <1>6, <1>7, <1>8, QuietStep DEF RegInv, RegTypes

\* A look-up fills the cache.
LEMMA FillKeeps ==
  ASSUME RegInv, NEW p \in Procs, Fill(p)
  PROVE  RegInv'
<1> DEFINE n == task[p].name
           entry == [row |-> got[p], raced |-> got[p] # ActiveRow(n)]
<1>1. /\ pc[p] = "fill" /\ UNCHANGED <<rows, audit, auditLock, roles, ops, task, got, want, seen, pend>>
      /\ cache' = [cache EXCEPT ![n] = entry] /\ pc' = [pc EXCEPT ![p] = After(p)]
  BY Zenon DEF Fill, local
<1>2. /\ n \in Names /\ task[p].kind \in {"read", "patch", "deactivate"} /\ pend[p] = <<>>
      /\ got[p] # None /\ Known(n, got[p])
  BY Zenon, <1>1 DEF RegInv, TaskSound, PendSound
<1>3. After(p) \in Steps /\ entry \in [row : Rows, raced : BOOLEAN] /\ entry.row = got[p]
  BY Zenon, <1>2 DEF After, Steps, RegInv, RegTypes
<1> HIDE DEF entry
<1>4. RegTypes'
  BY Zenon, <1>1, <1>3 DEF RegInv, RegTypes
<1>5. CacheKnown'
  <2>1. cache'[n] = entry /\ \A m \in Names \ {n} : cache'[m] = cache[m]
    BY Zenon, <1>1, <1>2 DEF RegInv, RegTypes
  <2>. QED  BY <1>1, <1>2, <1>3, <2>1 DEF RegInv, CacheKnown, Known, Accounted
<1>6. PendSound(p)'
  BY Zenon, <1>1, <1>2, NothingWritten
<1>7. TaskSound(p)'
  <2>1. TaskSound(p)
    BY Zenon DEF RegInv
  <2>2. pc'[p] = After(p)
    BY Zenon, <1>1 DEF RegInv, RegTypes
  <2>. QED  BY <1>1, <1>2, <2>1, <2>2 DEF TaskSound, After, Known, Accounted
<1>. QED
  BY Zenon, <1>1, <1>4, <1>5, <1>6, <1>7, QuietStep DEF RegInv, RegTypes

\* A cache entry expires.
LEMMA ExpireKeeps ==
  ASSUME RegInv, NEW n \in Names, Expire(n)
  PROVE  RegInv'
<1>1. /\ UNCHANGED <<rows, audit, auditLock, pc, roles, ops, task, got, want, seen, pend>>
      /\ cache' = [cache EXCEPT ![n] = None]
  BY Zenon DEF Expire, local
<1>2. RegTypes' /\ CacheKnown'
  BY Zenon, <1>1 DEF RegInv, RegTypes, CacheKnown, Known, Accounted
<1>3. OneActive' /\ ActiveAccounted' /\ AuditNamesActiveRow' /\ Exclusive'
  BY <1>1 DEF RegInv, OneActive, ActiveAccounted, Accounted, AuditNamesActiveRow, ActiveRow, Exclusive
<1>4. ASSUME NEW p \in Procs PROVE TaskSound(p)' /\ PendSound(p)'
  <2>1. TaskSound(p) /\ PendSound(p)
    BY Zenon DEF RegInv
  <2>2. TaskSound(p)'
    BY Zenon, <1>1, <2>1 DEF TaskSound, Known, Accounted
  <2>3. \A j, row : ValueFits(p, j, row)' <=> ValueFits(p, j, row)
    BY Zenon, <1>1 DEF ValueFits
  <2>4. PendSound(p)'
    BY Zenon, <1>1, <2>1, <2>3 DEF PendSound, WriteSound
  <2>. QED  BY Zenon, <2>2, <2>4
<1>. QED  BY Zenon, <1>2, <1>3, <1>4 DEF RegInv

\* A look-up begins.
LEMMA BeginLookupKeeps ==
  ASSUME RegInv, NEW p \in Procs, BeginLookup(p, Target)
  PROVE  RegInv'
<1> DEFINE t == [kind |-> "read", name |-> Target, arg |-> None]
<1>1. /\ pc[p] = "idle" /\ UNCHANGED <<rows, audit, auditLock, cache, ops, roles, got, want, seen, pend>>
      /\ task' = [task EXCEPT ![p] = t] /\ pc' = [pc EXCEPT ![p] = "lookup"]
  BY Zenon DEF BeginLookup, shared
<1>2. t \in Tasks /\ Target \in Names /\ t.name = Target /\ t.kind = "read"
  BY Zenon, RegistryConstants DEF Tasks, Operations
<1> HIDE DEF t
<1>3. RegTypes'
  BY Zenon, <1>1, <1>2 DEF RegInv, RegTypes, Steps
<1>4. CacheKnown'
  BY Zenon, <1>1 DEF RegInv, CacheKnown, Known, Accounted
<1>5. PendSound(p)'
  BY Zenon, <1>1, NothingWritten DEF RegInv, PendSound
<1>6. TaskSound(p)'
  <2>1. pc'[p] = "lookup" /\ task'[p] = t
    BY Zenon, <1>1 DEF RegInv, RegTypes
  <2>. QED  BY Zenon, <1>2, <2>1 DEF TaskSound
<1>. QED
  BY Zenon, <1>1, <1>3, <1>4, <1>5, <1>6, QuietStep DEF RegInv, RegTypes

\* A look-up ends.
LEMMA EndLookupKeeps ==
  ASSUME RegInv, NEW p \in Procs, EndLookup(p)
  PROVE  RegInv'
<1>1. /\ pc[p] = "answered" /\ UNCHANGED <<rows, audit, auditLock, cache, ops, roles, task, got, want, seen, pend>>
      /\ pc' = [pc EXCEPT ![p] = "idle"]
  BY Zenon DEF EndLookup, shared, local
<1>2. RegTypes' /\ CacheKnown'
  BY Zenon, <1>1 DEF RegInv, RegTypes, Steps, CacheKnown, Known, Accounted
<1>3. PendSound(p)'
  BY Zenon, <1>1, NothingWritten DEF RegInv, PendSound
<1>4. TaskSound(p)'
  <2>1. pc'[p] = "idle"
    BY Zenon, <1>1 DEF RegInv, RegTypes
  <2>. QED  BY Zenon, <2>1 DEF TaskSound
<1>. QED
  BY Zenon, <1>1, <1>2, <1>3, <1>4, QuietStep DEF RegInv, RegTypes

\* An operation begins.
LEMMA BeginOpKeeps ==
  ASSUME RegInv, NEW p \in Procs, NEW kind, NEW name, NEW arg, NEW step,
         Begin(p, kind, name, arg, step),
         name \in Names, arg \in Rows \cup Changes \cup {None},
         \/ kind = "create" /\ step = "write" /\ arg \in Rows /\ arg.active
         \/ kind = "patch" /\ step = "lookup" /\ arg \in Changes
         \/ kind = "deactivate" /\ step = "lookup"
         \/ kind = "seed" /\ step = "write"
  PROVE  RegInv'
<1> DEFINE t == [kind |-> kind, name |-> name, arg |-> arg]
<1>1. /\ pc[p] = "idle" /\ UNCHANGED <<rows, audit, auditLock, cache, roles, got, want, seen, pend>>
      /\ task' = [task EXCEPT ![p] = t] /\ pc' = [pc EXCEPT ![p] = step]
  BY Zenon DEF Begin, shared
<1>2. t \in Tasks /\ t.name = name /\ t.kind = kind /\ t.arg = arg
  BY Zenon DEF Tasks, Operations
<1> HIDE DEF t
<1>3. RegTypes'
  BY Zenon, <1>1, <1>2 DEF RegInv, RegTypes, Steps
<1>4. CacheKnown'
  BY Zenon, <1>1 DEF RegInv, CacheKnown, Known, Accounted
<1>5. PendSound(p)'
  BY Zenon, <1>1, NothingWritten DEF RegInv, PendSound
<1>6. TaskSound(p)'
  <2>1. pc'[p] = step /\ task'[p] = t
    BY Zenon, <1>1 DEF RegInv, RegTypes
  <2>. QED  BY Zenon, <1>2, <2>1 DEF TaskSound, Operations
<1>. QED
  BY Zenon, <1>1, <1>3, <1>4, <1>5, <1>6, QuietStep DEF RegInv, RegTypes

\* The four operations begin with what they were asked for.
LEMMA EndpointKeeps ==
  ASSUME RegInv, NEW p \in Procs, Endpoint(p)
  PROVE  RegInv'
<1>1. Target \in Names
  BY Zenon, RegistryConstants
<1>2. ASSUME NEW row \in Rows, row.active, Begin(p, "create", Target, row, "write") PROVE RegInv'
  BY Zenon, <1>1, <1>2, BeginOpKeeps
<1>3. ASSUME NEW c \in Changes, Begin(p, "patch", Target, c, "lookup") PROVE RegInv'
  BY Zenon, <1>1, <1>3, BeginOpKeeps
<1>4. CASE Begin(p, "deactivate", Target, None, "lookup")
  BY Zenon, <1>1, <1>4, BeginOpKeeps
<1>5. CASE Begin(p, "seed", SeedTools[1].name, None, "write")
  <2>1. SeedTools[1] \in [name : Names, row : {r \in Rows : r.active}]
    BY Zenon, RegistryConstants, NonEmptySeq
  <2>. QED  BY Zenon, <1>5, <2>1, BeginOpKeeps
<1>. QED
  BY Zenon, <1>2, <1>3, <1>4, <1>5 DEF Endpoint, CreateTool, UpdateTool, DeactivateTool, InitFromConfig, Changes

\* A change merged into a row is a row.
LEMMA MergedRow ==
  ASSUME NEW row \in Rows, NEW c \in Changes
  PROVE  Merged(row, c) \in Rows
<1>1. DOMAIN row = {"def", "lim", "active"}
  BY Zenon DEF Rows
<1>2. row.def \in Defs /\ row.lim \in Limits /\ row.active \in BOOLEAN
  BY Zenon DEF Rows
<1>3. CASE c \in [def : Defs]
  <2>1. DOMAIN c = {"def"} /\ c["def"] \in Defs
    BY Zenon, <1>3
  <2>2. Merged(row, c) = [def |-> c["def"], lim |-> row.lim, active |-> row.active]
    BY <1>1, <2>1 DEF Merged
  <2>. QED  BY <1>2, <2>1, <2>2 DEF Rows
<1>4. CASE c \in [lim : Limits]
  <2>1. DOMAIN c = {"lim"} /\ c["lim"] \in Limits
    BY Zenon, <1>4
  <2>2. Merged(row, c) = [def |-> row.def, lim |-> c["lim"], active |-> row.active]
    BY <1>1, <2>1 DEF Merged
  <2>. QED  BY <1>2, <2>1, <2>2 DEF Rows
<1>5. CASE c \in [active : BOOLEAN]
  <2>1. DOMAIN c = {"active"} /\ c["active"] \in BOOLEAN
    BY Zenon, <1>5
  <2>2. Merged(row, c) = [def |-> row.def, lim |-> row.lim, active |-> c["active"]]
    BY <1>1, <2>1 DEF Merged
  <2>. QED  BY <1>2, <2>1, <2>2 DEF Rows
<1>. QED  BY Zenon, <1>3, <1>4, <1>5 DEF Changes

\* A patch is merged into the row that was read.
LEMMA MergeKeeps ==
  ASSUME RegInv, NEW p \in Procs, Merge(p)
  PROVE  RegInv'
<1>1. pc[p] = "merge" /\ UNCHANGED <<rows, audit, auditLock, cache>>
  BY Zenon DEF Merge, shared
<1>2. CacheKnown'
  BY Zenon, <1>1 DEF RegInv, CacheKnown, Known, Accounted
<1>3. CASE got[p] = None
  BY Zenon, <1>1, <1>2, <1>3, LeaveKeeps DEF Merge, RegInv, RegTypes
<1>4. CASE got[p] # None
  <2> DEFINE w == Merged(got[p], task[p].arg)
  <2>1. /\ want' = [want EXCEPT ![p] = w] /\ pc' = [pc EXCEPT ![p] = "lookup"]
        /\ UNCHANGED <<roles, ops, task, got, seen, pend>>
    BY Zenon, <1>4 DEF Merge
  <2>2. task[p].kind = "patch" /\ task[p].arg \in Changes /\ task[p].name \in Names /\ pend[p] = <<>>
    BY Zenon, <1>1 DEF RegInv, TaskSound, PendSound
  <2>3. w \in Rows
    BY Zenon, <1>4, <2>2, MergedRow DEF RegInv, RegTypes
  <2> HIDE DEF w
  <2>4. RegTypes'
    BY Zenon, <1>1, <2>1, <2>3 DEF RegInv, RegTypes, Steps
  <2>5. PendSound(p)'
    BY Zenon, <2>1, <2>2, NothingWritten
  <2>6. TaskSound(p)'
    <3>1. pc'[p] = "lookup"
      BY Zenon, <2>1 DEF RegInv, RegTypes
    <3>. QED  BY Zenon, <2>1, <2>2, <3>1 DEF TaskSound
  <2>. QED
    BY Zenon, <1>1, <1>2, <2>1, <2>4, <2>5, <2>6, QuietStep DEF RegInv, RegTypes
<1>. QED  BY Zenon, <1>3, <1>4

\* An operation without a row to work on ends, one with a row goes on.
LEMMA ExistingKeeps ==
  ASSUME RegInv, NEW p \in Procs, Existing(p)
  PROVE  RegInv'
<1>1. pc[p] \in {"compare", "retire"} /\ UNCHANGED <<rows, audit, auditLock, cache>>
  BY Zenon DEF Existing, shared
<1>2. CacheKnown'
  BY Zenon, <1>1 DEF RegInv, CacheKnown, Known, Accounted
<1>3. CASE got[p] = None
  BY Zenon, <1>1, <1>2, <1>3, LeaveKeeps DEF Existing, RegInv, RegTypes
<1>4. CASE got[p] # None
  <2>1. pc' = [pc EXCEPT ![p] = "statement"] /\ UNCHANGED <<roles, ops, task, got, want, seen, pend>>
    BY Zenon, <1>4 DEF Existing, local
  <2>2. RegTypes'
    BY Zenon, <1>1, <2>1 DEF RegInv, RegTypes, Steps
  <2>3. PendSound(p)'
    BY Zenon, <1>1, <2>1, NothingWritten DEF RegInv, PendSound
  <2>4. TaskSound(p)'
    <3>1. pc'[p] = "statement" /\ TaskSound(p)
      BY Zenon, <2>1 DEF RegInv, RegTypes
    <3>. QED  BY Zenon, <1>1, <1>4, <2>1, <3>1 DEF TaskSound, Known, Accounted
  <2>. QED
    BY Zenon, <1>1, <1>2, <2>1, <2>2, <2>3, <2>4, QuietStep DEF RegInv, RegTypes
<1>. QED  BY Zenon, <1>3, <1>4

\* The rows a statement chooses: there are some, since one was found before and
\* none is ever deleted.
LEMMA StatementKeeps ==
  ASSUME RegInv, NEW p \in Procs, Statement(p)
  PROVE  RegInv'
<1> DEFINE n == task[p].name
<1>1. /\ pc[p] = "statement" /\ UNCHANGED <<rows, audit, auditLock, cache, roles, ops, task, got, want, pend>>
      /\ seen' = [seen EXCEPT ![p] = DOMAIN rows[n]] /\ pc' = [pc EXCEPT ![p] = "write"]
  BY Zenon DEF Statement, shared
<1>2. TaskSound(p) /\ n \in Names /\ Known(n, got[p]) /\ pend[p] = <<>>
  BY Zenon, <1>1 DEF RegInv, TaskSound, PendSound
<1>3. rows[n] \in Seq(Rows) /\ rows[n] # <<>>
  BY Zenon, <1>2 DEF RegInv, RegTypes, Known
<1>4. DOMAIN rows[n] # {} /\ DOMAIN rows[n] \subseteq Nat
  BY Zenon, <1>3, NonEmptySeq
<1>5. RegTypes'
  BY Zenon, <1>1, <1>4 DEF RegInv, RegTypes, Steps
<1>6. CacheKnown'
  BY Zenon, <1>1 DEF RegInv, CacheKnown, Known, Accounted
<1>7. PendSound(p)'
  BY Zenon, <1>1, <1>2, NothingWritten
<1>8. TaskSound(p)'
  <2>1. pc'[p] = "write" /\ seen'[p] = DOMAIN rows[n]
    BY Zenon, <1>1 DEF RegInv, RegTypes
  <2>. QED  BY Zenon, <1>1, <1>2, <1>4, <2>1 DEF TaskSound, Known, Accounted, Operations
<1>. QED
  BY Zenon, <1>1, <1>5, <1>6, <1>7, <1>8, QuietStep DEF RegInv, RegTypes

\* What a statement writes: rows of the tool, of the value its operation asks for.
LEMMA WrittenRows ==
  ASSUME RegInv, NEW p \in Procs, pc[p] = "write", NEW w, w = Written(p),
         NEW k, k = Len(pend[p]) + 1
  PROVE  /\ w \in Writes
         /\ k \in Nat
         /\ w.name = IF task[p].kind = "seed" THEN SeedTools[k].name ELSE task[p].name
         /\ DOMAIN w.new # {} /\ DOMAIN w.new \subseteq {0} \cup DOMAIN rows[w.name]
         /\ task[p].kind = "create" => DOMAIN w.new = {0}
         /\ \A i \in DOMAIN w.new : ValueFits(p, k, w.new[i])
<1> DEFINE Good(v) == /\ v \in Writes
                      /\ k \in Nat
                      /\ v.name = IF task[p].kind = "seed" THEN SeedTools[k].name ELSE task[p].name
                      /\ DOMAIN v.new # {} /\ DOMAIN v.new \subseteq {0} \cup DOMAIN rows[v.name]
                      /\ task[p].kind = "create" => DOMAIN v.new = {0}
                      /\ \A i \in DOMAIN v.new : ValueFits(p, k, v.new[i])
<1>1. TaskSound(p) /\ PendSound(p) /\ RegTypes
  BY Zenon DEF RegInv
<1>2. k \in Nat /\ pend[p] \in Seq(Writes)
  BY <1>1 DEF RegTypes
<1>3. ASSUME NEW n \in Names, NEW D \in SUBSET Nat, D # {}, D \subseteq {0} \cup DOMAIN rows[n],
             NEW f \in [D -> Rows], w = [name |-> n, new |-> f],
             n = IF task[p].kind = "seed" THEN SeedTools[k].name ELSE task[p].name,
             task[p].kind = "create" => D = {0},
             \A i \in D : ValueFits(p, k, f[i])
      PROVE  Good(w)
  <2>1. w.name = n /\ w.new = f /\ DOMAIN f = D
    BY <1>3
  <2>2. w \in Writes
    BY <1>3 DEF Writes
  <2>. QED  BY Zenon, <1>2, <1>3, <2>1, <2>2
<1>4. \A n \in Names : rows[n] \in Seq(Rows) /\ DOMAIN rows[n] \subseteq Nat
  BY <1>1 DEF RegTypes
<1> HIDE DEF Good
<1>5. ASSUME task[p].kind = "create" PROVE Good(w)
  <2> DEFINE f == [i \in {0} |-> task[p].arg]
  <2>1. task[p].name \in Names /\ task[p].arg \in Rows
    BY Zenon, <1>1, <1>5 DEF TaskSound
  <2>2. w = [name |-> task[p].name, new |-> f]
    BY Zenon, <1>5 DEF Written
  <2>3. f \in [{0} -> Rows] /\ \A i \in {0} : ValueFits(p, k, f[i])
    BY Zenon, <1>5, <2>1 DEF ValueFits
  <2>. QED  BY <1>3, <1>5, <2>1, <2>2, <2>3
<1>6. ASSUME task[p].kind = "patch" PROVE Good(w)
  <2> DEFINE f == [i \in seen[p] |-> want[p]]
  <2>1. task[p].name \in Names /\ want[p] \in Rows /\ seen[p] # {} /\ seen[p] \subseteq DOMAIN rows[task[p].name]
    BY Zenon, <1>1, <1>6 DEF TaskSound, RegTypes
  <2>2. w = [name |-> task[p].name, new |-> f]
    BY Zenon, <1>6 DEF Written
  <2>3. f \in [seen[p] -> Rows] /\ \A i \in seen[p] : ValueFits(p, k, f[i])
    BY Zenon, <1>6, <2>1 DEF ValueFits
  <2>4. seen[p] \in SUBSET Nat
    BY Zenon, <1>1 DEF RegTypes
  <2>. QED  BY Zenon, <1>3, <1>6, <2>1, <2>2, <2>3, <2>4
<1>7. ASSUME task[p].kind = "deactivate" PROVE Good(w)
  <2> DEFINE n == task[p].name
             f == [i \in seen[p] |-> [rows[n][i] EXCEPT !.active = FALSE]]
  <2>1. n \in Names /\ seen[p] # {} /\ seen[p] \subseteq DOMAIN rows[n]
    BY Zenon, <1>1, <1>7 DEF TaskSound
  <2>2. w = [name |-> n, new |-> f]
    BY Zenon, <1>7 DEF Written
  <2>3. \A i \in seen[p] : rows[n][i] \in Rows
    BY <1>4, <2>1
  <2>4. \A r \in Rows : [r EXCEPT !.active = FALSE] \in Rows /\ ~[r EXCEPT !.active = FALSE].active
    BY Zenon DEF Rows
  <2>5. f \in [seen[p] -> Rows] /\ \A i \in seen[p] : ValueFits(p, k, f[i])
    BY Zenon, <1>7, <2>3, <2>4 DEF ValueFits
  <2>6. seen[p] \in SUBSET Nat
    BY Zenon, <1>1 DEF RegTypes
  <2> HIDE DEF f
  <2>. QED  BY Zenon, <1>3, <1>7, <2>1, <2>2, <2>5, <2>6
<1>8. ASSUME task[p].kind = "seed" PROVE Good(w)
  <2> DEFINE n == SeedTools[k].name
             A == {i \in DOMAIN rows[n] : rows[n][i].active}
             D == IF A = {} THEN {0} ELSE A
             f == [i \in D |-> SeedTools[k].row]
  <2>1. Len(pend[p]) < Len(SeedTools)
    BY Zenon, <1>1, <1>8 DEF PendSound
  <2>2. SeedTools[k] \in [name : Names, row : {r \in Rows : r.active}]
    <3>1. Len(SeedTools) \in Nat /\ k \in 1..Len(SeedTools)
      BY <1>2, <2>1, RegistryConstants
    <3>2. SeedTools \in Seq([name : Names, row : {r \in Rows : r.active}])
      BY Zenon, RegistryConstants
    <3>. QED  BY Zenon, <3>1, <3>2, ElementOfSeq
  <2>3. w = [name |-> n, new |-> f]
    BY Zenon, <1>8 DEF Written
  <2>4. f \in [D -> Rows] /\ \A i \in D : ValueFits(p, k, f[i])
    BY Zenon, <1>8, <2>2 DEF ValueFits
  <2>6. n \in Names
    BY Zenon, <2>2
  <2>7. A \subseteq DOMAIN rows[n] /\ DOMAIN rows[n] \subseteq Nat
    BY Zenon, <1>4, <2>6
  <2>5. D \in SUBSET Nat /\ D # {} /\ D \subseteq {0} \cup DOMAIN rows[n]
    <3>1. CASE A = {}
      <4>1. D = {0}
        BY Zenon, <3>1
      <4>. QED  BY ONLY <4>1
    <3>2. CASE A # {}
      BY Zenon, <2>7, <3>2
    <3>. QED  BY Zenon, <3>1, <3>2
  <2> HIDE DEF f, D, n
  <2>. QED  BY Zenon, <1>3, <1>8, <2>3, <2>4, <2>5, <2>6 DEF n
<1>9. task[p].kind \in {"create", "patch", "deactivate", "seed"}
  BY Zenon, <1>1 DEF TaskSound, Operations
<1>. QED  BY Zenon, <1>5, <1>6, <1>7, <1>8, <1>9 DEF Good

\* A statement writes its rows.
LEMMA WriteRowsKeeps ==
  ASSUME RegInv, NEW p \in Procs, WriteRows(p)
  PROVE  RegInv'
<1> SUFFICES ASSUME NEW w, w = Written(p), NEW k, k = Len(pend[p]) + 1
             PROVE  RegInv'
  BY Zenon
<1>1. pc[p] = "write" /\ Blockers(p, w) = {}
  BY Zenon DEF WriteRows
<1>2. CASE ~Accepted(w)
  BY Zenon, <1>2, RollbackKeeps DEF WriteRows
<1>3. CASE Accepted(w)
  <2>1. /\ pend' = [pend EXCEPT ![p] = Append(pend[p], w)] /\ pc' = [pc EXCEPT ![p] = "audit"]
        /\ UNCHANGED <<rows, audit, auditLock, cache, roles, ops, task, got, want, seen>>
    BY Zenon, <1>3 DEF WriteRows, shared
  <2>2. /\ w \in Writes /\ k \in Nat
        /\ w.name = IF task[p].kind = "seed" THEN SeedTools[k].name ELSE task[p].name
        /\ DOMAIN w.new # {} /\ DOMAIN w.new \subseteq {0} \cup DOMAIN rows[w.name]
        /\ task[p].kind = "create" => DOMAIN w.new = {0}
        /\ \A i \in DOMAIN w.new : ValueFits(p, k, w.new[i])
    BY Zenon, <1>1, WrittenRows
  <2>3. Activates(w) => /\ \E i \in DOMAIN w.new : DOMAIN w.new = {i}
                        /\ \A i \in DOMAIN rows[w.name] \ DOMAIN w.new : ~rows[w.name][i].active
    BY Zenon, <1>3 DEF Accepted
  <2>4. \A q \in Procs \ {p} : \A j \in DOMAIN pend[q] :
          pend[q][j].name = w.name => ~(Activates(w) /\ Activates(pend[q][j]))
    BY Zenon, <1>1 DEF Blockers
  <2>5. pend[p] \in Seq(Writes) /\ pend'[p] = Append(pend[p], w)
    BY Zenon, <2>1 DEF RegInv, RegTypes
  <2>6. /\ DOMAIN pend'[p] = DOMAIN pend[p] \cup {k} /\ pend'[p][k] = w /\ Len(pend'[p]) = k
        /\ \A j \in DOMAIN pend[p] : pend'[p][j] = pend[p][j]
    BY <2>2, <2>5
  <2>7. RegTypes'
    <3>1. Append(pend[p], w) \in Seq(Writes)
      BY <2>2, <2>5
    <3>. QED  BY Zenon, <2>1, <3>1 DEF RegInv, RegTypes, Steps
  <2>8. CacheKnown' /\ OneActive' /\ ActiveAccounted' /\ AuditNamesActiveRow'
    <3>1. CacheKnown'
      BY Zenon, <2>1 DEF RegInv, CacheKnown, Known, Accounted
    <3>2. OneActive' /\ ActiveAccounted'
      BY Zenon, <2>1 DEF RegInv, OneActive, ActiveAccounted, Accounted
    <3>3. AuditNamesActiveRow'
      BY <2>1 DEF RegInv, AuditNamesActiveRow, ActiveRow
    <3>. QED  BY Zenon, <3>1, <3>2, <3>3
  <2>9. ASSUME NEW q \in Procs PROVE TaskSound(q)'
    <3>1. TaskSound(q) /\ (q # p => pc'[q] = pc[q]) /\ pc'[p] = "audit"
      BY Zenon, <2>1 DEF RegInv, RegTypes
    <3>2. CASE q # p
      BY Zenon, <2>1, <3>1, <3>2 DEF TaskSound, Known, Accounted
    <3>3. CASE q = p
      BY Zenon, <1>1, <2>1, <3>1, <3>3 DEF TaskSound, Known, Accounted
    <3>. QED  BY Zenon, <3>2, <3>3
  <2>10. ASSUME NEW q \in Procs PROVE PendSound(q)'
    <3>1. PendSound(q)
      BY Zenon DEF RegInv
    <3>2. \A j, row : ValueFits(q, j, row)' <=> ValueFits(q, j, row)
      BY Zenon, <2>1 DEF ValueFits
    <3>3. CASE q # p
      <4>1. pend'[q] = pend[q] /\ pc'[q] = pc[q]
        BY Zenon, <2>1, <3>3 DEF RegInv, RegTypes
      <4>2. ASSUME NEW j \in DOMAIN pend[q] PROVE WriteSound(q, j)'
        <5>1. WriteSound(q, j) /\ pend'[q][j] = pend[q][j]
          BY Zenon, <3>1, <4>1 DEF PendSound
        <5>. QED  BY Zenon, <2>1, <3>2, <5>1 DEF WriteSound
      <4>. QED  BY Zenon, <2>1, <3>1, <4>1, <4>2 DEF PendSound
    <3>4. CASE q = p
      <4>1. pc'[p] = "audit"
        BY Zenon, <2>1 DEF RegInv, RegTypes
      <4>2. ASSUME NEW j \in DOMAIN pend[p] PROVE WriteSound(p, j)'
        <5>1. WriteSound(p, j) /\ pend'[p][j] = pend[p][j]
          BY Zenon, <2>6, <3>1, <3>4 DEF PendSound
        <5>. QED  BY Zenon, <2>1, <3>2, <3>4, <5>1 DEF WriteSound
      <4>3. WriteSound(p, k)'
        <5>1. pend'[p][k] = w /\ rows' = rows /\ task' = task
          BY Zenon, <2>1, <2>6
        <5>2. \A i \in DOMAIN w.new : ValueFits(p, k, w.new[i])'
          BY Zenon, <2>2, <3>2, <3>4, <5>1
        <5>. QED  BY Zenon, <2>2, <2>3, <5>1, <5>2 DEF WriteSound, Activates
      <4>4. Len(pend'[p]) <= IF task[p].kind = "seed" THEN Len(SeedTools) ELSE 1
        <5>1. Len(pend[p]) < IF task[p].kind = "seed" THEN Len(SeedTools) ELSE 1
          BY Zenon, <1>1, <3>1, <3>4 DEF PendSound
        <5>2. Len(pend[p]) \in Nat /\ Len(SeedTools) \in Nat
          BY <2>5, RegistryConstants
        <5>. QED  BY <2>6, <5>1, <5>2
      <4>. QED  BY Zenon, <2>1, <2>6, <3>4, <4>1, <4>2, <4>3, <4>4 DEF PendSound
    <3>. QED  BY Zenon, <3>3, <3>4
  <2>11. Exclusive'
    <3>1. \A q \in Procs \ {p} : pend'[q] = pend[q]
      BY Zenon, <2>1 DEF RegInv, RegTypes
    <3>2. ASSUME NEW q \in Procs \ {p}, NEW i \in DOMAIN pend'[p], NEW j \in DOMAIN pend[q],
                 pend'[p][i].name = pend[q][j].name
          PROVE  ~(Activates(pend'[p][i]) /\ Activates(pend[q][j]))
      BY Zenon, <2>4, <2>6, <3>2 DEF RegInv, Exclusive
    <3>. QED  BY <3>1, <3>2 DEF RegInv, Exclusive, Activates
  <2>. QED  BY Zenon, <2>7, <2>8, <2>9, <2>10, <2>11 DEF RegInv
<1>. QED  BY Zenon, <1>2, <1>3

\* The audit lock is taken.
LEMMA LockAuditKeeps ==
  ASSUME RegInv, NEW p \in Procs, LockAudit(p)
  PROVE  RegInv'
<1> DEFINE next == IF task[p].kind = "seed" /\ Len(pend[p]) < Len(SeedTools) THEN "write" ELSE "commit"
<1>1. /\ pc[p] = "audit" /\ pc' = [pc EXCEPT ![p] = next]
      /\ UNCHANGED <<rows, audit, cache, roles, ops, task, got, want, seen, pend>>
  BY Zenon DEF LockAudit, local
<1>2. RegTypes' /\ CacheKnown'
  BY Zenon, <1>1 DEF RegInv, RegTypes, Steps, CacheKnown, Known, Accounted
<1>3. TaskSound(p) /\ PendSound(p) /\ pc'[p] = next
  BY Zenon, <1>1 DEF RegInv, RegTypes
<1>4. TaskSound(p)'
  BY <1>1, <1>3 DEF TaskSound, Known, Accounted
<1>5. PendSound(p)'
  <2>1. \A j, row : ValueFits(p, j, row)' <=> ValueFits(p, j, row)
    BY Zenon, <1>1 DEF ValueFits
  <2>2. ASSUME NEW j \in DOMAIN pend[p] PROVE WriteSound(p, j)'
    <3>1. WriteSound(p, j)
      BY Zenon, <1>3 DEF PendSound
    <3>. QED  BY Zenon, <1>1, <2>1, <3>1 DEF WriteSound
  <2>. QED  BY <1>1, <1>3, <2>2 DEF PendSound
<1>. QED
  BY Zenon, <1>1, <1>2, <1>4, <1>5, QuietStep DEF RegInv, RegTypes

\* The cache entry is dropped after the commit.
LEMMA InvalidateKeeps ==
  ASSUME RegInv, NEW p \in Procs, Invalidate(p)
  PROVE  RegInv'
<1>1. UNCHANGED <<rows, audit>> /\ Leave(p)
      /\ cache' = [n \in Names |-> IF task[p].kind = "seed" \/ n = task[p].name THEN None ELSE cache[n]]
  BY Zenon DEF Invalidate
<1>2. CacheKnown' /\ cache' \in [Names -> [row : Rows, raced : BOOLEAN] \cup {None}]
  BY Zenon, <1>1 DEF RegInv, RegTypes, CacheKnown, Known, Accounted
<1>. QED  BY Zenon, <1>1, <1>2, LeaveKeeps

\* A sequence and what is appended to it.
LEMMA Appended ==
  ASSUME NEW S, NEW s \in Seq(S), NEW t \in Seq(S)
  PROVE  /\ s \o t \in Seq(S) /\ Len(s \o t) = Len(s) + Len(t)
         /\ DOMAIN (s \o t) = 1..(Len(s) + Len(t))
         /\ \A k \in 1..Len(s) : (s \o t)[k] = s[k]
         /\ \A k \in 1..Len(t) : (s \o t)[Len(s) + k] = t[k]
         /\ \A k \in Len(s)+1..Len(s)+Len(t) : k - Len(s) \in 1..Len(t) /\ (s \o t)[k] = t[k - Len(s)]
OBVIOUS

\* The fields of a write.
LEMMA WriteTyped ==
  ASSUME NEW w \in Writes
  PROVE  w.name \in Names /\ \A i \in DOMAIN w.new : w.new[i] \in Rows
<1>1. PICK D \in SUBSET Nat : w.new \in [D -> Rows]
  BY Zenon DEF Writes
<1>. QED  BY Zenon, <1>1 DEF Writes

\* The table s once the write w is applied to the table t: it has the old rows'
\* numbers, and an activating write's row is the only active one; another write leaves
\* old rows active at most.
TableRight(s, w, t) ==
  /\ s \in Seq(Rows) /\ s # <<>>
  /\ DOMAIN t \subseteq DOMAIN s
  /\ Activates(w) => \E x \in DOMAIN s : \E i \in DOMAIN w.new :
       s[x] = w.new[i] /\ \A y \in DOMAIN s : s[y].active => y = x
  /\ ~Activates(w) => \A y \in DOMAIN s : s[y].active => y \in DOMAIN t /\ s[y] = t[y]

\* The table after a write: its active row is the written one, or one it had before.
LEMMA AppliedWrite ==
  ASSUME RegInv, NEW p \in Procs, NEW j \in DOMAIN pend[p]
  PROVE  TableRight(Applied(pend[p][j]), pend[p][j], rows[pend[p][j].name])
<1> SUFFICES ASSUME NEW w, w = pend[p][j], NEW s, s = Applied(w)
             PROVE  TableRight(s, w, rows[w.name])
  BY Zenon
<1>1. PendSound(p) /\ pend[p] \in Seq(Writes)
  BY Zenon DEF RegInv, RegTypes
<1>2. WriteSound(p, j) /\ w \in Writes
  BY <1>1 DEF PendSound
<1> DEFINE old == rows[w.name]
           upd == [i \in DOMAIN old |-> IF i \in DOMAIN w.new THEN w.new[i] ELSE old[i]]
<1>3. /\ w.name \in Names /\ old \in Seq(Rows)
      /\ \A i \in DOMAIN w.new : w.new[i] \in Rows
  BY Zenon, <1>2, WriteTyped DEF RegInv, RegTypes
<1>4. /\ DOMAIN w.new # {} /\ DOMAIN w.new \subseteq {0} \cup DOMAIN old
      /\ Activates(w) => /\ \E i \in DOMAIN w.new : DOMAIN w.new = {i}
                         /\ \A i \in DOMAIN old \ DOMAIN w.new : ~old[i].active
  BY Zenon, <1>2 DEF WriteSound
<1>5. Len(old) \in Nat /\ DOMAIN old = 1..Len(old) /\ 0 \notin DOMAIN old
  BY <1>3
<1>6. upd \in Seq(Rows) /\ Len(upd) = Len(old) /\ DOMAIN upd = DOMAIN old
  <2>1. \A i \in DOMAIN old : upd[i] \in Rows
    BY <1>3
  <2>. QED  BY <1>3, <1>5, <2>1
<1>7. s = IF 0 \in DOMAIN w.new THEN Append(upd, w.new[0]) ELSE upd
  BY Zenon DEF Applied
<1>8. \A i \in DOMAIN old : upd[i] = IF i \in DOMAIN w.new THEN w.new[i] ELSE old[i]
  BY Zenon
<1> HIDE DEF old, upd
<1>9. CASE 0 \in DOMAIN w.new
  <2>1. s = Append(upd, w.new[0]) /\ w.new[0] \in Rows
    BY Zenon, <1>3, <1>7, <1>9
  <2>2. /\ s \in Seq(Rows) /\ s # <<>> /\ DOMAIN s = DOMAIN old \cup {Len(old) + 1}
        /\ s[Len(old) + 1] = w.new[0] /\ \A i \in DOMAIN old : s[i] = upd[i]
    BY <1>5, <1>6, <2>1
  <2>3. ASSUME Activates(w)
        PROVE  \E x \in DOMAIN s : \E i \in DOMAIN w.new :
                 s[x] = w.new[i] /\ \A y \in DOMAIN s : s[y].active => y = x
    <3>1. DOMAIN w.new = {0}
      BY Zenon, <1>4, <1>9, <2>3
    <3>2. \A y \in DOMAIN s : s[y].active => y = Len(old) + 1
      BY Zenon, <1>4, <1>5, <1>8, <2>2, <2>3, <3>1
    <3>3. Len(old) + 1 \in DOMAIN s /\ 0 \in DOMAIN w.new
      BY Zenon, <1>9, <2>2
    <3>. QED  BY Zenon, <2>2, <3>2, <3>3
  <2>4. ASSUME ~Activates(w)
        PROVE  \A y \in DOMAIN s : s[y].active => y \in DOMAIN old /\ s[y] = old[y]
    BY Zenon, <1>8, <1>9, <2>2, <2>4 DEF Activates
  <2>. QED  BY Zenon, <1>9, <2>2, <2>3, <2>4 DEF old, TableRight
<1>10. CASE 0 \notin DOMAIN w.new
  <2>1. s = upd /\ DOMAIN w.new \subseteq DOMAIN old
    BY Zenon, <1>4, <1>7, <1>10
  <2>2. s \in Seq(Rows) /\ s # <<>> /\ DOMAIN s = DOMAIN old
    BY <1>4, <1>6, <2>1
  <2>3. ASSUME Activates(w)
        PROVE  \E x \in DOMAIN s : \E i \in DOMAIN w.new :
                 s[x] = w.new[i] /\ \A y \in DOMAIN s : s[y].active => y = x
    <3>1. PICK i \in DOMAIN w.new : DOMAIN w.new = {i}
      BY Zenon, <1>4, <2>3
    <3>. QED  BY <1>4, <1>8, <2>1, <2>2, <2>3, <3>1
  <2>4. ASSUME ~Activates(w)
        PROVE  \A y \in DOMAIN s : s[y].active => y \in DOMAIN old /\ s[y] = old[y]
    BY Zenon, <1>8, <2>1, <2>2, <2>4 DEF Activates
  <2>. QED  BY Zenon, <2>2, <2>3, <2>4 DEF old, TableRight
<1>. QED  BY Zenon, <1>9, <1>10

\* The event of a write: it activates exactly when the write does, and then accounts
\* for the row and gives its hash.
EventRight(e, w) ==
  /\ e \in AuditEvents /\ e.name = w.name
  /\ Activating(e) <=> Activates(w)
  /\ Activating(e) => \A i \in DOMAIN w.new :
       Accounts(e, w.name, w.new[i]) /\ e.new = ComputeHash(w.name, w.new[i])

\* The event of a write has the hash of what was written.
LEMMA EventOfWrite ==
  ASSUME RegInv, NEW p \in Procs, pc[p] = "commit", NEW j \in DOMAIN pend[p]
  PROVE  EventRight(EventOf(p, pend[p][j]), pend[p][j])
<1> SUFFICES ASSUME NEW w, w = pend[p][j], NEW e, e = EventOf(p, w)
             PROVE  EventRight(e, w)
  BY Zenon
<1>1. PendSound(p) /\ TaskSound(p) /\ pend[p] \in Seq(Writes)
  BY Zenon DEF RegInv, RegTypes
<1>2. WriteSound(p, j) /\ w \in Writes
  BY <1>1 DEF PendSound
<1>3. /\ w.name \in Names
      /\ \A i \in DOMAIN w.new : w.new[i] \in Rows /\ ValueFits(p, j, w.new[i])
      /\ DOMAIN w.new # {}
      /\ task[p].kind = "create" => DOMAIN w.new = {0}
  BY Zenon, <1>2, WriteTyped DEF WriteSound
<1>4. \A n \in Names, r \in Rows : ComputeHash(n, r) \in Names \X Defs
  BY Zenon DEF ComputeHash, Rows
<1>5. \A r \in Rows : r.active \in BOOLEAN /\ r # None
  BY Zenon, RegistryConstants DEF Rows
<1> DEFINE Good == /\ e \in AuditEvents /\ e.name = w.name
                   /\ Activating(e) <=> Activates(w)
                   /\ Activating(e) => \A i \in DOMAIN w.new :
                        Accounts(e, w.name, w.new[i]) /\ e.new = ComputeHash(w.name, w.new[i])
<1>6. ASSUME task[p].kind = "create" PROVE Good
  <2>1. e = AuditEvent("CREATE", w.name, None, ComputeHash(w.name, w.new[0]), w.new[0], "info")
    BY Zenon, <1>6 DEF EventOf
  <2>2. w.new[0] \in Rows /\ DOMAIN w.new = {0} /\ w.new[0].active
    BY Zenon, <1>1, <1>3, <1>6 DEF ValueFits, TaskSound
  <2>3. e \in AuditEvents
    BY <1>3, <1>4, <2>1, <2>2 DEF AuditEvent, AuditEvents
  <2>4. /\ e.op = "CREATE" /\ e.name = w.name /\ e.full = w.new[0]
        /\ e.new = ComputeHash(w.name, w.new[0])
    BY <2>1 DEF AuditEvent
  <2>. QED  BY Zenon, <1>5, <2>2, <2>3, <2>4 DEF Activating, Activates, Accounts
<1>7. ASSUME task[p].kind = "patch" PROVE Good
  <2> DEFINE sev == IF got[p].def # want[p].def THEN "critical" ELSE "warn"
  <2>1. e = AuditEvent("UPDATE", w.name, ComputeHash(w.name, got[p]), ComputeHash(w.name, want[p]), want[p], sev)
    BY Zenon, <1>7 DEF EventOf
  <2>2. want[p] \in Rows /\ got[p] \in Rows /\ \A i \in DOMAIN w.new : w.new[i] = want[p]
    BY Zenon, <1>1, <1>3, <1>7 DEF ValueFits, TaskSound, RegInv, RegTypes
  <2>3. e \in AuditEvents
    <3>1. sev \in {"info", "warn", "critical"}
      BY Zenon
    <3>. HIDE DEF sev
    <3>. QED  BY <1>3, <1>4, <2>1, <2>2, <3>1 DEF AuditEvent, AuditEvents
  <2>4. /\ e.op = "UPDATE" /\ e.name = w.name /\ e.full = want[p]
        /\ e.new = ComputeHash(w.name, want[p])
    BY <2>1 DEF AuditEvent
  <2>5. Activating(e) <=> want[p].active
    BY Zenon, <2>4 DEF Activating
  <2>6. Activates(w) <=> want[p].active
    BY Zenon, <1>3, <2>2 DEF Activates
  <2>7. Activating(e) => Accounts(e, w.name, want[p])
    BY Zenon, <1>5, <2>2, <2>4 DEF Accounts
  <2>. QED  BY Zenon, <2>2, <2>3, <2>4, <2>5, <2>6, <2>7
<1>8. ASSUME task[p].kind = "deactivate" PROVE Good
  <2>1. e = AuditEvent("DELETE", w.name, ComputeHash(w.name, got[p]), None, got[p], "warn")
    BY Zenon, <1>8 DEF EventOf
  <2>2. got[p] \in Rows /\ \A i \in DOMAIN w.new : ~w.new[i].active
    BY Zenon, <1>1, <1>3, <1>8 DEF ValueFits, TaskSound, RegInv, RegTypes
  <2>3. e \in AuditEvents
    BY <1>3, <1>4, <2>1, <2>2 DEF AuditEvent, AuditEvents
  <2>4. e.op = "DELETE" /\ e.name = w.name
    BY <2>1 DEF AuditEvent
  <2>. QED  BY Zenon, <2>2, <2>3, <2>4 DEF Activating, Activates
<1>9. ASSUME task[p].kind = "seed" PROVE Good
  <2> DEFINE row == w.new[CHOOSE i \in DOMAIN w.new : TRUE]
  <2>1. e = AuditEvent("UPSERT", w.name, None, ComputeHash(w.name, row), None, "info")
    BY Zenon, <1>9 DEF EventOf
  <2>2. \A i \in DOMAIN w.new : w.new[i] = SeedTools[j].row
    BY Zenon, <1>3, <1>9 DEF ValueFits
  <2>3. row = SeedTools[j].row /\ row \in Rows
    BY Zenon, <1>3, <2>2
  <2>4. row.active
    <3>1. Len(SeedTools) \in Nat /\ Len(pend[p]) \in Nat /\ j \in 1..Len(pend[p])
      BY <1>1, RegistryConstants
    <3>2. Len(pend[p]) <= Len(SeedTools)
      BY Zenon, <1>1, <1>9 DEF PendSound
    <3>3. j \in 1..Len(SeedTools)
      BY <3>1, <3>2
    <3>4. SeedTools \in Seq([name : Names, row : {r \in Rows : r.active}])
      BY Zenon, RegistryConstants
    <3>5. SeedTools[j] \in [name : Names, row : {r \in Rows : r.active}]
      BY Zenon, <3>3, <3>4, ElementOfSeq
    <3>. QED  BY Zenon, <2>3, <3>5
  <2> HIDE DEF row
  <2>5. e \in AuditEvents
    BY <1>3, <1>4, <2>1, <2>3 DEF AuditEvent, AuditEvents
  <2>6. e.op = "UPSERT" /\ e.name = w.name /\ e.new = ComputeHash(w.name, row)
    BY <2>1 DEF AuditEvent
  <2>7. Activating(e) /\ Activates(w)
    BY Zenon, <1>3, <2>2, <2>3, <2>4, <2>6 DEF Activating, Activates
  <2>. QED  BY Zenon, <2>2, <2>3, <2>5, <2>6, <2>7 DEF Accounts
<1>10. task[p].kind \in {"create", "patch", "deactivate", "seed"}
  BY Zenon, <1>1 DEF TaskSound, Operations
<1>. QED  BY Zenon, <1>6, <1>7, <1>8, <1>9, <1>10 DEF EventRight

\* A transaction writes each tool once.
LEMMA NamesDistinct ==
  ASSUME RegInv, NEW p \in Procs, pc[p] = "commit",
         NEW i \in DOMAIN pend[p], NEW j \in DOMAIN pend[p], pend[p][i].name = pend[p][j].name
  PROVE  i = j
<1>1. PendSound(p) /\ pend[p] \in Seq(Writes)
  BY Zenon DEF RegInv, RegTypes
<1>2. /\ Len(pend[p]) \in Nat /\ i \in 1..Len(pend[p]) /\ j \in 1..Len(pend[p])
      /\ Len(SeedTools) \in Nat /\ DOMAIN SeedTools = 1..Len(SeedTools)
  BY <1>1, RegistryConstants
<1>3. CASE task[p].kind = "seed"
  <2>1. Len(pend[p]) <= Len(SeedTools)
    BY Zenon, <1>1, <1>3 DEF PendSound
  <2>2. i \in DOMAIN SeedTools /\ j \in DOMAIN SeedTools
    BY <1>2, <2>1
  <2>3. pend[p][i].name = SeedTools[i].name /\ pend[p][j].name = SeedTools[j].name
    BY Zenon, <1>1, <1>3 DEF PendSound, WriteSound
  <2>. QED  BY Zenon, <2>2, <2>3, RegistryConstants
<1>4. CASE task[p].kind # "seed"
  <2>1. Len(pend[p]) <= 1
    BY Zenon, <1>1, <1>4 DEF PendSound
  <2>. QED  BY <1>2, <2>1
<1>. QED  BY Zenon, <1>3, <1>4

\* Named(n, t, l): the log l names, in its last activating event, what is active in
\* the table t of the tool n.
Named(n, t, l) ==
  \A i \in DOMAIN t : t[i].active =>
    \E k \in DOMAIN l :
      /\ l[k].name = n /\ Activating(l[k])
      /\ l[k].new = ComputeHash(n, t[i])
      /\ \A m \in k+1..Len(l) : l[m].name = n => ~Activating(l[m])

\* The invariant says of each table that the log names its active row.
LEMMA NamedTables ==
  ASSUME RegInv, NEW n \in Names
  PROVE  Named(n, rows[n], audit)
<1>1. ASSUME NEW i \in DOMAIN rows[n], rows[n][i].active
      PROVE  \E k \in DOMAIN audit :
               /\ audit[k].name = n /\ Activating(audit[k])
               /\ audit[k].new = ComputeHash(n, rows[n][i])
               /\ \A m \in k+1..Len(audit) : audit[m].name = n => ~Activating(audit[m])
  <2>1. ActiveRow(n) = rows[n][i]
    BY Zenon, <1>1, ActiveRowIs DEF RegInv
  <2>2. rows[n][i] \in Rows /\ rows[n][i] # None
    BY RegistryConstants DEF RegInv, RegTypes
  <2>3. ActiveRow(n) # None
    BY Zenon, <2>1, <2>2
  <2>. QED  BY <2>1, <2>3 DEF RegInv, AuditNamesActiveRow
<1>. QED  BY Zenon, <1>1 DEF Named

\* A commit publishes rows and events together.
LEMMA CommitKeeps ==
  ASSUME RegInv, NEW p \in Procs, Commit(p)
  PROVE  RegInv'
<1> SUFFICES ASSUME NEW P, P = pend[p], NEW E, E = [j \in DOMAIN P |-> EventOf(p, P[j])],
                    NEW L, L = Len(audit), NEW old, old = audit
             PROVE  RegInv'
  BY Zenon
<1> DEFINE Touched(n) == \E j \in DOMAIN P : P[j].name = n
<1>1. /\ pc[p] = "commit" /\ audit' = old \o E
      /\ pend' = [pend EXCEPT ![p] = <<>>] /\ pc' = [pc EXCEPT ![p] = "invalidate"]
      /\ rows' = [n \in Names |-> IF Touched(n) THEN Applied(P[CHOOSE j \in DOMAIN P : P[j].name = n])
                                  ELSE rows[n]]
      /\ UNCHANGED <<cache, roles, ops, task, got, want, seen>>
  BY Zenon DEF Commit
<1>2. P \in Seq(Writes) /\ old \in Seq(AuditEvents) /\ L \in Nat
  BY DEF RegInv, RegTypes
<1>3. \A i, j \in DOMAIN P : P[i].name = P[j].name => i = j
  BY Zenon, <1>1, NamesDistinct
\* The log.
<1>4. /\ \A j \in DOMAIN P : E[j] \in AuditEvents
      /\ \A j \in DOMAIN P : E[j].name = P[j].name
      /\ \A j \in DOMAIN P : Activating(E[j]) <=> Activates(P[j])
      /\ \A j \in DOMAIN P : Activating(E[j]) => \A i \in DOMAIN P[j].new :
           Accounts(E[j], P[j].name, P[j].new[i]) /\ E[j].new = ComputeHash(P[j].name, P[j].new[i])
  <2>1. \A j \in DOMAIN P : E[j] = EventOf(p, P[j])
    BY Zenon
  <2>2. ASSUME NEW j \in DOMAIN P
        PROVE  /\ E[j] \in AuditEvents /\ E[j].name = P[j].name
               /\ Activating(E[j]) <=> Activates(P[j])
               /\ Activating(E[j]) => \A i \in DOMAIN P[j].new :
                    Accounts(E[j], P[j].name, P[j].new[i]) /\ E[j].new = ComputeHash(P[j].name, P[j].new[i])
    <3>1. EventRight(EventOf(p, P[j]), P[j])
      BY Zenon, <1>1, EventOfWrite
    <3>2. E[j] = EventOf(p, P[j])
      BY Zenon, <2>1
    <3>. QED  BY Zenon, <3>1, <3>2 DEF EventRight
  <2>. QED  BY Zenon, <2>2
<1>5. E \in Seq(AuditEvents) /\ Len(E) = Len(P) /\ DOMAIN E = DOMAIN P
  <2>1. DOMAIN P = 1..Len(P) /\ Len(P) \in Nat
    BY <1>2
  <2>. QED  BY <1>4, <2>1
<1>6. /\ audit' \in Seq(AuditEvents) /\ Len(audit') = L + Len(P) /\ DOMAIN audit' = 1..(L + Len(P))
      /\ \A k \in 1..L : audit'[k] = old[k]
      /\ \A k \in DOMAIN P : audit'[L + k] = E[k]
      /\ \A k \in L+1..L+Len(P) : k - L \in DOMAIN P /\ audit'[k] = E[k - L]
      /\ DOMAIN old = 1..L /\ Len(P) \in Nat /\ DOMAIN P = 1..Len(P)
  <2>1. audit' = old \o E /\ L = Len(old) /\ Len(E) = Len(P)
    BY Zenon, <1>1, <1>5
  <2>2. DOMAIN old = 1..L /\ Len(P) \in Nat /\ DOMAIN P = 1..Len(P)
    BY <1>2
  <2>. QED  BY <1>2, <1>5, <2>1, <2>2, Appended
<1>22. ASSUME NEW k \in DOMAIN P
       PROVE  k \in Nat /\ L + k \in Nat /\ L + k \in DOMAIN audit' /\ audit'[L + k] = E[k]
  <2>1. k \in Nat /\ 1 <= k /\ k <= Len(P) /\ Len(P) \in Nat /\ L \in Nat
    BY <1>2, <1>6
  <2>2. L + k \in 1..(L + Len(P)) /\ L + k \in Nat
    BY ONLY <2>1
  <2>3. audit'[L + k] = E[k]
    BY Zenon, <1>6
  <2>. QED  BY Zenon, <1>6, <2>1, <2>2, <2>3
<1>23. ASSUME NEW k \in Nat, NEW m \in k+1..Len(audit'), m > L
       PROVE  m - L \in DOMAIN P /\ audit'[m] = E[m - L] /\ m # k
  <2>1. m \in L+1..L+Len(P) /\ m # k
    BY <1>2, <1>6, <1>23
  <2>. QED  BY Zenon, <1>6, <2>1
\* The tables.
<1>7. ASSUME NEW n \in Names, ~Touched(n) PROVE rows'[n] = rows[n]
  BY Zenon, <1>1, <1>7
<1>8. ASSUME NEW n \in Names, NEW j \in DOMAIN P, P[j].name = n PROVE rows'[n] = Applied(P[j])
  <2>1. (CHOOSE i \in DOMAIN P : P[i].name = n) = j
    BY Zenon, <1>3, <1>8
  <2>. QED  BY Zenon, <1>1, <1>8, <2>1
<1> HIDE DEF Touched
<1>9. ASSUME NEW n \in Names, NEW j \in DOMAIN P, P[j].name = n
      PROVE  /\ rows'[n] \in Seq(Rows) /\ rows'[n] # <<>>
             /\ DOMAIN rows[n] \subseteq DOMAIN rows'[n]
             /\ Activates(P[j]) => \E x \in DOMAIN rows'[n] : \E i \in DOMAIN P[j].new :
                  rows'[n][x] = P[j].new[i] /\ \A y \in DOMAIN rows'[n] : rows'[n][y].active => y = x
             /\ ~Activates(P[j]) => \A y \in DOMAIN rows'[n] : rows'[n][y].active =>
                  y \in DOMAIN rows[n] /\ rows'[n][y] = rows[n][y]
  <2>1. TableRight(Applied(P[j]), P[j], rows[P[j].name])
    BY Zenon, AppliedWrite
  <2>2. TableRight(rows'[n], P[j], rows[n])
    BY Zenon, <1>8, <1>9, <2>1
  <2>. QED  BY Zenon, <2>2 DEF TableRight
<1>10. \A n \in Names : /\ rows'[n] \in Seq(Rows) /\ DOMAIN rows[n] \subseteq DOMAIN rows'[n]
                        /\ rows[n] # <<>> => rows'[n] # <<>>
  BY <1>7, <1>9 DEF Touched, RegInv, RegTypes
<1>11. RegTypes'
  <2>1. rows' \in [Names -> Seq(Rows)]
    BY Zenon, <1>1, <1>10
  <2>2. <<>> \in Seq(Writes)
    OBVIOUS
  <2>. QED  BY Zenon, <1>1, <1>6, <2>1, <2>2 DEF RegInv, RegTypes, Steps
<1>12. \A n, row : Accounted(n, row) => Accounted(n, row)'
  BY <1>6 DEF Accounted
<1>13. \A n \in Names : \A row : Known(n, row) => Known(n, row)'
  BY Zenon, <1>10, <1>12 DEF Known
<1>14. CacheKnown'
  BY Zenon, <1>1, <1>13 DEF RegInv, CacheKnown
<1>15. OneActive'
  BY <1>7, <1>9 DEF Touched, RegInv, OneActive
<1>16. ActiveAccounted'
  <2>1. ASSUME NEW n \in Names, NEW x \in DOMAIN rows'[n], rows'[n][x].active
        PROVE  \E k \in DOMAIN audit' : Accounts(audit'[k], n, rows'[n][x])
    <3>1. CASE x \in DOMAIN rows[n] /\ rows'[n][x] = rows[n][x]
      <4>1. PICK k \in DOMAIN old : Accounts(old[k], n, rows[n][x])
        BY Zenon, <2>1, <3>1 DEF RegInv, ActiveAccounted, Accounted
      <4>2. k \in DOMAIN audit' /\ audit'[k] = old[k]
        BY <1>2, <1>6
      <4>. QED  BY Zenon, <3>1, <4>1, <4>2
    <3>2. CASE ~(x \in DOMAIN rows[n] /\ rows'[n][x] = rows[n][x])
      <4>1. PICK j \in DOMAIN P : P[j].name = n
        BY Zenon, <1>7, <3>2 DEF Touched
      <4>2. Activates(P[j])
        BY <1>9, <2>1, <3>2, <4>1
      <4>3. PICK i \in DOMAIN P[j].new : rows'[n][x] = P[j].new[i]
        BY <1>9, <2>1, <4>1, <4>2
      <4>4. Accounts(E[j], n, rows'[n][x])
        BY Zenon, <1>4, <4>1, <4>2, <4>3
      <4>5. L + j \in DOMAIN audit' /\ audit'[L + j] = E[j]
        BY Zenon, <1>22
      <4>. QED  BY Zenon, <4>4, <4>5
    <3>. QED  BY Zenon, <3>1, <3>2
  <2>. QED  BY Zenon, <2>1 DEF ActiveAccounted, Accounted
<1>17. ASSUME NEW n \in Names PROVE Named(n, rows'[n], audit')
  <2>1. Named(n, rows[n], old)
    BY Zenon, NamedTables
  <2>2. ASSUME NEW x \in DOMAIN rows'[n], rows'[n][x].active,
               x \in DOMAIN rows[n], rows'[n][x] = rows[n][x],
               \A j \in DOMAIN P : P[j].name = n => ~Activates(P[j])
        PROVE  \E k \in DOMAIN audit' :
                 /\ audit'[k].name = n /\ Activating(audit'[k])
                 /\ audit'[k].new = ComputeHash(n, rows'[n][x])
                 /\ \A m \in k+1..Len(audit') : audit'[m].name = n => ~Activating(audit'[m])
    <3>1. PICK k \in DOMAIN old :
                 /\ old[k].name = n /\ Activating(old[k])
                 /\ old[k].new = ComputeHash(n, rows[n][x])
                 /\ \A m \in k+1..Len(old) : old[m].name = n => ~Activating(old[m])
      BY Zenon, <2>1, <2>2 DEF Named
    <3>2. k \in 1..L /\ k \in DOMAIN audit' /\ audit'[k] = old[k]
      BY <1>2, <1>6
    <3>3. ASSUME NEW m \in k+1..Len(audit'), audit'[m].name = n PROVE ~Activating(audit'[m])
      <4>1. CASE m <= L
        BY <1>2, <1>6, <3>1, <3>2, <3>3, <4>1
      <4>2. CASE m > L
        <5>1. m - L \in DOMAIN P /\ audit'[m] = E[m - L]
          BY <1>23, <3>2, <4>2
        <5>2. PICK i \in DOMAIN P : audit'[m] = E[i]
          BY Zenon, <5>1
        <5>3. P[i].name = n /\ ~Activates(P[i])
          <6>1. E[i].name = n
            BY Zenon, <3>3, <5>2
          <6>2. P[i].name = n
            BY Zenon, <1>4, <6>1
          <6>. QED  BY Zenon, <2>2, <6>2
        <5>. QED  BY Zenon, <1>4, <5>2, <5>3
      <4>. QED  BY <1>2, <1>6, <3>2, <4>1, <4>2
    <3>. QED  BY Zenon, <2>2, <3>1, <3>2, <3>3
  <2>3. ASSUME NEW x \in DOMAIN rows'[n], rows'[n][x].active,
               NEW j \in DOMAIN P, P[j].name = n, Activates(P[j])
        PROVE  \E k \in DOMAIN audit' :
                 /\ audit'[k].name = n /\ Activating(audit'[k])
                 /\ audit'[k].new = ComputeHash(n, rows'[n][x])
                 /\ \A m \in k+1..Len(audit') : audit'[m].name = n => ~Activating(audit'[m])
    <3>1. PICK i \in DOMAIN P[j].new : rows'[n][x] = P[j].new[i]
      BY <1>9, <2>3
    <3>2. L + j \in DOMAIN audit' /\ audit'[L + j] = E[j] /\ j \in Nat /\ L + j \in Nat
      BY Zenon, <1>22
    <3>3. E[j].name = n /\ Activating(E[j]) /\ E[j].new = ComputeHash(n, rows'[n][x])
      BY <1>4, <2>3, <3>1
    <3>4. ASSUME NEW m \in (L + j)+1..Len(audit'), audit'[m].name = n PROVE ~Activating(audit'[m])
      <4>1. m \in Nat /\ m > L /\ m # L + j
        BY <1>2, <1>6, <3>2
      <4>2. m - L \in DOMAIN P /\ audit'[m] = E[m - L]
        BY Zenon, <1>23, <3>2, <4>1
      <4>3. m - L # j
        BY <1>2, <3>2, <4>1
      <4>4. PICK h \in DOMAIN P : audit'[m] = E[h] /\ h # j
        BY Zenon, <4>2, <4>3
      <4>5. P[h].name = n /\ P[j].name = n
        BY Zenon, <1>4, <2>3, <3>4, <4>4
      <4>. QED  BY Zenon, <1>3, <4>4, <4>5
    <3>. QED  BY Zenon, <3>2, <3>3, <3>4
  <2>4. ASSUME NEW x \in DOMAIN rows'[n], rows'[n][x].active
        PROVE  \/ /\ x \in DOMAIN rows[n] /\ rows'[n][x] = rows[n][x]
                  /\ \A j \in DOMAIN P : P[j].name = n => ~Activates(P[j])
               \/ \E j \in DOMAIN P : P[j].name = n /\ Activates(P[j])
    BY Zenon, <1>7, <1>9, <2>4 DEF Touched
  <2>. QED  BY Zenon, <2>2, <2>3, <2>4 DEF Named
<1>18. AuditNamesActiveRow'
  <2>1. ASSUME NEW n \in Names, ActiveRow(n)' # None
        PROVE  \E x \in DOMAIN rows'[n] : rows'[n][x].active /\ ActiveRow(n)' = rows'[n][x]
    <3> DEFINE Is(i) == rows'[n][i].active
    <3>1. (\E i \in DOMAIN rows'[n] : Is(i)) =>
            /\ (CHOOSE i \in DOMAIN rows'[n] : Is(i)) \in DOMAIN rows'[n]
            /\ Is(CHOOSE i \in DOMAIN rows'[n] : Is(i))
      BY Zenon
    <3>. QED  BY Zenon, <2>1, <3>1 DEF ActiveRow
  <2>. QED  BY <1>17, <2>1 DEF Named, AuditNamesActiveRow
<1>19. ASSUME NEW q \in Procs PROVE TaskSound(q)'
  <2>1. TaskSound(q) /\ (q # p => pc'[q] = pc[q]) /\ pc'[p] = "invalidate"
    BY Zenon, <1>1 DEF RegInv, RegTypes
  <2>2. task[q].name \in Names => DOMAIN rows[task[q].name] \subseteq DOMAIN rows'[task[q].name]
    BY Zenon, <1>10
  <2>3. task[q].name \in Names => (Known(task[q].name, got[q]) => Known(task[q].name, got[q])')
    BY Zenon, <1>1, <1>13
  <2>4. CASE q # p
    BY Zenon, <1>1, <2>1, <2>2, <2>3, <2>4 DEF TaskSound
  <2>5. CASE q = p
    BY Zenon, <1>1, <2>1, <2>2, <2>3, <2>5 DEF TaskSound
  <2>. QED  BY Zenon, <2>4, <2>5
<1>20. ASSUME NEW q \in Procs PROVE PendSound(q)'
  <2>1. CASE q = p
    BY Zenon, <1>1, <2>1, NothingWritten DEF RegInv, RegTypes
  <2>2. CASE q # p
    <3>1. PendSound(q) /\ pend'[q] = pend[q] /\ pc'[q] = pc[q]
      BY Zenon, <1>1, <2>2 DEF RegInv, RegTypes
    <3>2. ASSUME NEW j \in DOMAIN pend[q], NEW w, w = pend[q][j] PROVE WriteSound(q, j)'
      <4>1. WriteSound(q, j) /\ pend'[q][j] = w
        BY Zenon, <3>1, <3>2 DEF PendSound
      <4>2. \A row : ValueFits(q, j, row)' <=> ValueFits(q, j, row)
        BY Zenon, <1>1 DEF ValueFits
      <4>3. w.name \in Names
        BY <3>2, WriteTyped DEF RegInv, RegTypes
      <4>4. DOMAIN rows[w.name] \subseteq DOMAIN rows'[w.name]
        BY Zenon, <1>10, <4>3
      <4>5. ASSUME Activates(w), NEW i \in DOMAIN rows'[w.name] \ DOMAIN w.new
            PROVE  ~rows'[w.name][i].active
        <5>1. \A x \in DOMAIN rows[w.name] \ DOMAIN w.new : ~rows[w.name][x].active
          BY Zenon, <3>2, <4>1, <4>5 DEF WriteSound
        <5>2. \A k \in DOMAIN P : P[k].name = w.name => ~Activates(P[k])
          BY Zenon, <2>2, <3>2, <4>5 DEF RegInv, Exclusive
        <5>. QED  BY <1>7, <1>9, <4>3, <4>5, <5>1, <5>2 DEF Touched
      <4>. QED  BY Zenon, <1>1, <3>2, <4>1, <4>2, <4>4, <4>5 DEF WriteSound, Activates
    <3>. QED  BY Zenon, <1>1, <3>1, <3>2 DEF PendSound
  <2>. QED  BY Zenon, <2>1, <2>2
<1>21. Exclusive'
  <2>1. \A q \in Procs : pend'[q] = pend[q] \/ DOMAIN pend'[q] = {}
    BY <1>1 DEF RegInv, RegTypes
  <2>. QED  BY <2>1 DEF RegInv, Exclusive, Activates
<1>. QED
  BY Zenon, <1>11, <1>14, <1>15, <1>16, <1>18, <1>19, <1>20, <1>21 DEF RegInv

-----------------------------------------------------------------------------
(* The theorems *)

\* The steps of a process together.
LEMMA RegistryStepKeeps ==
  ASSUME RegInv, NEW p \in Procs, RegistryStep(p)
  PROVE  RegInv'
<1>1. CASE GetByName(p)
  BY Zenon, <1>1, CacheHitKeeps, QueryKeeps, FillKeeps DEF GetByName
<1>2. CASE Transaction(p)
  <2>1. FailAudit(p) \/ DeadlockAbort(p) => Rollback(p)
    BY Zenon DEF FailAudit, DeadlockAbort
  <2>. QED
    BY Zenon, <1>2, <2>1, StatementKeeps, WriteRowsKeeps, LockAuditKeeps, RollbackKeeps, CommitKeeps,
       InvalidateKeeps DEF Transaction
<1>. QED
  BY Zenon, <1>1, <1>2, MergeKeeps, ExistingKeeps DEF RegistryStep

\* The initial tables have their events.
LEMMA RegInvInit == RegistryInit => RegInv
<1> SUFFICES ASSUME RegistryInit PROVE RegInv
  OBVIOUS
<1>1. PICK s \in Starts : /\ rows = [n \in Names |-> IF n = Target THEN s.rows ELSE <<>>]
                          /\ audit = s.audit
  BY Zenon DEF RegistryInit
<1>2. Recorded(s) /\ Target \in Names
  BY Zenon, RegistryConstants
<1>3. /\ rows[Target] = s.rows /\ s.rows \in Seq(Rows) /\ audit \in Seq(AuditEvents)
      /\ \A n \in Names \ {Target} : rows[n] = <<>> /\ DOMAIN rows[n] = {}
  <2>1. DOMAIN <<>> = {}
    OBVIOUS
  <2>. QED  BY Zenon, <1>1, <1>2, <2>1 DEF Recorded
<1>4. RegTypes
  <2>1. rows \in [Names -> Seq(Rows)]
    BY <1>1, <1>3
  <2>2. NoTask \in Tasks /\ <<>> \in Seq(Writes)
    BY DEF NoTask, Tasks
  <2>. QED  BY <1>3, <2>1, <2>2 DEF RegistryInit, RegTypes, Steps
<1>5. OneActive
  BY Zenon, <1>2, <1>3 DEF OneActive, Recorded
<1>11. \A x \in DOMAIN rows[Target] : rows[Target][x].active =>
         \E k \in DOMAIN audit :
           /\ Accounts(audit[k], Target, rows[Target][x])
           /\ audit[k].new = ComputeHash(Target, rows[Target][x])
           /\ \A m \in k+1..Len(audit) : audit[m].name = Target => ~Activating(audit[m])
  BY <1>1, <1>2, <1>3 DEF Recorded
<1>6. ActiveAccounted
  <2>1. ASSUME NEW n \in Names, NEW i \in DOMAIN rows[n], rows[n][i].active PROVE Accounted(n, rows[n][i])
    <3>1. n = Target
      BY Zenon, <1>3
    <3>. QED  BY Zenon, <1>11, <2>1, <3>1 DEF Accounted
  <2>. QED  BY Zenon, <2>1 DEF ActiveAccounted
<1>7. CacheKnown
  BY Zenon DEF CacheKnown, RegistryInit
<1>8. AuditNamesActiveRow
  <2>1. ASSUME NEW n \in Names, ActiveRow(n) # None
        PROVE  \E i \in DOMAIN audit :
                 /\ audit[i].name = n /\ Activating(audit[i])
                 /\ audit[i].new = ComputeHash(n, ActiveRow(n))
                 /\ \A j \in i+1..Len(audit) : audit[j].name = n => ~Activating(audit[j])
    <3>1. PICK x \in DOMAIN rows[n] : rows[n][x].active /\ ActiveRow(n) = rows[n][x]
      BY Zenon, <2>1, ActiveRowIs
    <3>2. n = Target
      BY Zenon, <1>3
    <3>. QED  BY Zenon, <1>11, <3>1, <3>2 DEF Accounts
  <2>. QED  BY Zenon, <2>1 DEF AuditNamesActiveRow
<1>9. ASSUME NEW p \in Procs PROVE TaskSound(p) /\ PendSound(p)
  <2>1. pc[p] = "idle" /\ pend[p] = <<>> /\ DOMAIN <<>> = {}
    BY DEF RegistryInit
  <2>. QED  BY <2>1 DEF TaskSound, PendSound
<1>10. Exclusive
  <2>1. \A p \in Procs : DOMAIN pend[p] = {}
    BY DEF RegistryInit
  <2>. QED  BY Zenon, <2>1 DEF Exclusive
<1>. QED  BY Zenon, <1>4, <1>5, <1>6, <1>7, <1>8, <1>9, <1>10 DEF RegInv

\* A step elsewhere.
LEMMA RegistryUnmoved ==
  ASSUME RegInv, UNCHANGED registry
  PROVE  RegInv'
<1>1. UNCHANGED <<rows, audit, auditLock, cache, pc, roles, ops, task, got, want, seen, pend>>
  BY Zenon DEF registry
<1>2. RegTypes'
  BY Zenon, <1>1 DEF RegInv, RegTypes
<1>3. OneActive' /\ ActiveAccounted' /\ CacheKnown'
  BY Zenon, <1>1 DEF RegInv, OneActive, ActiveAccounted, CacheKnown, Known, Accounted
<1>4. AuditNamesActiveRow' /\ Exclusive'
  <2>1. AuditNamesActiveRow'
    <3>1. \A n : ActiveRow(n)' = ActiveRow(n)
      BY <1>1 DEF ActiveRow
    <3>. QED  BY <1>1, <3>1 DEF RegInv, AuditNamesActiveRow
  <2>2. Exclusive'
    BY <1>1 DEF RegInv, Exclusive
  <2>. QED  BY Zenon, <2>1, <2>2
<1>5. ASSUME NEW p \in Procs PROVE TaskSound(p)' /\ PendSound(p)'
  <2>1. TaskSound(p) /\ PendSound(p)
    BY Zenon DEF RegInv
  <2>2. TaskSound(p)'
    BY <1>1, <2>1 DEF TaskSound, Known, Accounted
  <2>3. \A j, row : ValueFits(p, j, row)' <=> ValueFits(p, j, row)
    BY <1>1 DEF ValueFits
  <2>4. PendSound(p)'
    BY <1>1, <2>1, <2>3 DEF PendSound, WriteSound
  <2>. QED  BY Zenon, <2>2, <2>4
<1>. QED  BY Zenon, <1>2, <1>3, <1>4, <1>5 DEF RegInv

\* Every step keeps it.
LEMMA RegistryNextKeeps ==
  ASSUME RegInv, [RegistryNext]_registry
  PROVE  RegInv'
<1>1. CASE RegistryNext
  BY Zenon, <1>1, EndpointKeeps, RegistryStepKeeps, EndLookupKeeps, BeginLookupKeeps, ExpireKeeps DEF RegistryNext
<1>. QED  BY Zenon, <1>1, RegistryUnmoved

\* Both steps together.
LEMMA RegInvHolds == RegistrySpec => []RegInv
  BY RegInvInit, RegistryNextKeeps, PTL DEF RegistrySpec

\* The audit log names the definition in force, whatever administrators do at the
\* same time: AppendWithTx joins the transaction of the change, and the unique index
\* keeps two of them from activating rows of one tool.
THEOREM RegistryAudited == RegistrySpec => []AuditNamesActiveRow
<1>1. RegInv => AuditNamesActiveRow
  BY Zenon DEF RegInv
<1>. QED  BY <1>1, RegInvHolds, PTL

-----------------------------------------------------------------------------
(* The cache *)

\* A step of p that leaves the tables alone, adds nothing to the cache and is not the
\* invalidation.
LEMMA StaleQuiet ==
  ASSUME StaleOnlyIfRaced, NEW p \in Procs, pc[p] # "invalidate", UNCHANGED <<rows, cache>>,
         \A q \in Procs \ {p} : pc'[q] = pc[q] /\ task'[q] = task[q]
  PROVE  StaleOnlyIfRaced'
<1>1. \A n \in Names : ActiveRow(n)' = ActiveRow(n)
  BY DEF ActiveRow
<1>2. \A n : Invalidating(n) => Invalidating(n)'
  BY Zenon DEF Invalidating
<1>. QED  BY Zenon, <1>1, <1>2 DEF StaleOnlyIfRaced

\* A look-up that begins or ends, or an operation that begins, makes nothing stale.
LEMMA StaleLookup ==
  ASSUME RegInv, StaleOnlyIfRaced, NEW p \in Procs, BeginLookup(p, Target) \/ EndLookup(p) \/ Endpoint(p)
  PROVE  StaleOnlyIfRaced'
<1>1. CASE BeginLookup(p, Target)
  <2>1. pc[p] # "invalidate" /\ UNCHANGED <<rows, cache>>
    BY Zenon, <1>1 DEF BeginLookup, shared
  <2>2. \A q \in Procs \ {p} : pc'[q] = pc[q] /\ task'[q] = task[q]
    BY <1>1 DEF BeginLookup, RegInv, RegTypes
  <2>. QED  BY Zenon, <2>1, <2>2, StaleQuiet
<1>2. CASE EndLookup(p)
  <2>1. pc[p] # "invalidate" /\ UNCHANGED <<rows, cache, task>>
    BY Zenon, <1>2 DEF EndLookup, shared, local
  <2>2. \A q \in Procs \ {p} : pc'[q] = pc[q] /\ task'[q] = task[q]
    BY <1>2, <2>1 DEF EndLookup, RegInv, RegTypes
  <2>. QED  BY Zenon, <2>1, <2>2, StaleQuiet
<1>3. ASSUME NEW kind, NEW name, NEW arg, NEW step, Begin(p, kind, name, arg, step)
      PROVE  StaleOnlyIfRaced'
  <2>1. pc[p] # "invalidate" /\ UNCHANGED <<rows, cache>>
    BY Zenon, <1>3 DEF Begin, shared
  <2>2. \A q \in Procs \ {p} : pc'[q] = pc[q] /\ task'[q] = task[q]
    BY <1>3 DEF Begin, RegInv, RegTypes
  <2>. QED  BY Zenon, <2>1, <2>2, StaleQuiet
<1>4. CASE Endpoint(p)
  BY Zenon, <1>3, <1>4 DEF Endpoint, CreateTool, UpdateTool, DeactivateTool, InitFromConfig
<1>. QED  BY Zenon, <1>1, <1>2, <1>4

\* An entry that is gone is not stale.
LEMMA StaleExpire ==
  ASSUME RegInv, StaleOnlyIfRaced, NEW m \in Names, Expire(m)
  PROVE  StaleOnlyIfRaced'
<1>1. UNCHANGED <<rows, pc, task>> /\ cache' = [cache EXCEPT ![m] = None]
  BY Zenon DEF Expire, local
<1>2. \A n \in Names : ActiveRow(n)' = ActiveRow(n) /\ (Invalidating(n)' <=> Invalidating(n))
  BY <1>1 DEF ActiveRow, Invalidating
<1>3. \A n \in Names : cache'[n] = cache[n] \/ cache'[n] = None
  BY Zenon, <1>1 DEF RegInv, RegTypes
<1>. QED  BY Zenon, <1>2, <1>3 DEF StaleOnlyIfRaced

\* What is added is noted as raced when the table no longer says it.
LEMMA StaleFill ==
  ASSUME RegInv, StaleOnlyIfRaced, NEW p \in Procs, Fill(p)
  PROVE  StaleOnlyIfRaced'
<1> DEFINE m == task[p].name
<1>1. /\ UNCHANGED <<rows, task>> /\ pc[p] = "fill" /\ pc' = [pc EXCEPT ![p] = After(p)]
      /\ cache' = [cache EXCEPT ![m] = [row |-> got[p], raced |-> got[p] # ActiveRow(m)]]
  BY Zenon DEF Fill, local
<1>2. m \in Names
  BY Zenon, <1>1 DEF RegInv, TaskSound
<1>3. /\ \A n \in Names \ {m} : cache'[n] = cache[n]
      /\ cache'[m].row = got[p] /\ cache'[m].raced = (got[p] # ActiveRow(m))
  BY <1>1, <1>2 DEF RegInv, RegTypes
<1>4. \A n \in Names : ActiveRow(n)' = ActiveRow(n)
  BY <1>1 DEF ActiveRow
<1>5. \A n : Invalidating(n) => Invalidating(n)'
  BY <1>1 DEF Invalidating, RegInv, RegTypes
<1>6. \A n \in Names \ {m} : cache'[n] # None /\ cache'[n].row # ActiveRow(n)' => cache'[n].raced \/ Invalidating(n)'
  BY Zenon, <1>3, <1>4, <1>5 DEF StaleOnlyIfRaced
<1>7. cache'[m].row # ActiveRow(m)' => cache'[m].raced
  <2>1. ActiveRow(m)' = ActiveRow(task[p].name)
    BY Zenon, <1>1, <1>2, <1>4
  <2>. QED  BY Zenon, <1>1, <1>3, <2>1
<1>8. m' = m
  BY Zenon, <1>1
<1> HIDE DEF m
<1>9. ASSUME NEW n \in Names, cache'[n] # None, cache'[n].row # ActiveRow(n)'
      PROVE  cache'[n].raced \/ Invalidating(n)'
  <2>1. CASE n = m
    BY <1>7, <1>8, <1>9, <2>1
  <2>. QED  BY Zenon, <1>6, <1>9, <2>1
<1>. QED  BY Zenon, <1>9 DEF StaleOnlyIfRaced

\* The writer has yet to invalidate what it has just changed.
LEMMA StaleCommit ==
  ASSUME RegInv, StaleOnlyIfRaced, NEW p \in Procs, Commit(p)
  PROVE  StaleOnlyIfRaced'
<1> DEFINE Touched(n) == \E j \in DOMAIN pend[p] : pend[p][j].name = n
<1>1. /\ UNCHANGED <<cache, task>> /\ pc[p] = "commit" /\ pc' = [pc EXCEPT ![p] = "invalidate"]
      /\ \A n \in Names : ~Touched(n) => rows'[n] = rows[n]
  BY DEF Commit
<1>2. pc'[p] = "invalidate" /\ \A q \in Procs \ {p} : pc'[q] = pc[q]
  BY Zenon, <1>1 DEF RegInv, RegTypes
<1>3. \A n : Invalidating(n) => Invalidating(n)'
  BY <1>1, <1>2 DEF Invalidating
<1>4. ASSUME NEW n \in Names, Touched(n) PROVE Invalidating(n)'
  <2>1. PICK j \in DOMAIN pend[p] : pend[p][j].name = n
    BY Zenon, <1>4
  <2>2. task[p].kind = "seed" \/ task[p].name = n
    BY <2>1 DEF RegInv, PendSound, WriteSound
  <2>. QED  BY Zenon, <1>1, <1>2, <2>2 DEF Invalidating
<1>5. ASSUME NEW n \in Names, ~Touched(n) PROVE ActiveRow(n)' = ActiveRow(n)
  <2>1. rows'[n] = rows[n]
    BY Zenon, <1>1, <1>5
  <2>. QED  BY <2>1 DEF ActiveRow
<1> HIDE DEF Touched
<1>6. ASSUME NEW n \in Names, cache'[n] # None, cache'[n].row # ActiveRow(n)'
      PROVE  cache'[n].raced \/ Invalidating(n)'
  <2>1. CASE Touched(n)
    BY Zenon, <1>4, <2>1
  <2>2. CASE ~Touched(n)
    <3>1. cache[n] # None /\ cache[n].row # ActiveRow(n)
      BY Zenon, <1>1, <1>5, <1>6, <2>2
    <3>. QED  BY Zenon, <1>1, <1>3, <3>1 DEF StaleOnlyIfRaced
  <2>. QED  BY Zenon, <2>1, <2>2
<1>. QED  BY Zenon, <1>6 DEF StaleOnlyIfRaced

\* Nor is one that was dropped.
LEMMA StaleInvalidate ==
  ASSUME RegInv, StaleOnlyIfRaced, NEW p \in Procs, Invalidate(p)
  PROVE  StaleOnlyIfRaced'
<1>1. /\ UNCHANGED rows /\ pc[p] = "invalidate"
      /\ cache' = [n \in Names |-> IF task[p].kind = "seed" \/ n = task[p].name THEN None ELSE cache[n]]
      /\ \A q \in Procs \ {p} : pc'[q] = pc[q] /\ task'[q] = task[q]
  BY DEF Invalidate, Leave, RegInv, RegTypes
<1>2. \A n \in Names : ActiveRow(n)' = ActiveRow(n)
  BY <1>1 DEF ActiveRow
<1>3. ASSUME NEW n \in Names, cache'[n] # None
      PROVE  cache'[n] = cache[n] /\ (Invalidating(n) => Invalidating(n)')
  <2>1. task[p].kind # "seed" /\ task[p].name # n /\ cache'[n] = cache[n]
    BY Zenon, <1>1, <1>3
  <2>. QED  BY Zenon, <1>1, <2>1 DEF Invalidating
<1>. QED  BY Zenon, <1>2, <1>3 DEF StaleOnlyIfRaced

\* The steps of a process together.
LEMMA StaleStep ==
  ASSUME RegInv, StaleOnlyIfRaced, NEW p \in Procs, RegistryStep(p)
  PROVE  StaleOnlyIfRaced'
<1>1. ASSUME pc[p] # "invalidate", UNCHANGED <<rows, cache, task>>, NEW step, pc' = [pc EXCEPT ![p] = step]
      PROVE  StaleOnlyIfRaced'
  <2>1. \A q \in Procs \ {p} : pc'[q] = pc[q] /\ task'[q] = task[q]
    BY <1>1 DEF RegInv, RegTypes
  <2>. QED  BY Zenon, <1>1, <2>1, StaleQuiet
<1>2. ASSUME pc[p] # "invalidate", UNCHANGED <<rows, cache>>, Leave(p)
      PROVE  StaleOnlyIfRaced'
  <2>1. \A q \in Procs \ {p} : pc'[q] = pc[q] /\ task'[q] = task[q]
    BY <1>2 DEF RegInv, RegTypes, Leave
  <2>. QED  BY Zenon, <1>2, <2>1, StaleQuiet
<1>3. CASE CacheHit(p) \/ Query(p)
  BY Zenon, <1>1, <1>3 DEF CacheHit, Query, shared
<1>4. CASE Merge(p)
  BY Zenon, <1>1, <1>2, <1>4 DEF Merge, shared
<1>5. CASE Existing(p)
  <2>1. pc[p] # "invalidate" /\ UNCHANGED <<rows, cache>>
    BY <1>5 DEF Existing, shared
  <2>. QED  BY Zenon, <1>1, <1>2, <1>5, <2>1 DEF Existing, local
<1>6. CASE Statement(p)
  BY Zenon, <1>1, <1>6 DEF Statement, shared
<1>7. CASE WriteRows(p)
  BY Zenon, <1>1, <1>2, <1>7 DEF WriteRows, Rollback, shared
<1>8. CASE LockAudit(p)
  BY Zenon, <1>1, <1>8 DEF LockAudit, local
<1>9. CASE FailAudit(p)
  BY Zenon, <1>2, <1>9 DEF FailAudit, Rollback
<1>10. CASE DeadlockAbort(p)
  BY Zenon, <1>2, <1>10 DEF DeadlockAbort, Deadlocked, Rollback
<1>. QED
  BY Zenon, <1>3, <1>4, <1>5, <1>6, <1>7, <1>8, <1>9, <1>10, StaleFill, StaleCommit, StaleInvalidate
  DEF RegistryStep, GetByName, Transaction

\* At first the cache is empty.
LEMMA StaleInit == RegistryInit => StaleOnlyIfRaced
  BY Zenon DEF RegistryInit, StaleOnlyIfRaced

\* A step elsewhere.
LEMMA StaleUnmoved ==
  ASSUME StaleOnlyIfRaced, UNCHANGED registry
  PROVE  StaleOnlyIfRaced'
<1>1. UNCHANGED <<rows, cache, pc, task>>
  BY Zenon DEF registry
<1>. QED  BY <1>1 DEF StaleOnlyIfRaced, ActiveRow, Invalidating

\* A cached row that is out of date is one a look-up added late, or one its writer is
\* about to drop: a look-up that reads after the commit is never served the old row by
\* anybody else's entry.
THEOREM RegistryStale == RegistrySpec => []StaleOnlyIfRaced
<1>1. RegInv /\ StaleOnlyIfRaced /\ [RegistryNext]_registry => StaleOnlyIfRaced'
  <2> SUFFICES ASSUME RegInv, StaleOnlyIfRaced, [RegistryNext]_registry PROVE StaleOnlyIfRaced'
    OBVIOUS
  <2>1. CASE RegistryNext
    BY Zenon, <2>1, StaleStep, StaleLookup, StaleExpire DEF RegistryNext
  <2>. QED  BY Zenon, <2>1, StaleUnmoved
<1>. QED  BY <1>1, StaleInit, RegInvHolds, PTL DEF RegistrySpec
===============================================================================
