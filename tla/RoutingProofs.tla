---------------------------- MODULE RoutingProofs ----------------------------
(***************************************************************************)
(* Proofs about the provider registry and the fallback chain, for any       *)
(* providers, priorities, models, limits, fallback rules and completions:   *)
(* candidates come once and in the order of priority, and the attempts of a *)
(* completion are bounded by the limits of the providers it tries.          *)
(***************************************************************************)
EXTENDS Routing, SequenceTheorems, WellFoundedInduction, TLAPS

-----------------------------------------------------------------------------
(* Least numbers and sums *)

\* A set of numbers that is not empty has a least member.
LEMMA LeastThere ==
  ASSUME NEW S, S \subseteq Nat, S # {}
  PROVE  Min(S) \in S /\ \A y \in S : Min(S) <= y
<1>1. PICK x \in S : \A y \in S : ~(<<y, x>> \in OpToRel(<, Nat))
  BY Zenon, NatLessThanWellFounded, WFMin
<1>2. ASSUME NEW y \in S PROVE x <= y
  <2>1. <<y, x>> \in Nat \X Nat /\ <<y, x>>[1] = y /\ <<y, x>>[2] = x
    BY Zenon
  <2>2. ~(y < x)
    BY Zenon, <1>1, <2>1 DEF OpToRel
  <2>. QED  BY <2>2
<1>3. \E z \in S : \A y \in S : z <= y
  BY Zenon, <1>2
<1>. QED  BY Zenon, <1>3 DEF Min

\* Without a limit above 0 of its own a provider has the chain's.
LEMMA RetriesNat ==
  ASSUME NEW p \in Providers
  PROVE  GetMaxRetriesForProvider(p) \in Nat
BY RoutingConstants DEF GetMaxRetriesForProvider, DefaultRetries

\* Allowance is what its recursive definition says: by induction up to the
\* length of the sequence a function with these values exists, and so the one
\* the definition chooses has them.
LEMMA AllowanceSteps ==
  ASSUME NEW c \in Seq(Providers)
  PROVE  /\ \A n \in 0..Len(c) : Allowance(c)[n] \in Nat
         /\ Allowance(c)[0] = 0
         /\ \A n \in 1..Len(c) :
              Allowance(c)[n] =
                Allowance(c)[n - 1] + GetMaxRetriesForProvider(c[n]) + 1
<1> DEFINE W(n) == GetMaxRetriesForProvider(c[n]) + 1
           Sums(g, m) == /\ g \in [0..m -> Nat] /\ g[0] = 0
                         /\ \A n \in 1..m : g[n] = g[n - 1] + W(n)
<1>1. Len(c) \in Nat /\ \A n \in 1..Len(c) : W(n) \in Nat
  BY RetriesNat
<1>2. \A m \in 0..Len(c) : \E g : Sums(g, m)
  <2> DEFINE T == {m \in 0..Len(c) : ~\E g : Sums(g, m)}
  <2>1. SUFFICES ASSUME T # {} PROVE FALSE
    BY Zenon
  <2>2. T \subseteq Nat
    BY <1>1
  <2> DEFINE x == Min(T)
  <2>3. x \in T /\ \A y \in T : x <= y
    BY Zenon, <2>1, <2>2, LeastThere
  <2> HIDE DEF W, x
  <2>4. x # 0
    <3>1. Sums([n \in 0..0 |-> 0], 0)
      OBVIOUS
    <3>. QED  BY Zenon, <2>3, <3>1
  <2>5. x \in 1..Len(c) /\ x - 1 \in 0..Len(c) /\ ~(x <= x - 1)
    BY <2>3, <2>4, <1>1
  <2>6. PICK g : Sums(g, x - 1)
    BY Zenon, <2>3, <2>5
  <2> DEFINE h == [n \in 0..x |-> IF n = x THEN g[x - 1] + W(x) ELSE g[n]]
  <2>7. Sums(h, x)
    <3>1. W(x) \in Nat /\ g[x - 1] \in Nat
      BY <1>1, <2>5, <2>6
    <3>2. h \in [0..x -> Nat] /\ h[0] = 0
      BY <2>5, <2>6, <3>1
    <3>3. ASSUME NEW n \in 1..x PROVE h[n] = h[n - 1] + W(n)
      BY <2>5, <2>6, <3>3
    <3>. QED  BY Zenon, <3>2, <3>3
  <2>. QED  BY Zenon, <2>3, <2>7
<1>3. Len(c) \in 0..Len(c)
  BY <1>1
<1>4. PICK g : Sums(g, Len(c))
  BY Zenon, <1>2, <1>3
<1>5. Allowance(c) = [n \in 0..Len(c) |->
         IF n = 0 THEN 0
         ELSE Allowance(c)[n - 1] + GetMaxRetriesForProvider(c[n]) + 1]
  <2> DEFINE G(f) == [n \in 0..Len(c) |->
                       IF n = 0 THEN 0
                       ELSE f[n - 1] + GetMaxRetriesForProvider(c[n]) + 1]
  <2>1. g \in [0..Len(c) -> Nat] /\ g[0] = 0
    BY Zenon, <1>4
  <2>2. ASSUME NEW n \in 0..Len(c) PROVE g[n] = G(g)[n]
    <3>1. CASE n = 0
      BY <2>1, <3>1
    <3>2. CASE n # 0
      <4>1. n \in 1..Len(c)
        BY <1>1, <3>2
      <4>2. g[n] = g[n - 1] + W(n)
        BY Zenon, <1>4, <4>1
      <4>3. n - 1 \in 0..Len(c) /\ GetMaxRetriesForProvider(c[n]) \in Nat
        BY <1>1, <4>1, RetriesNat
      <4>4. g[n - 1] \in Nat
        BY Zenon, <2>1, <4>3
      <4>. QED  BY <3>2, <4>2, <4>3, <4>4
    <3>. QED  BY Zenon, <3>1, <3>2
  <2>3. DOMAIN G(g) = 0..Len(c) /\ DOMAIN g = 0..Len(c)
    BY Zenon, <2>1
  <2>4. g = [n \in 0..Len(c) |-> g[n]] /\ G(g) = [n \in 0..Len(c) |-> G(g)[n]]
    BY Zenon, <2>1
  <2>5. g = G(g)
    <3> HIDE DEF G
    <3>. QED  BY Zenon, <2>2, <2>4
  <2>. QED  BY Zenon, <2>5 DEF Allowance
<1> DEFINE A == Allowance(c)
<1>6. /\ A[0] = 0
      /\ \A n \in 1..Len(c) : A[n] = A[n - 1] + GetMaxRetriesForProvider(c[n]) + 1
  <2> HIDE DEF A
  <2>1. A = [n \in 0..Len(c) |->
         IF n = 0 THEN 0 ELSE A[n - 1] + GetMaxRetriesForProvider(c[n]) + 1]
    BY Zenon, <1>5 DEF A
  <2>2. 0 \in 0..Len(c) /\ \A n \in 1..Len(c) : n \in 0..Len(c) /\ n # 0
    BY <1>1
  <2>. QED  BY Zenon, <2>1, <2>2
<1>7. \A n \in 0..Len(c) : A[n] \in Nat
  <2> HIDE DEF A
  <2> DEFINE T == {n \in 0..Len(c) : A[n] \notin Nat}
  <2>1. SUFFICES ASSUME T # {} PROVE FALSE
    BY Zenon
  <2>2. T \subseteq Nat
    BY <1>1
  <2> DEFINE x == Min(T)
  <2>3. x \in T /\ \A y \in T : x <= y
    BY Zenon, <2>1, <2>2, LeastThere
  <2> HIDE DEF x
  <2>4. x # 0
    BY Zenon, <1>6, <2>3, 0 \in Nat
  <2>5. x \in 1..Len(c) /\ x - 1 \in 0..Len(c) /\ ~(x <= x - 1)
    BY <2>3, <2>4, <1>1
  <2>6. A[x - 1] \in Nat
    BY Zenon, <2>3, <2>5
  <2>7. A[x] = A[x - 1] + GetMaxRetriesForProvider(c[x]) + 1
    BY Zenon, <1>6, <2>5
  <2>8. GetMaxRetriesForProvider(c[x]) \in Nat
    BY <2>5, RetriesNat
  <2>9. A[x] \in Nat
    BY <2>6, <2>7, <2>8
  <2>. QED  BY Zenon, <2>3, <2>9
<1>. QED  BY Zenon, <1>6, <1>7
-----------------------------------------------------------------------------
(* The order of the registry *)

\* Distinct providers by ascending priority value.
Ordered(s) ==
  \A i, j \in 1..Len(s) :
    i < j => s[i] # s[j] /\ Priority[s[i]] <= Priority[s[j]]

\* What is left after one position is taken out, position by position.
LEMMA RemovedIs ==
  ASSUME NEW s \in Seq(Providers), NEW i \in 1..Len(s)
  PROVE  /\ RemoveAt(s, i) \in Seq(Providers)
         /\ Len(RemoveAt(s, i)) = Len(s) - 1
         /\ \A j \in 1..(Len(s) - 1) :
              RemoveAt(s, i)[j] = IF j < i THEN s[j] ELSE s[j + 1]
<1> DEFINE u == SubSeq(s, 1, i - 1)
           v == SubSeq(s, i + 1, Len(s))
<1>1. u \in Seq(Providers) /\ Len(u) = i - 1 /\ \A j \in 1..(i - 1) : u[j] = s[j]
  OBVIOUS
<1>2. /\ v \in Seq(Providers) /\ Len(v) = Len(s) - i
      /\ \A j \in 1..(Len(s) - i) : v[j] = s[i + j]
  OBVIOUS
<1> HIDE DEF u, v
<1>3. /\ u \o v \in Seq(Providers) /\ Len(u \o v) = Len(s) - 1
      /\ \A j \in 1..(Len(s) - 1) :
           (u \o v)[j] = IF j < i THEN s[j] ELSE s[j + 1]
  <2>1. u \o v \in Seq(Providers) /\ Len(u \o v) = Len(s) - 1
    BY <1>1, <1>2
  <2>2. ASSUME NEW j \in 1..(Len(s) - 1), j < i PROVE (u \o v)[j] = s[j]
    BY <1>1, <1>2, <2>2
  <2>3. ASSUME NEW j \in 1..(Len(s) - 1), ~(j < i) PROVE (u \o v)[j] = s[j + 1]
    <3>1. j - (i - 1) \in 1..(Len(s) - i) /\ i + (j - (i - 1)) = j + 1
      BY <2>3
    <3>2. (u \o v)[j] = v[j - (i - 1)]
      BY <1>1, <1>2, <2>3
    <3>. QED  BY Zenon, <1>2, <3>1, <3>2
  <2>. QED  BY Zenon, <2>1, <2>2, <2>3
<1>. QED  BY Zenon, <1>3 DEF RemoveAt, u, v

\* A sequence with one element more, position by position.
LEMMA InsertedIs ==
  ASSUME NEW s \in Seq(Providers), NEW i \in 1..(Len(s) + 1), NEW p \in Providers
  PROVE  /\ InsertAt(s, i, p) \in Seq(Providers)
         /\ Len(InsertAt(s, i, p)) = Len(s) + 1
         /\ \A j \in 1..(Len(s) + 1) :
              InsertAt(s, i, p)[j] =
                IF j < i THEN s[j] ELSE IF j = i THEN p ELSE s[j - 1]
<1> DEFINE u == SubSeq(s, 1, i - 1)
           v == SubSeq(s, i, Len(s))
           w == u \o <<p>>
<1>1. u \in Seq(Providers) /\ Len(u) = i - 1 /\ \A j \in 1..(i - 1) : u[j] = s[j]
  OBVIOUS
<1>2. /\ v \in Seq(Providers) /\ Len(v) = Len(s) - i + 1
      /\ \A j \in 1..(Len(s) - i + 1) : v[j] = s[i + j - 1]
  OBVIOUS
<1> HIDE DEF u, v
<1>3. /\ w \in Seq(Providers) /\ Len(w) = i
      /\ \A j \in 1..i : w[j] = IF j < i THEN s[j] ELSE p
  BY <1>1
<1> HIDE DEF w
<1>4. /\ w \o v \in Seq(Providers) /\ Len(w \o v) = Len(s) + 1
      /\ \A j \in 1..(Len(s) + 1) :
           (w \o v)[j] = IF j < i THEN s[j] ELSE IF j = i THEN p ELSE s[j - 1]
  BY <1>2, <1>3
<1>. QED  BY Zenon, <1>4 DEF InsertAt, u, v, w

\* A provider that is registered again is taken out of the order first.
LEMMA WithoutOrdered ==
  ASSUME NEW s \in Seq(Providers), Ordered(s), NEW p \in Providers
  PROVE  /\ Without(s, p) \in Seq(Providers) /\ Ordered(Without(s, p))
         /\ \A j \in 1..Len(Without(s, p)) : Without(s, p)[j] # p
<1> DEFINE places == {i \in 1..Len(s) : s[i] = p}
           i == Min(places)
           t == RemoveAt(s, i)
<1>1. CASE places = {}
  <2>1. Without(s, p) = s
    BY Zenon, <1>1 DEF Without
  <2>. QED  BY Zenon, <1>1, <2>1
<1>2. CASE places # {}
  <2>1. Without(s, p) = t
    BY Zenon, <1>2 DEF Without
  <2>2. places \subseteq Nat
    OBVIOUS
  <2>3. i \in places
    BY Zenon, <1>2, <2>2, LeastThere
  <2> HIDE DEF i
  <2>4. i \in 1..Len(s) /\ s[i] = p
    BY Zenon, <2>3
  <2>5. /\ t \in Seq(Providers) /\ Len(t) = Len(s) - 1
        /\ \A j \in 1..(Len(s) - 1) : t[j] = IF j < i THEN s[j] ELSE s[j + 1]
    BY Zenon, <2>4, RemovedIs
  <2> HIDE DEF t, places
  <2>6. Ordered(t)
    BY <2>4, <2>5 DEF Ordered
  <2>7. \A j \in 1..Len(t) : t[j] # p
    BY <2>4, <2>5 DEF Ordered
  <2>. QED  BY Zenon, <2>1, <2>5, <2>6, <2>7
<1>. QED  BY Zenon, <1>1, <1>2

\* insertByPriority keeps the order.
LEMMA InsertOrdered ==
  ASSUME NEW s \in Seq(Providers), Ordered(s), NEW p \in Providers
  PROVE  InsertByPriority(s, p) \in Seq(Providers) /\ Ordered(InsertByPriority(s, p))
<1> DEFINE o == Without(s, p)
           later == {i \in 1..Len(o) : Priority[o[i]] > Priority[p]}
           idx == IF later = {} THEN Len(o) + 1 ELSE Min(later)
           t == InsertAt(o, idx, p)
<1>1. InsertByPriority(s, p) = t
  BY Zenon DEF InsertByPriority
<1>2. o \in Seq(Providers) /\ Ordered(o) /\ \A j \in 1..Len(o) : o[j] # p
  BY Zenon, WithoutOrdered
<1> HIDE DEF o
<1>3. Priority \in [Providers -> Nat] /\ Len(o) \in Nat
  BY <1>2, RoutingConstants
<1>4. /\ idx \in 1..(Len(o) + 1)
      /\ \A j \in 1..Len(o) : j < idx => Priority[o[j]] <= Priority[p]
      /\ \A j \in 1..Len(o) : idx <= j => Priority[p] <= Priority[o[j]]
  <2>1. CASE later = {}
    <3>1. idx = Len(o) + 1
      BY Zenon, <2>1
    <3>2. \A j \in 1..Len(o) : ~(Priority[o[j]] > Priority[p])
      BY Zenon, <2>1
    <3> HIDE DEF idx, later
    <3>. QED  BY <1>2, <1>3, <3>1, <3>2
  <2>2. CASE later # {}
    <3>1. later \subseteq Nat
      BY <1>3
    <3>2. idx = Min(later)
      BY Zenon, <2>2
    <3>3. idx \in later /\ \A y \in later : idx <= y
      BY Zenon, <2>2, <3>1, <3>2, LeastThere
    <3>4. idx \in 1..Len(o) /\ Priority[o[idx]] > Priority[p]
      BY Zenon, <3>3
    <3>5. \A j \in 1..Len(o) : ~(idx <= j) => ~(Priority[o[j]] > Priority[p])
      BY Zenon, <3>3
    <3> HIDE DEF idx, later
    <3>6. \A j \in 1..Len(o) : Priority[o[j]] \in Nat
      BY <1>2, <1>3
    <3>7. Priority[p] \in Nat
      BY Zenon, <1>3
    <3>8. \A j \in 1..Len(o) : j < idx => Priority[o[j]] <= Priority[p]
      BY <1>3, <3>4, <3>5, <3>6, <3>7
    <3>9. \A j \in 1..Len(o) : idx <= j => Priority[p] <= Priority[o[j]]
      BY <1>2, <1>3, <3>4, <3>6, <3>7 DEF Ordered
    <3>. QED  BY <1>3, <3>4, <3>8, <3>9
  <2>. QED  BY Zenon, <2>1, <2>2
<1> HIDE DEF idx, later
<1>5. /\ t \in Seq(Providers) /\ Len(t) = Len(o) + 1
      /\ \A j \in 1..(Len(o) + 1) :
           t[j] = IF j < idx THEN o[j] ELSE IF j = idx THEN p ELSE o[j - 1]
  BY Zenon, <1>2, <1>4, InsertedIs
<1> HIDE DEF t
<1>6. Ordered(t)
  <2>1. SUFFICES ASSUME NEW i \in 1..(Len(o) + 1), NEW j \in 1..(Len(o) + 1), i < j
                 PROVE  t[i] # t[j] /\ Priority[t[i]] <= Priority[t[j]]
    BY Zenon, <1>5 DEF Ordered
  <2>2. CASE j < idx
    <3>1. i \in 1..Len(o) /\ j \in 1..Len(o)
      BY <1>3, <1>4, <2>1, <2>2
    <3>2. t[i] = o[i] /\ t[j] = o[j]
      BY <1>3, <1>4, <1>5, <2>1, <2>2
    <3>. QED  BY Zenon, <1>2, <2>1, <3>1, <3>2 DEF Ordered
  <2>3. CASE j = idx
    <3>1. i \in 1..Len(o) /\ i < idx
      BY <1>3, <1>4, <2>1, <2>3
    <3>2. t[i] = o[i] /\ t[j] = p
      BY <1>3, <1>4, <1>5, <2>1, <2>3
    <3>. QED  BY Zenon, <1>2, <1>4, <3>1, <3>2
  <2>4. CASE j > idx /\ i < idx
    <3>1. i \in 1..Len(o) /\ j - 1 \in 1..Len(o) /\ i < j - 1
      BY <1>3, <1>4, <2>1, <2>4
    <3>2. t[i] = o[i] /\ t[j] = o[j - 1]
      BY <1>3, <1>4, <1>5, <2>1, <2>4
    <3>. QED  BY Zenon, <1>2, <3>1, <3>2 DEF Ordered
  <2>5. CASE j > idx /\ i = idx
    <3>1. j - 1 \in 1..Len(o) /\ idx <= j - 1
      BY <1>3, <1>4, <2>5
    <3>2. t[i] = p /\ t[j] = o[j - 1]
      BY <1>3, <1>4, <1>5, <2>5
    <3>. QED  BY Zenon, <1>2, <1>4, <3>1, <3>2
  <2>6. CASE j > idx /\ i > idx
    <3>1. i - 1 \in 1..Len(o) /\ j - 1 \in 1..Len(o) /\ i - 1 < j - 1
      BY <1>3, <1>4, <2>1, <2>6
    <3>2. t[i] = o[i - 1] /\ t[j] = o[j - 1]
      BY <1>3, <1>4, <1>5, <2>1, <2>6
    <3>. QED  BY Zenon, <1>2, <3>1, <3>2 DEF Ordered
  <2>. QED  BY <1>3, <1>4, <2>2, <2>3, <2>4, <2>5, <2>6
<1>. QED  BY Zenon, <1>1, <1>5, <1>6
-----------------------------------------------------------------------------
(* One completion *)

\* The steps of a completion that has candidates.
Trying == {"allow", "call", "backoff"}
Steps == {"idle", "scan"} \cup Trying

\* What a completion at a step may assume of its variables: the candidates c
\* come from the part of the order pr already scanned and stay in its order,
\* the retries n are those the provider at position a allows, and the attempts
\* k those of the providers before it and its own.
Sound(sv, pr, step, m, c, a, n, k) ==
  /\ c \in Seq(Providers) /\ Ordered(c)
  /\ a \in Nat /\ a # 0 /\ n \in Nat /\ k \in Nat
  /\ \A i \in 1..Len(c) : m \in Serves[c[i]]
  /\ step # "idle" => sv
  /\ step = "idle" => c = << >> /\ a = 1 /\ n = 0 /\ k = 0
  /\ step = "scan" =>
       /\ n = 0 /\ k = 0
       /\ \A i \in 1..Len(c) : \E l \in 1..Len(pr) : l < a /\ c[i] = pr[l]
  /\ step \in Trying =>
       /\ a <= Len(c)
       /\ n <= GetMaxRetriesForProvider(c[a])
       /\ k <= Allowance(c)[a - 1] + n + (IF step = "allow" THEN 0 ELSE 1)
  /\ step = "backoff" => n < GetMaxRetriesForProvider(c[a])

\* The empty list of candidates satisfies what is said of lists.
LEMMA NoCandidates ==
  /\ << >> \in Seq(Providers) /\ Len(<< >>) = 0 /\ Ordered(<< >>)
  /\ \A i \in 1..Len(<< >>) : FALSE
BY DEF Ordered

\* A completion that has returned.
LEMMA IdleSound ==
  ASSUME NEW sv, NEW pr, NEW m
  PROVE  Sound(sv, pr, "idle", m, << >>, 1, 0, 0)
<1>1. 1 \in Nat /\ 1 # 0 /\ 0 \in Nat
  OBVIOUS
<1>. QED  BY Zenon, <1>1, NoCandidates DEF Sound, Trying

\* A completion that has just begun.
LEMMA BeginSound ==
  ASSUME NEW pr, NEW m
  PROVE  Sound(TRUE, pr, "scan", m, << >>, 1, 0, 0)
<1>1. 1 \in Nat /\ 1 # 0 /\ 0 \in Nat
  OBVIOUS
<1>. QED  BY Zenon, <1>1, NoCandidates DEF Sound, Trying

\* The scan goes on without the provider it looked at,
LEMMA SkipSound ==
  ASSUME NEW sv, NEW pr \in Seq(Providers), NEW m, NEW c, NEW a, NEW n, NEW k,
         Sound(sv, pr, "scan", m, c, a, n, k)
  PROVE  Sound(sv, pr, "scan", m, c, a + 1, n, k)
<1>1. a + 1 \in Nat /\ a + 1 # 0
  BY DEF Sound
<1>2. \A i \in 1..Len(c) : \E l \in 1..Len(pr) : l < a + 1 /\ c[i] = pr[l]
  <2>1. \A l \in 1..Len(pr) : l < a => l < a + 1
    BY DEF Sound
  <2>. QED  BY Zenon, <2>1 DEF Sound
<1>. QED  BY Zenon, <1>1, <1>2 DEF Sound, Trying

\* or with it: whatever is among the candidates comes before it in the order.
LEMMA TakeSound ==
  ASSUME NEW sv, NEW pr \in Seq(Providers), Ordered(pr), NEW m, NEW c, NEW a, NEW n, NEW k,
         Sound(sv, pr, "scan", m, c, a, n, k),
         a <= Len(pr), m \in Serves[pr[a]]
  PROVE  Sound(sv, pr, "scan", m, Append(c, pr[a]), a + 1, n, k)
<1> DEFINE d == Append(c, pr[a])
<1>1. c \in Seq(Providers) /\ a \in 1..Len(pr) /\ Len(pr) \in Nat /\ pr[a] \in Providers
  BY DEF Sound
<1>2. /\ d \in Seq(Providers) /\ Len(d) = Len(c) + 1 /\ Len(c) \in Nat
      /\ d[Len(c) + 1] = pr[a] /\ \A i \in 1..Len(c) : d[i] = c[i]
  BY <1>1
<1> HIDE DEF d
<1>3. \A i \in 1..Len(d) : i \in 1..Len(c) \/ i = Len(c) + 1
  BY <1>2
<1>4. \A i \in 1..Len(d) : m \in Serves[d[i]]
  BY Zenon, <1>2, <1>3 DEF Sound
<1>5. \A i \in 1..Len(d) : \E l \in 1..Len(pr) : l < a + 1 /\ d[i] = pr[l]
  <2>1. a < a + 1 /\ \A l \in 1..Len(pr) : l < a => l < a + 1
    BY <1>1
  <2>. QED  BY Zenon, <1>1, <1>2, <1>3, <2>1 DEF Sound
<1>6. Ordered(d)
  <2>1. SUFFICES ASSUME NEW i \in 1..Len(d), NEW j \in 1..Len(d), i < j
                 PROVE  d[i] # d[j] /\ Priority[d[i]] <= Priority[d[j]]
    BY Zenon DEF Ordered
  <2>2. i \in 1..Len(c)
    BY <1>2, <2>1
  <2>3. CASE j \in 1..Len(c)
    <3>1. Ordered(c)
      BY Zenon DEF Sound
    <3>2. c[i] # c[j] /\ Priority[c[i]] <= Priority[c[j]]
      BY Zenon, <2>1, <2>2, <2>3, <3>1 DEF Ordered
    <3>. QED  BY Zenon, <1>2, <2>2, <2>3, <3>2
  <2>4. CASE j = Len(c) + 1
    <3>1. PICK l \in 1..Len(pr) : l < a /\ c[i] = pr[l]
      BY Zenon, <2>2 DEF Sound
    <3>2. pr[l] # pr[a] /\ Priority[pr[l]] <= Priority[pr[a]]
      BY Zenon, <1>1, <3>1 DEF Ordered
    <3>. QED  BY Zenon, <1>2, <2>2, <2>4, <3>1, <3>2
  <2>. QED  BY Zenon, <1>3, <2>3, <2>4
<1>7. a + 1 \in Nat /\ a + 1 # 0
  BY <1>1
<1>. QED  BY Zenon, <1>2, <1>4, <1>5, <1>6, <1>7 DEF Sound, Trying, d

\* The first candidate is tried.
LEMMA FirstSound ==
  ASSUME NEW sv, NEW pr, NEW m, NEW c, NEW a, NEW n, NEW k,
         Sound(sv, pr, "scan", m, c, a, n, k), c # << >>
  PROVE  Sound(sv, pr, "allow", m, c, 1, n, k)
<1>1. c \in Seq(Providers) /\ n = 0 /\ k = 0
  BY Zenon DEF Sound
<1>2. 1 \in 1..Len(c) /\ 1 <= Len(c) /\ c[1] \in Providers
  BY <1>1
<1>3. 1 - 1 = 0 /\ 0 \in Nat /\ 1 \in Nat /\ 1 # 0
  OBVIOUS
<1>4. n <= GetMaxRetriesForProvider(c[1])
  <2>1. GetMaxRetriesForProvider(c[1]) \in Nat
    BY Zenon, <1>2, RetriesNat
  <2>. QED  BY <1>1, <2>1
<1>5. k <= Allowance(c)[1 - 1] + n + 0
  <2>1. Allowance(c)[1 - 1] = 0
    BY Zenon, <1>1, <1>3, AllowanceSteps
  <2>. QED  BY <1>1, <2>1
<1>. QED  BY Zenon, <1>1, <1>2, <1>3, <1>4, <1>5 DEF Sound, Trying

\* The breaker admits the attempt.
LEMMA CallSound ==
  ASSUME NEW sv, NEW pr, NEW m, NEW c, NEW a, NEW n, NEW k,
         Sound(sv, pr, "allow", m, c, a, n, k)
  PROVE  Sound(sv, pr, "call", m, c, a, n, k + 1)
<1>1. /\ c \in Seq(Providers) /\ n \in Nat /\ k \in Nat /\ a \in Nat /\ a # 0
      /\ a <= Len(c) /\ k <= Allowance(c)[a - 1] + n + 0
  BY Zenon DEF Sound, Trying
<1>2. a - 1 \in 0..Len(c)
  BY <1>1
<1>3. Allowance(c)[a - 1] \in Nat
  BY Zenon, <1>1, <1>2, AllowanceSteps
<1>4. k + 1 \in Nat /\ k + 1 <= Allowance(c)[a - 1] + n + 1
  BY <1>1, <1>3
<1>. QED  BY Zenon, <1>4 DEF Sound, Trying

\* The attempt failed and will be repeated,
LEMMA BackoffSound ==
  ASSUME NEW sv, NEW pr, NEW m, NEW c, NEW a, NEW n, NEW k,
         Sound(sv, pr, "call", m, c, a, n, k), n < GetMaxRetriesForProvider(c[a])
  PROVE  Sound(sv, pr, "backoff", m, c, a, n, k)
BY Zenon DEF Sound, Trying

\* after the backoff.
LEMMA RetrySound ==
  ASSUME NEW sv, NEW pr, NEW m, NEW c, NEW a, NEW n, NEW k,
         Sound(sv, pr, "backoff", m, c, a, n, k)
  PROVE  Sound(sv, pr, "allow", m, c, a, n + 1, k)
<1>1. /\ c \in Seq(Providers) /\ n \in Nat /\ k \in Nat /\ a \in Nat /\ a # 0
      /\ a <= Len(c) /\ k <= Allowance(c)[a - 1] + n + 1
      /\ n < GetMaxRetriesForProvider(c[a])
  BY Zenon DEF Sound, Trying
<1>2. a - 1 \in 0..Len(c) /\ c[a] \in Providers
  BY <1>1
<1>3. Allowance(c)[a - 1] \in Nat /\ GetMaxRetriesForProvider(c[a]) \in Nat
  BY Zenon, <1>1, <1>2, AllowanceSteps, RetriesNat
<1>4. /\ n + 1 \in Nat /\ n + 1 <= GetMaxRetriesForProvider(c[a])
      /\ k <= Allowance(c)[a - 1] + (n + 1) + 0
  BY <1>1, <1>3
<1>. QED  BY Zenon, <1>4 DEF Sound, Trying

\* The next candidate is tried: the attempts spent on this one are within its
\* share of the allowance.
LEMMA FallbackSound ==
  ASSUME NEW sv, NEW pr, NEW step \in Trying, NEW m, NEW c, NEW a, NEW n, NEW k, NEW x \in Nat,
         Sound(sv, pr, step, m, c, a, n, k), a < Len(c),
         x <= Allowance(c)[a - 1] + n + 1
  PROVE  Sound(sv, pr, "allow", m, c, a + 1, 0, x)
<1>1. /\ c \in Seq(Providers) /\ n \in Nat /\ a \in Nat /\ a # 0
      /\ n <= GetMaxRetriesForProvider(c[a])
  BY Zenon DEF Sound, Trying
<1>2. /\ a \in 1..Len(c) /\ a - 1 \in 0..Len(c) /\ c[a] \in Providers
      /\ a + 1 \in Nat /\ a + 1 # 0 /\ a + 1 <= Len(c) /\ c[a + 1] \in Providers
      /\ (a + 1) - 1 = a /\ 0 \in Nat
  BY <1>1
<1>3. /\ Allowance(c)[a - 1] \in Nat /\ GetMaxRetriesForProvider(c[a]) \in Nat
      /\ GetMaxRetriesForProvider(c[a + 1]) \in Nat
      /\ Allowance(c)[a] = Allowance(c)[a - 1] + GetMaxRetriesForProvider(c[a]) + 1
  BY Zenon, <1>1, <1>2, AllowanceSteps, RetriesNat
<1>4. /\ 0 <= GetMaxRetriesForProvider(c[a + 1])
      /\ x <= Allowance(c)[a] + 0 + 0
  BY <1>1, <1>3
<1>5. x <= Allowance(c)[(a + 1) - 1] + 0 + 0
  BY Zenon, <1>2, <1>4
<1>6. /\ Ordered(c) /\ sv
      /\ \A i \in 1..Len(c) : m \in Serves[c[i]]
  BY Zenon DEF Sound, Trying
<1>. QED  BY Zenon, <1>1, <1>2, <1>4, <1>5, <1>6 DEF Sound, Trying
-----------------------------------------------------------------------------
(* The inductive invariant *)

\* The types of the completions.
RequestsTyped ==
  /\ pc \in [Requests -> Steps]
  /\ model \in [Requests -> Models]
  /\ candidates \in [Requests -> Seq(Providers)]
  /\ at \in [Requests -> Nat]
  /\ retry \in [Requests -> Nat]
  /\ attempt \in [Requests -> Nat]

\* What holds of a completion at its step.
RequestSound(r) ==
  Sound(serving, priority, pc[r], model[r], candidates[r], at[r], retry[r], attempt[r])

\* The inductive invariant.
RoutingInv ==
  /\ priority \in Seq(Providers)
  /\ Ordered(priority)
  /\ RequestsTyped
  /\ \A r \in Requests : RequestSound(r)

\* A variable that a step leaves alone is the one updated with its own value.
LEMMA SameValue ==
  ASSUME NEW S, NEW T, NEW f \in [S -> T], NEW r \in S
  PROVE  f = [f EXCEPT ![r] = f[r]]
OBVIOUS

\* The variable updated at one completion.
LEMMA UpdatedAt ==
  ASSUME NEW S, NEW T, NEW f \in [S -> T], NEW r \in S, NEW v \in T
  PROVE  /\ [f EXCEPT ![r] = v] \in [S -> T]
         /\ [f EXCEPT ![r] = v][r] = v
         /\ \A q \in S : q # r => [f EXCEPT ![r] = v][q] = f[q]
OBVIOUS

\* The registry and the other completions stay as they are.
Alone(r) ==
  /\ priority' = priority
  /\ \A q \in Requests : q # r =>
       UNCHANGED <<pc[q], model[q], candidates[q], at[q], retry[q], attempt[q]>>

\* The order of the steps that one attempt takes.
AttemptStep == [s \in Trying |-> CASE s = "allow" -> 0 [] s = "call" -> 1 [] s = "backoff" -> 2]

\* Completion r comes closer to its end: it returns, looks at the next provider
\* of the registry, turns from the scan to its candidates, turns to the next of
\* them, begins the next of the retries allowed, or goes on with an attempt.
\* Each list and limit it counts up to is fixed meanwhile, so this can happen
\* only so often in one completion.
Advances(r) ==
  \/ pc'[r] = "idle"
  \/ /\ pc[r] = "scan" /\ pc'[r] = "scan"
     /\ at'[r] = at[r] + 1 /\ at'[r] <= Len(priority) + 1
  \/ /\ pc[r] = "scan" /\ pc'[r] \in Trying
  \/ /\ pc[r] \in Trying /\ pc'[r] \in Trying
     /\ candidates'[r] = candidates[r]
     /\ \/ at'[r] = at[r] + 1 /\ at'[r] <= Len(candidates[r])
        \/ /\ at'[r] = at[r] /\ retry'[r] = retry[r] + 1
           /\ retry'[r] <= GetMaxRetriesForProvider(Current(r))
        \/ /\ at'[r] = at[r] /\ retry'[r] = retry[r]
           /\ AttemptStep[pc[r]] < AttemptStep[pc'[r]]

\* A step after which completion r, and no other, has the given values.
Becomes(r, s, m, c, a, n, k) ==
  /\ s \in Steps /\ m \in Models /\ c \in Seq(Providers)
  /\ a \in Nat /\ n \in Nat /\ k \in Nat
  /\ serving' = serving /\ priority' = priority
  /\ pc' = [pc EXCEPT ![r] = s] /\ model' = [model EXCEPT ![r] = m]
  /\ candidates' = [candidates EXCEPT ![r] = c] /\ at' = [at EXCEPT ![r] = a]
  /\ retry' = [retry EXCEPT ![r] = n] /\ attempt' = [attempt EXCEPT ![r] = k]
  /\ Sound(serving, priority, s, m, c, a, n, k)

\* The steps of an attempt in their order.
LEMMA AttemptOrder ==
  /\ AttemptStep["allow"] < AttemptStep["call"]
  /\ AttemptStep["call"] < AttemptStep["backoff"]
BY DEF AttemptStep, Trying

\* A step of one completion preserves the invariant if it leaves that
\* completion sound.
LEMMA OneRequest ==
  ASSUME RoutingInv, NEW r \in Requests,
         NEW s, NEW m, NEW c, NEW a, NEW n, NEW k,
         Becomes(r, s, m, c, a, n, k)
  PROVE  /\ RoutingInv' /\ Alone(r)
         /\ pc'[r] = s /\ candidates'[r] = c /\ at'[r] = a /\ retry'[r] = n
<1> USE DEF Becomes
<1>1. /\ pc' \in [Requests -> Steps] /\ pc'[r] = s
      /\ \A q \in Requests : q # r => pc'[q] = pc[q]
  BY Zenon, UpdatedAt DEF RoutingInv, RequestsTyped
<1>2. /\ model' \in [Requests -> Models] /\ model'[r] = m
      /\ \A q \in Requests : q # r => model'[q] = model[q]
  BY Zenon, UpdatedAt DEF RoutingInv, RequestsTyped
<1>3. /\ candidates' \in [Requests -> Seq(Providers)] /\ candidates'[r] = c
      /\ \A q \in Requests : q # r => candidates'[q] = candidates[q]
  BY Zenon, UpdatedAt DEF RoutingInv, RequestsTyped
<1>4. /\ at' \in [Requests -> Nat] /\ at'[r] = a
      /\ \A q \in Requests : q # r => at'[q] = at[q]
  BY Zenon, UpdatedAt DEF RoutingInv, RequestsTyped
<1>5. /\ retry' \in [Requests -> Nat] /\ retry'[r] = n
      /\ \A q \in Requests : q # r => retry'[q] = retry[q]
  BY Zenon, UpdatedAt DEF RoutingInv, RequestsTyped
<1>6. /\ attempt' \in [Requests -> Nat] /\ attempt'[r] = k
      /\ \A q \in Requests : q # r => attempt'[q] = attempt[q]
  BY Zenon, UpdatedAt DEF RoutingInv, RequestsTyped
<1>7. ASSUME NEW q \in Requests
      PROVE  Sound(serving', priority', pc'[q], model'[q], candidates'[q],
                   at'[q], retry'[q], attempt'[q])
  <2>1. CASE q = r
    BY Zenon, <1>1, <1>2, <1>3, <1>4, <1>5, <1>6, <2>1
  <2>2. CASE q # r
    <3>1. RequestSound(q)
      BY Zenon DEF RoutingInv
    <3>2. /\ pc'[q] = pc[q] /\ model'[q] = model[q] /\ candidates'[q] = candidates[q]
          /\ at'[q] = at[q] /\ retry'[q] = retry[q] /\ attempt'[q] = attempt[q]
      BY Zenon, <1>1, <1>2, <1>3, <1>4, <1>5, <1>6, <2>2
    <3>. QED  BY Zenon, <3>1, <3>2 DEF RequestSound
  <2>. QED  BY Zenon, <2>1, <2>2
<1>8. Alone(r)
  BY Zenon, <1>1, <1>2, <1>3, <1>4, <1>5, <1>6 DEF Alone
<1>9. RoutingInv'
  BY Zenon, <1>1, <1>2, <1>3, <1>4, <1>5, <1>6, <1>7
     DEF RoutingInv, RequestsTyped, RequestSound
<1>. QED  BY Zenon, <1>1, <1>3, <1>4, <1>5, <1>8, <1>9

\* What the invariant says of one completion, and each of its variables as an
\* update of itself.
LEMMA RequestFacts ==
  ASSUME RoutingInv, NEW r \in Requests
  PROVE  /\ Sound(serving, priority, pc[r], model[r], candidates[r], at[r], retry[r], attempt[r])
         /\ priority \in Seq(Providers) /\ Ordered(priority)
         /\ pc[r] \in Steps /\ model[r] \in Models /\ candidates[r] \in Seq(Providers)
         /\ at[r] \in Nat /\ retry[r] \in Nat /\ attempt[r] \in Nat
         /\ model = [model EXCEPT ![r] = model[r]]
         /\ pc = [pc EXCEPT ![r] = pc[r]]
         /\ candidates = [candidates EXCEPT ![r] = candidates[r]]
         /\ at = [at EXCEPT ![r] = at[r]]
         /\ retry = [retry EXCEPT ![r] = retry[r]]
         /\ attempt = [attempt EXCEPT ![r] = attempt[r]]
<1>1. /\ model[r] \in Models /\ pc[r] \in Steps /\ candidates[r] \in Seq(Providers)
      /\ at[r] \in Nat /\ retry[r] \in Nat /\ attempt[r] \in Nat
  BY Zenon DEF RoutingInv, RequestsTyped
<1>2. /\ model = [model EXCEPT ![r] = model[r]] /\ pc = [pc EXCEPT ![r] = pc[r]]
      /\ candidates = [candidates EXCEPT ![r] = candidates[r]]
      /\ at = [at EXCEPT ![r] = at[r]] /\ retry = [retry EXCEPT ![r] = retry[r]]
      /\ attempt = [attempt EXCEPT ![r] = attempt[r]]
  BY Zenon, SameValue DEF RoutingInv, RequestsTyped
<1>. QED  BY Zenon, <1>1, <1>2 DEF RoutingInv, RequestSound

\* The registry is empty and nobody has asked at the start.
LEMMA RoutingInvInit == Init => RoutingInv
<1>1. SUFFICES ASSUME Init PROVE RoutingInv
  OBVIOUS
<1>2. 1 \in Nat /\ 0 \in Nat
  OBVIOUS
<1>3. RequestsTyped
  BY Zenon, <1>1, <1>2, NoCandidates DEF Init, RequestsTyped, Steps
<1>4. ASSUME NEW r \in Requests PROVE RequestSound(r)
  <2>1. /\ pc[r] = "idle" /\ candidates[r] = << >> /\ at[r] = 1
        /\ retry[r] = 0 /\ attempt[r] = 0
    BY Zenon, <1>1 DEF Init
  <2>. QED  BY Zenon, <2>1, IdleSound DEF RequestSound
<1>. QED  BY Zenon, <1>1, <1>3, <1>4, NoCandidates DEF RoutingInv, Init

-----------------------------------------------------------------------------
(* The actions *)

\* The registry changes only while no completion is under way.
LEMMA RegisterInv ==
  ASSUME RoutingInv, NEW p \in Providers, Register(p)
  PROVE  RoutingInv'
<1>1. /\ ~serving /\ serving' = serving /\ priority' = InsertByPriority(priority, p)
      /\ pc' = pc /\ model' = model /\ candidates' = candidates
      /\ at' = at /\ retry' = retry /\ attempt' = attempt
  BY Zenon DEF Register, local
<1>2. priority' \in Seq(Providers) /\ Ordered(priority')
  BY Zenon, <1>1, InsertOrdered DEF RoutingInv
<1>3. ASSUME NEW r \in Requests
      PROVE  Sound(serving', priority', pc'[r], model'[r], candidates'[r],
                   at'[r], retry'[r], attempt'[r])
  <2>1. Sound(serving, priority, pc[r], model[r], candidates[r], at[r], retry[r], attempt[r])
    BY Zenon, RequestFacts
  <2>2. /\ pc[r] = "idle" /\ candidates[r] = << >> /\ at[r] = 1
        /\ retry[r] = 0 /\ attempt[r] = 0
    BY Zenon, <1>1, <2>1 DEF Sound
  <2>. QED  BY Zenon, <1>1, <2>2, IdleSound
<1>. QED  BY Zenon, <1>1, <1>2, <1>3 DEF RoutingInv, RequestsTyped, RequestSound

\* The server starts to serve with every completion idle.
LEMMA StartServingInv ==
  ASSUME RoutingInv, StartServing
  PROVE  RoutingInv'
<1>1. /\ serving' = TRUE /\ ~serving /\ priority' = priority
      /\ pc' = pc /\ model' = model /\ candidates' = candidates
      /\ at' = at /\ retry' = retry /\ attempt' = attempt
  BY Zenon DEF StartServing, local
<1>3. ASSUME NEW r \in Requests
      PROVE  Sound(serving', priority', pc'[r], model'[r], candidates'[r],
                   at'[r], retry'[r], attempt'[r])
  <2>1. Sound(serving, priority, pc[r], model[r], candidates[r], at[r], retry[r], attempt[r])
    BY Zenon, RequestFacts
  <2>2. /\ pc[r] = "idle" /\ candidates[r] = << >> /\ at[r] = 1
        /\ retry[r] = 0 /\ attempt[r] = 0
    BY Zenon, <1>1, <2>1 DEF Sound
  <2>. QED  BY Zenon, <1>1, <2>2, IdleSound
<1>. QED  BY Zenon, <1>1, <1>3 DEF RoutingInv, RequestsTyped, RequestSound

\* Health checks and the passing of time touch no completion.
LEMMA QuietInv ==
  ASSUME RoutingInv, UNCHANGED <<serving, priority, pc, local>>
  PROVE  RoutingInv'
BY Zenon DEF RoutingInv, RequestsTyped, RequestSound, local

\* ExecuteWithFallback is called.
LEMMA BeginInv ==
  ASSUME RoutingInv, NEW r \in Requests, Begin(r)
  PROVE  RoutingInv' /\ Alone(r)
<1>1. PICK m \in Models : model' = [model EXCEPT ![r] = m]
  BY Zenon DEF Begin
<1>2. /\ serving /\ pc[r] = "idle" /\ pc' = [pc EXCEPT ![r] = "scan"]
      /\ serving' = serving /\ priority' = priority /\ candidates' = candidates
      /\ at' = at /\ retry' = retry /\ attempt' = attempt
  BY Zenon DEF Begin, registry
<1>3. Sound(serving, priority, pc[r], model[r], candidates[r], at[r], retry[r], attempt[r])
  BY Zenon, RequestFacts
<1>4. candidates[r] = << >> /\ at[r] = 1 /\ retry[r] = 0 /\ attempt[r] = 0
  BY Zenon, <1>2, <1>3 DEF Sound
<1>6. Sound(serving, priority, "scan", m, candidates[r], at[r], retry[r], attempt[r])
  <2>1. Sound(TRUE, priority, "scan", m, << >>, 1, 0, 0)
    BY Zenon, BeginSound
  <2>. QED  BY Zenon, <1>2, <1>4, <2>1 DEF Sound
<1>7. "scan" \in Steps
  BY Zenon DEF Steps
<1>8. /\ candidates' = [candidates EXCEPT ![r] = candidates[r]]
      /\ at' = [at EXCEPT ![r] = at[r]] /\ retry' = [retry EXCEPT ![r] = retry[r]]
      /\ attempt' = [attempt EXCEPT ![r] = attempt[r]]
      /\ candidates[r] \in Seq(Providers)
      /\ at[r] \in Nat /\ retry[r] \in Nat /\ attempt[r] \in Nat
  BY Zenon, <1>2, RequestFacts
<1>9. Becomes(r, "scan", m, candidates[r], at[r], retry[r], attempt[r])
  BY Zenon, <1>1, <1>2, <1>6, <1>7, <1>8 DEF Becomes
<1>. QED  BY Zenon, <1>9, OneRequest
\* A completion that returns.
LEMMA ReturnInv ==
  ASSUME RoutingInv, NEW r \in Requests, NEW result, Return(r, result),
         UNCHANGED <<serving, priority, model>>
  PROVE  RoutingInv' /\ Alone(r) /\ Advances(r)
<1>1. /\ pc' = [pc EXCEPT ![r] = "idle"] /\ candidates' = [candidates EXCEPT ![r] = << >>]
      /\ at' = [at EXCEPT ![r] = 1] /\ retry' = [retry EXCEPT ![r] = 0]
      /\ attempt' = [attempt EXCEPT ![r] = 0]
      /\ serving' = serving /\ priority' = priority /\ model' = model
  BY Zenon DEF Return
<1>2. 0 \in Nat /\ 1 \in Nat
  OBVIOUS
<1>3. "idle" \in Steps
  BY Zenon DEF Steps
<1>4. model' = [model EXCEPT ![r] = model[r]] /\ model[r] \in Models
  BY Zenon, <1>1, RequestFacts
<1>5. Becomes(r, "idle", model[r], << >>, 1, 0, 0)
  BY Zenon, <1>1, <1>2, <1>3, <1>4, NoCandidates, IdleSound DEF Becomes
<1>. QED  BY Zenon, <1>5, OneRequest DEF Advances

\* A provider of the registry is looked at.
LEMMA ScanProviderInv ==
  ASSUME RoutingInv, NEW r \in Requests, ScanProvider(r)
  PROVE  RoutingInv' /\ Alone(r) /\ Advances(r)
<1> DEFINE p == priority[at[r]]
           c == IF Admits(breakers[p]) /\ SupportsModel(p, model[r])
                  THEN Append(candidates[r], p) ELSE candidates[r]
<1>1. /\ pc[r] = "scan" /\ at[r] <= Len(priority)
      /\ candidates' = [candidates EXCEPT ![r] = c]
      /\ at' = [at EXCEPT ![r] = at[r] + 1]
      /\ serving' = serving /\ priority' = priority /\ pc' = pc /\ model' = model
      /\ retry' = retry /\ attempt' = attempt
  BY Zenon DEF ScanProvider, registry
<1>2. /\ Sound(serving, priority, "scan", model[r], candidates[r], at[r], retry[r], attempt[r])
      /\ priority \in Seq(Providers) /\ Ordered(priority)
  BY Zenon, <1>1, RequestFacts
<1>3. Sound(serving, priority, "scan", model[r], c, at[r] + 1, retry[r], attempt[r])
  <2>1. CASE Admits(breakers[p]) /\ SupportsModel(p, model[r])
    <3>1. model[r] \in Serves[priority[at[r]]]
      BY Zenon, <2>1 DEF SupportsModel
    <3>2. Sound(serving, priority, "scan", model[r], Append(candidates[r], priority[at[r]]),
                at[r] + 1, retry[r], attempt[r])
      BY Zenon, <1>1, <1>2, <3>1, TakeSound
    <3>. QED  BY Zenon, <2>1, <3>2
  <2>2. CASE ~(Admits(breakers[p]) /\ SupportsModel(p, model[r]))
    <3>1. Sound(serving, priority, "scan", model[r], candidates[r], at[r] + 1, retry[r], attempt[r])
      BY Zenon, <1>2, SkipSound
    <3>. QED  BY Zenon, <2>2, <3>1
  <2>. QED  BY Zenon, <2>1, <2>2
<1> HIDE DEF c
<1>4. c \in Seq(Providers) /\ at[r] + 1 \in Nat
  BY Zenon, <1>3 DEF Sound
<1>5. /\ pc' = [pc EXCEPT ![r] = "scan"] /\ model' = [model EXCEPT ![r] = model[r]]
      /\ retry' = [retry EXCEPT ![r] = retry[r]] /\ attempt' = [attempt EXCEPT ![r] = attempt[r]]
      /\ "scan" \in Steps /\ model[r] \in Models /\ retry[r] \in Nat /\ attempt[r] \in Nat
  BY Zenon, <1>1, RequestFacts
<1>6. Becomes(r, "scan", model[r], c, at[r] + 1, retry[r], attempt[r])
  BY Zenon, <1>1, <1>3, <1>4, <1>5 DEF Becomes
<1>7. at[r] + 1 <= Len(priority) + 1
  <2>1. at[r] \in Nat /\ priority \in Seq(Providers)
    BY Zenon, RequestFacts
  <2>. QED  BY <1>1, <2>1
<1>. QED  BY Zenon, <1>1, <1>6, <1>7, OneRequest DEF Advances

\* The first candidate is tried, or there is none.
LEMMA EndScanInv ==
  ASSUME RoutingInv, NEW r \in Requests, EndScan(r)
  PROVE  RoutingInv' /\ Alone(r) /\ Advances(r)
<1>1. pc[r] = "scan" /\ serving' = serving /\ priority' = priority /\ model' = model
  BY Zenon DEF EndScan, registry
<1>2. CASE candidates[r] = << >>
  <2>1. Return(r, "no healthy provider")
    BY Zenon, <1>2 DEF EndScan
  <2>. QED  BY Zenon, <1>1, <2>1, ReturnInv
<1>3. CASE candidates[r] # << >>
  <2>1. /\ pc' = [pc EXCEPT ![r] = "allow"] /\ at' = [at EXCEPT ![r] = 1]
        /\ candidates' = candidates /\ retry' = retry /\ attempt' = attempt
    BY Zenon, <1>3 DEF EndScan
  <2>2. Sound(serving, priority, "scan", model[r], candidates[r], at[r], retry[r], attempt[r])
    BY Zenon, <1>1, RequestFacts
  <2>3. Sound(serving, priority, "allow", model[r], candidates[r], 1, retry[r], attempt[r])
    BY Zenon, <1>3, <2>2, FirstSound
  <2>4. /\ model' = [model EXCEPT ![r] = model[r]]
        /\ candidates' = [candidates EXCEPT ![r] = candidates[r]]
        /\ retry' = [retry EXCEPT ![r] = retry[r]] /\ attempt' = [attempt EXCEPT ![r] = attempt[r]]
        /\ model[r] \in Models /\ candidates[r] \in Seq(Providers)
        /\ retry[r] \in Nat /\ attempt[r] \in Nat
    BY Zenon, <1>1, <2>1, RequestFacts
  <2>5. 1 \in Nat
    OBVIOUS
  <2>6. Becomes(r, "allow", model[r], candidates[r], 1, retry[r], attempt[r])
    BY Zenon, <1>1, <2>1, <2>3, <2>4, <2>5 DEF Becomes, Steps, Trying
  <2>. QED  BY Zenon, <1>1, <2>6, OneRequest DEF Advances, Trying
<1>. QED  BY Zenon, <1>2, <1>3

\* The completion gives the provider up, with the attempts x made so far.
LEMMA NextProviderInv ==
  ASSUME RoutingInv, NEW r \in Requests, NEW x \in Nat, NextProvider(r, x),
         pc[r] \in Trying, UNCHANGED <<serving, priority, model>>,
         x <= Allowance(candidates[r])[at[r] - 1] + retry[r] + 1
  PROVE  RoutingInv' /\ Alone(r) /\ Advances(r)
<1>1. CASE ~(at[r] < Len(candidates[r]))
  <2>1. Return(r, "exhausted")
    BY Zenon, <1>1 DEF NextProvider
  <2>. QED  BY Zenon, <2>1, ReturnInv
<1>2. CASE at[r] < Len(candidates[r])
  <2>1. /\ pc' = [pc EXCEPT ![r] = "allow"] /\ attempt' = [attempt EXCEPT ![r] = x]
        /\ at' = [at EXCEPT ![r] = at[r] + 1] /\ retry' = [retry EXCEPT ![r] = 0]
        /\ candidates' = candidates
    BY Zenon, <1>2 DEF NextProvider
  <2>2. Sound(serving, priority, pc[r], model[r], candidates[r], at[r], retry[r], attempt[r])
    BY Zenon, RequestFacts
  <2>3. Sound(serving, priority, "allow", model[r], candidates[r], at[r] + 1, 0, x)
    BY Zenon, <1>2, <2>2, FallbackSound
  <2>4. at[r] + 1 \in Nat /\ 0 \in Nat
    BY Zenon, <2>3 DEF Sound
  <2>5. /\ model' = [model EXCEPT ![r] = model[r]]
        /\ candidates' = [candidates EXCEPT ![r] = candidates[r]]
        /\ model[r] \in Models /\ candidates[r] \in Seq(Providers)
    BY Zenon, <2>1, RequestFacts
  <2>6. Becomes(r, "allow", model[r], candidates[r], at[r] + 1, 0, x)
    BY Zenon, <2>1, <2>3, <2>4, <2>5 DEF Becomes, Steps, Trying
  <2>7. at[r] + 1 <= Len(candidates[r])
    <3>1. at[r] \in Nat /\ candidates[r] \in Seq(Providers)
      BY Zenon, RequestFacts
    <3>. QED  BY <1>2, <3>1
  <2>8. "allow" \in Trying
    BY Zenon DEF Trying
  <2>9. /\ RoutingInv' /\ Alone(r) /\ pc'[r] = "allow"
        /\ candidates'[r] = candidates[r] /\ at'[r] = at[r] + 1
    <3> DEFINE a == at[r] + 1
    <3>1. Becomes(r, "allow", model[r], candidates[r], a, 0, x)
      BY Zenon, <2>6
    <3> HIDE DEF a
    <3>2. RoutingInv' /\ Alone(r) /\ pc'[r] = "allow" /\ candidates'[r] = candidates[r] /\ at'[r] = a
      BY Zenon, <3>1, OneRequest
    <3>. QED  BY Zenon, <3>2 DEF a
  <2>. QED  BY Zenon, <2>7, <2>8, <2>9 DEF Advances
<1>. QED  BY Zenon, <1>1, <1>2

\* The breaker admits the attempt, which is counted.
LEMMA AttemptAllowedInv ==
  ASSUME RoutingInv, NEW r \in Requests, AttemptAllowed(r)
  PROVE  RoutingInv' /\ Alone(r) /\ Advances(r)
<1>1. /\ pc[r] = "allow" /\ pc' = [pc EXCEPT ![r] = "call"]
      /\ attempt' = [attempt EXCEPT ![r] = attempt[r] + 1]
      /\ serving' = serving /\ priority' = priority /\ model' = model
      /\ candidates' = candidates /\ at' = at /\ retry' = retry
  BY Zenon DEF AttemptAllowed, registry
<1>2. Sound(serving, priority, "allow", model[r], candidates[r], at[r], retry[r], attempt[r])
  BY Zenon, <1>1, RequestFacts
<1>3. Sound(serving, priority, "call", model[r], candidates[r], at[r], retry[r], attempt[r] + 1)
  BY Zenon, <1>2, CallSound
<1>4. attempt[r] + 1 \in Nat
  BY Zenon, <1>3 DEF Sound
<1>5. /\ model' = [model EXCEPT ![r] = model[r]]
      /\ candidates' = [candidates EXCEPT ![r] = candidates[r]]
      /\ at' = [at EXCEPT ![r] = at[r]] /\ retry' = [retry EXCEPT ![r] = retry[r]]
      /\ model[r] \in Models /\ candidates[r] \in Seq(Providers)
      /\ at[r] \in Nat /\ retry[r] \in Nat
  BY Zenon, <1>1, RequestFacts
<1>6. Becomes(r, "call", model[r], candidates[r], at[r], retry[r], attempt[r] + 1)
  BY Zenon, <1>1, <1>3, <1>4, <1>5 DEF Becomes, Steps, Trying
<1>7. "allow" \in Trying /\ "call" \in Trying
  BY Zenon DEF Trying
<1>. QED  BY Zenon, <1>1, <1>6, <1>7, AttemptOrder, OneRequest DEF Advances

\* A refused attempt counts as well: it is the one that "allow" leaves room for.
LEMMA AttemptRefusedInv ==
  ASSUME RoutingInv, NEW r \in Requests, AttemptRefused(r)
  PROVE  RoutingInv' /\ Alone(r) /\ Advances(r)
<1>1. /\ pc[r] = "allow" /\ NextProvider(r, attempt[r] + 1)
      /\ serving' = serving /\ priority' = priority /\ model' = model
  BY Zenon DEF AttemptRefused, registry
<1>2. Sound(serving, priority, "allow", model[r], candidates[r], at[r], retry[r], attempt[r])
  BY Zenon, <1>1, RequestFacts
<1>3. Sound(serving, priority, "call", model[r], candidates[r], at[r], retry[r], attempt[r] + 1)
  BY Zenon, <1>2, CallSound
<1>4. /\ attempt[r] + 1 \in Nat
      /\ attempt[r] + 1 <= Allowance(candidates[r])[at[r] - 1] + retry[r] + 1
  BY Zenon, <1>3 DEF Sound, Trying
<1>. QED  BY Zenon, <1>1, <1>4, NextProviderInv DEF Trying

\* A completion from the provider is returned to the caller.
LEMMA CallSucceedsInv ==
  ASSUME RoutingInv, NEW r \in Requests, NEW reply \in Replies, CallSucceeds(r, reply)
  PROVE  RoutingInv' /\ Alone(r) /\ Advances(r)
<1>1. Return(r, "ok") /\ serving' = serving /\ priority' = priority /\ model' = model
  BY Zenon DEF CallSucceeds, registry
<1>. QED  BY Zenon, <1>1, ReturnInv

\* A retry is granted only below the provider's limit.
LEMMA CallFailsInv ==
  ASSUME RoutingInv, NEW r \in Requests, NEW reply \in Replies, CallFails(r, reply)
  PROVE  RoutingInv' /\ Alone(r) /\ Advances(r)
<1> DEFINE e == Complete(Current(r), reply)
<1>1. /\ pc[r] = "call" /\ serving' = serving /\ priority' = priority /\ model' = model
      /\ IF ShouldRetry(e, retry[r], Current(r))
           THEN /\ pc' = [pc EXCEPT ![r] = "backoff"]
                /\ UNCHANGED <<candidates, at, retry, attempt, outcome>>
           ELSE NextProvider(r, attempt[r])
  BY Zenon DEF CallFails, registry
<1> HIDE DEF e
<1>2. Sound(serving, priority, "call", model[r], candidates[r], at[r], retry[r], attempt[r])
  BY Zenon, <1>1, RequestFacts
<1>3. CASE ShouldRetry(e, retry[r], Current(r))
  <2>1. /\ pc' = [pc EXCEPT ![r] = "backoff"] /\ candidates' = candidates
        /\ at' = at /\ retry' = retry /\ attempt' = attempt
    BY Zenon, <1>1, <1>3
  <2>2. retry[r] < GetMaxRetriesForProvider(candidates[r][at[r]])
    BY Zenon, <1>3 DEF ShouldRetry, Current
  <2>3. Sound(serving, priority, "backoff", model[r], candidates[r], at[r], retry[r], attempt[r])
    BY Zenon, <1>2, <2>2, BackoffSound
  <2>4. /\ model' = [model EXCEPT ![r] = model[r]]
        /\ candidates' = [candidates EXCEPT ![r] = candidates[r]]
        /\ at' = [at EXCEPT ![r] = at[r]] /\ retry' = [retry EXCEPT ![r] = retry[r]]
        /\ attempt' = [attempt EXCEPT ![r] = attempt[r]]
        /\ model[r] \in Models /\ candidates[r] \in Seq(Providers)
        /\ at[r] \in Nat /\ retry[r] \in Nat /\ attempt[r] \in Nat
    BY Zenon, <1>1, <2>1, RequestFacts
  <2>5. Becomes(r, "backoff", model[r], candidates[r], at[r], retry[r], attempt[r])
    BY Zenon, <1>1, <2>1, <2>3, <2>4 DEF Becomes, Steps, Trying
  <2>6. "call" \in Trying /\ "backoff" \in Trying
    BY Zenon DEF Trying
  <2>7. /\ RoutingInv' /\ Alone(r) /\ pc'[r] = "backoff"
        /\ candidates'[r] = candidates[r] /\ at'[r] = at[r] /\ retry'[r] = retry[r]
    BY Zenon, <2>5, OneRequest
  <2>8. AttemptStep[pc[r]] < AttemptStep[pc'[r]]
    BY Zenon, <1>1, <2>7, AttemptOrder
  <2>. QED  BY Zenon, <1>1, <2>6, <2>7, <2>8 DEF Advances
<1>4. CASE ~ShouldRetry(e, retry[r], Current(r))
  <2>1. NextProvider(r, attempt[r])
    BY Zenon, <1>1, <1>4
  <2>2. /\ attempt[r] \in Nat
        /\ attempt[r] <= Allowance(candidates[r])[at[r] - 1] + retry[r] + 1
    BY Zenon, <1>2 DEF Sound, Trying
  <2>. QED  BY Zenon, <1>1, <2>1, <2>2, NextProviderInv DEF Trying
<1>. QED  BY Zenon, <1>3, <1>4

\* The next attempt at the same provider.
LEMMA BackoffOverInv ==
  ASSUME RoutingInv, NEW r \in Requests, BackoffOver(r)
  PROVE  RoutingInv' /\ Alone(r) /\ Advances(r)
<1>1. /\ pc[r] = "backoff" /\ pc' = [pc EXCEPT ![r] = "allow"]
      /\ retry' = [retry EXCEPT ![r] = retry[r] + 1]
      /\ serving' = serving /\ priority' = priority /\ model' = model
      /\ candidates' = candidates /\ at' = at /\ attempt' = attempt
  BY Zenon DEF BackoffOver, registry
<1>2. Sound(serving, priority, "backoff", model[r], candidates[r], at[r], retry[r], attempt[r])
  BY Zenon, <1>1, RequestFacts
<1>3. Sound(serving, priority, "allow", model[r], candidates[r], at[r], retry[r] + 1, attempt[r])
  BY Zenon, <1>2, RetrySound
<1>4. retry[r] + 1 \in Nat
  BY Zenon, <1>3 DEF Sound
<1>5. /\ model' = [model EXCEPT ![r] = model[r]]
      /\ candidates' = [candidates EXCEPT ![r] = candidates[r]]
      /\ at' = [at EXCEPT ![r] = at[r]] /\ attempt' = [attempt EXCEPT ![r] = attempt[r]]
      /\ model[r] \in Models /\ candidates[r] \in Seq(Providers)
      /\ at[r] \in Nat /\ attempt[r] \in Nat
  BY Zenon, <1>1, RequestFacts
<1>6. Becomes(r, "allow", model[r], candidates[r], at[r], retry[r] + 1, attempt[r])
  BY Zenon, <1>1, <1>3, <1>4, <1>5 DEF Becomes, Steps, Trying
<1>7. retry[r] + 1 <= GetMaxRetriesForProvider(Current(r))
  BY Zenon, <1>3 DEF Sound, Trying, Current
<1>8. "allow" \in Trying /\ "backoff" \in Trying
  BY Zenon DEF Trying
<1>9. /\ RoutingInv' /\ Alone(r) /\ pc'[r] = "allow"
      /\ candidates'[r] = candidates[r] /\ at'[r] = at[r] /\ retry'[r] = retry[r] + 1
  <2> DEFINE n == retry[r] + 1
  <2>1. Becomes(r, "allow", model[r], candidates[r], at[r], n, attempt[r])
    BY Zenon, <1>6
  <2> HIDE DEF n
  <2>2. /\ RoutingInv' /\ Alone(r) /\ pc'[r] = "allow"
        /\ candidates'[r] = candidates[r] /\ at'[r] = at[r] /\ retry'[r] = n
    BY Zenon, <2>1, OneRequest
  <2>. QED  BY Zenon, <2>2 DEF n
<1>. QED  BY Zenon, <1>1, <1>7, <1>8, <1>9 DEF Advances

\* The context of the request ends during the backoff.
LEMMA CancelledInv ==
  ASSUME RoutingInv, NEW r \in Requests, Cancelled(r)
  PROVE  RoutingInv' /\ Alone(r) /\ Advances(r)
<1>1. Return(r, "cancelled") /\ serving' = serving /\ priority' = priority /\ model' = model
  BY Zenon DEF Cancelled, registry
<1>. QED  BY Zenon, <1>1, ReturnInv

\* A step of a completion under way.
LEMMA StepInv ==
  ASSUME RoutingInv, NEW r \in Requests, Step(r)
  PROVE  RoutingInv' /\ Alone(r) /\ Advances(r)
<1>1. CASE ScanProvider(r)
  BY Zenon, <1>1, ScanProviderInv
<1>2. CASE EndScan(r)
  BY Zenon, <1>2, EndScanInv
<1>3. CASE AttemptAllowed(r)
  BY Zenon, <1>3, AttemptAllowedInv
<1>4. CASE AttemptRefused(r)
  BY Zenon, <1>4, AttemptRefusedInv
<1>5. ASSUME NEW reply \in Replies, CallSucceeds(r, reply)
      PROVE  RoutingInv' /\ Alone(r) /\ Advances(r)
  BY Zenon, <1>5, CallSucceedsInv
<1>6. ASSUME NEW reply \in Replies, CallFails(r, reply)
      PROVE  RoutingInv' /\ Alone(r) /\ Advances(r)
  BY Zenon, <1>6, CallFailsInv
<1>7. CASE BackoffOver(r)
  BY Zenon, <1>7, BackoffOverInv
<1>8. CASE Cancelled(r)
  BY Zenon, <1>8, CancelledInv
<1>. QED  BY Zenon, <1>1, <1>2, <1>3, <1>4, <1>5, <1>6, <1>7, <1>8 DEF Step

\* Every step preserves the invariant.
LEMMA RoutingInvStep == RoutingInv /\ [Next]_vars => RoutingInv'
<1>1. SUFFICES ASSUME RoutingInv, [Next]_vars PROVE RoutingInv'
  OBVIOUS
<1>2. CASE UNCHANGED vars
  <2>1. UNCHANGED <<serving, priority, pc, local>>
    BY Zenon, <1>2 DEF vars, registry
  <2>. QED  BY Zenon, <1>1, <2>1, QuietInv
<1>3. CASE \E p \in Providers : Register(p)
  BY Zenon, <1>1, <1>3, RegisterInv
<1>4. CASE \E p \in Providers : TimePasses(p)
  <2>1. UNCHANGED <<serving, priority, pc, local>>
    BY Zenon, <1>4 DEF TimePasses, registry
  <2>. QED  BY Zenon, <1>1, <2>1, QuietInv
<1>5. CASE StartServing
  BY Zenon, <1>1, <1>5, StartServingInv
<1>6. CASE RunHealthChecks
  <2>1. UNCHANGED <<serving, priority, pc, local>>
    BY Zenon, <1>6 DEF RunHealthChecks, CheckProviderHealth
  <2>. QED  BY Zenon, <1>1, <2>1, QuietInv
<1>7. ASSUME NEW r \in Requests, Begin(r) PROVE RoutingInv'
  BY Zenon, <1>1, <1>7, BeginInv
<1>8. ASSUME NEW r \in Requests, Step(r) PROVE RoutingInv'
  BY Zenon, <1>1, <1>8, StepInv
<1>. QED  BY Zenon, <1>1, <1>2, <1>3, <1>4, <1>5, <1>6, <1>7, <1>8 DEF Next

-----------------------------------------------------------------------------
(* The theorems *)

\* What router.go and fallback.go maintain for every completion under way: the
\* registry stays ordered, and each completion stays sound at its step.
THEOREM RoutingInvariant == Spec => []RoutingInv
<1>1. Init => RoutingInv
  BY RoutingInvInit
<1>2. RoutingInv /\ [Next]_vars => RoutingInv'
  BY RoutingInvStep
<1>. QED  BY <1>1, <1>2, PTL DEF Spec

\* For any providers, priorities and models, and whatever the order and number
\* of the calls of Register: a completion tries only providers that serve its
\* model, each once, in ascending priority value.
THEOREM RoutingOrder == Spec => []CandidatesInPriorityOrder
<1>1. ASSUME RoutingInv PROVE CandidatesInPriorityOrder
  <2>1. SUFFICES ASSUME NEW r \in Requests, NEW i \in 1..Len(candidates[r])
                 PROVE  /\ model[r] \in Serves[candidates[r][i]]
                        /\ \A j \in 1..(i - 1) :
                             /\ candidates[r][j] # candidates[r][i]
                             /\ Priority[candidates[r][j]] <= Priority[candidates[r][i]]
    BY Zenon DEF CandidatesInPriorityOrder
  <2>2. Sound(serving, priority, pc[r], model[r], candidates[r], at[r], retry[r], attempt[r])
    BY Zenon, <1>1, RequestFacts
  <2>3. candidates[r] \in Seq(Providers)
    BY Zenon, <1>1, RequestFacts
  <2>4. \A j \in 1..(i - 1) : j \in 1..Len(candidates[r]) /\ j < i
    BY <2>3
  <2>5. Ordered(candidates[r]) /\ model[r] \in Serves[candidates[r][i]]
    BY Zenon, <2>2 DEF Sound
  <2>. QED  BY Zenon, <2>4, <2>5 DEF Ordered
<1>2. RoutingInv => CandidatesInPriorityOrder
  BY Zenon, <1>1
<1>. QED  BY <1>2, RoutingInvariant, PTL

\* For any retry limits, fallback rules and replies of the providers: the
\* attempts of a completion stay within one try and the allowed retries of each
\* provider it has given up and of the one it is trying.
THEOREM RoutingAttempts == Spec => []AttemptsBounded
<1>1. ASSUME RoutingInv PROVE AttemptsBounded
  <2>1. SUFFICES ASSUME NEW r \in Requests, pc[r] \in {"allow", "call", "backoff"}
                 PROVE  /\ retry[r] <= GetMaxRetriesForProvider(Current(r))
                        /\ attempt[r] <= Allowance(candidates[r])[at[r] - 1] + retry[r]
                                         + (IF pc[r] = "allow" THEN 0 ELSE 1)
    BY Zenon DEF AttemptsBounded
  <2>2. Sound(serving, priority, pc[r], model[r], candidates[r], at[r], retry[r], attempt[r])
    BY Zenon, <1>1, RequestFacts
  <2>3. pc[r] \in Trying
    BY Zenon, <2>1 DEF Trying
  <2>. QED  BY Zenon, <2>2, <2>3 DEF Sound, Current
<1>2. RoutingInv => AttemptsBounded
  BY Zenon, <1>1
<1>. QED  BY <1>2, RoutingInvariant, PTL
\* Whatever happens, in this completion or in others: a completion under way
\* stays as it is in a registry that stays as it is, or advances.
CompletionsAdvance ==
  [][\A r \in Requests :
       pc[r] # "idle" =>
         /\ priority' = priority
         /\ \/ UNCHANGED <<pc[r], model[r], candidates[r], at[r], retry[r], attempt[r]>>
            \/ Advances(r)]_vars

\* For any providers, limits and replies, and however many completions share the
\* breakers: ExecuteWithFallback never goes back, so a completion that keeps
\* taking steps returns after a number of them that its lists and limits bound.
THEOREM RoutingAdvances == Spec => CompletionsAdvance
<1> DEFINE A == \A r \in Requests :
                  pc[r] # "idle" =>
                    /\ priority' = priority
                    /\ \/ UNCHANGED <<pc[r], model[r], candidates[r], at[r], retry[r], attempt[r]>>
                       \/ Advances(r)
<1>1. ASSUME RoutingInv, Next PROVE A
  <2>1. SUFFICES ASSUME NEW q \in Requests, pc[q] # "idle"
                 PROVE  /\ priority' = priority
                        /\ \/ UNCHANGED <<pc[q], model[q], candidates[q], at[q], retry[q], attempt[q]>>
                           \/ Advances(q)
    BY Zenon
  <2>2. serving
    <3>1. Sound(serving, priority, pc[q], model[q], candidates[q], at[q], retry[q], attempt[q])
      BY Zenon, <1>1, RequestFacts
    <3>. QED  BY Zenon, <2>1, <3>1 DEF Sound
  <2>3. CASE \E p \in Providers : TimePasses(p)
    BY Zenon, <2>3 DEF TimePasses, registry, local
  <2>4. CASE RunHealthChecks
    BY Zenon, <2>4 DEF RunHealthChecks, CheckProviderHealth, local
  <2>5. ASSUME NEW r \in Requests, Begin(r) \/ Step(r)
        PROVE  /\ priority' = priority
               /\ \/ UNCHANGED <<pc[q], model[q], candidates[q], at[q], retry[q], attempt[q]>>
                  \/ Advances(q)
    <3>1. CASE Begin(r)
      <4>1. q # r
        BY Zenon, <2>1, <3>1 DEF Begin
      <4>. QED  BY Zenon, <1>1, <3>1, <4>1, BeginInv DEF Alone
    <3>2. CASE Step(r)
      <4>1. Alone(r) /\ Advances(r)
        BY Zenon, <1>1, <3>2, StepInv
      <4>. QED  BY Zenon, <4>1 DEF Alone
    <3>. QED  BY Zenon, <2>5, <3>1, <3>2
  <2>6. ~StartServing /\ \A p \in Providers : ~Register(p)
    BY Zenon, <2>2 DEF StartServing, Register
  <2>. QED  BY Zenon, <1>1, <2>3, <2>4, <2>5, <2>6 DEF Next
<1>2. RoutingInv /\ [Next]_vars => [A]_vars
  BY Zenon, <1>1
<1> HIDE DEF A
<1>3. Spec => [][A]_vars
  BY <1>2, RoutingInvariant, PTL DEF Spec
<1>. QED  BY <1>3 DEF A, CompletionsAdvance
=============================================================================
