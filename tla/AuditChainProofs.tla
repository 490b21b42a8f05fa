--------------------------- MODULE AuditChainProofs ---------------------------
(***************************************************************************)
(* The chains of AuditChain stay intact for any set of writers and tenants  *)
(* and any workload, and VerifyChain accepts what was written.              *)
(***************************************************************************)
EXTENDS AuditChain, SequenceTheorems, TLAPS

\* A transaction that has read the chain or inserted rows holds its tenant's lock,
\* and a writer between two transactions holds nothing.
LockSound ==
  \A w \in Writers :
    /\ pc[w] \in {"read", "insert", "commit"} \/ pending[w] # <<>> =>
         locked[TenantOf[w]] = w
    /\ pc[w] = "idle" => pending[w] = <<>>

\* What each transaction sees is a chain.
VisibleIntact == \A w \in Writers : Intact(Visible(w), TenantOf[w])

\* The inductive invariant of the chains.
IInv == TypeOK /\ LockSound /\ ChainIntact /\ VisibleIntact /\ ReadsStayCurrent

\* The rows an open transaction has inserted are its first events, in order; it commits
\* when they are all there.
Batch(w) ==
  /\ \A i \in 1..Len(pending[w]) : pending[w][i].body = <<w, tx[w], i>>
  /\ pc[w] # "idle" => tx[w] \in 1..Len(Events[w])
  /\ pc[w] \in {"ensure", "lock", "read", "insert"} => Len(pending[w]) < Events[w][tx[w]]
  /\ pc[w] = "commit" => Len(pending[w]) = Events[w][tx[w]]

\* The inductive invariant of the batches, beside IInv.
BatchInv == (\A w \in Writers : tx[w] # 0 /\ Batch(w)) /\ BatchesWhole

USE DEF Goto

-----------------------------------------------------------------------------
(* Chains *)

\* A hash computed by ChainHash is a hash, and not the one it is computed from.
LEMMA ChainHashType ==
  ASSUME NEW prev \in Hashes, NEW seq \in Nat, NEW T \in Tenants, NEW b \in Bodies
  PROVE /\ ChainHash(prev, seq, T, b) \in Hashes
        /\ ChainHash(prev, seq, T, b) # prev
        /\ ChainHash(prev, seq, T, b) # Genesis
<1>1. <<seq, T, b>> \in Nat \X Tenants \X Bodies
  OBVIOUS
<1>. HIDE DEF Bodies
<1>2. /\ ChainHash(prev, seq, T, b) \in Hashes
      /\ Len(ChainHash(prev, seq, T, b)) = Len(prev) + 1
      /\ Len(prev) \in Nat
  BY <1>1 DEF Hashes, ChainHash
<1>. QED  BY <1>2 DEF Genesis

\* The row with the highest seq of a chain is its last element.
LEMMA LastOfChain ==
  ASSUME NEW s \in Seq(Row), NEW T, Intact(s, T), s # <<>>
  PROVE LastOf(s) = s[Len(s)]
<1>1. Len(s) \in 1..Len(s)
  OBVIOUS
<1>2. \A j \in 1..Len(s) : s[j].seq <= s[Len(s)].seq
  BY <1>1 DEF Intact
<1>3. \A i \in 1..Len(s) : (\A j \in 1..Len(s) : s[j].seq <= s[i].seq) => i = Len(s)
  BY <1>1 DEF Intact
<1>4. (CHOOSE i \in 1..Len(s) : \A j \in 1..Len(s) : s[j].seq <= s[i].seq) = Len(s)
  BY <1>1, <1>2, <1>3
<1>. QED  BY <1>4 DEF LastOf

\* Appending to what a transaction sees.
LEMMA AppendRow ==
  ASSUME NEW s \in Seq(Row), NEW p \in Seq(Row), NEW r \in Row
  PROVE s \o Append(p, r) = Append(s \o p, r) /\ s \o p \in Seq(Row)
  OBVIOUS

\* A row linked to the last one continues the chain.
LEMMA ChainGrows ==
  ASSUME NEW s \in Seq(Row), NEW T \in Tenants, Intact(s, T),
         NEW r \in Row, r.seq = LastOf(s).seq + 1, r.prev = LastOf(s).hash,
         r.hash = ChainHash(r.prev, r.seq, T, r.body)
  PROVE Intact(Append(s, r), T)
<1>1. r.seq = Len(s) + 1 /\ r.prev = (IF Len(s) = 0 THEN Genesis ELSE s[Len(s)].hash)
  <2>1. CASE s = <<>>
    BY <2>1 DEF LastOf, NoRow, Genesis
  <2>2. CASE s # <<>>
    <3>1. LastOf(s) = s[Len(s)] /\ Len(s) \in 1..Len(s) /\ Len(s) # 0
      BY <2>2, LastOfChain
    <3>. QED  BY <3>1 DEF Intact
  <2>. QED  BY <2>1, <2>2
<1>2. \A i \in 1..Len(s) : Append(s, r)[i] = s[i]
  OBVIOUS
<1>3. Len(Append(s, r)) = Len(s) + 1 /\ Append(s, r)[Len(s) + 1] = r /\ Len(s) \in Nat
  OBVIOUS
<1>. SUFFICES ASSUME NEW i \in 1..(Len(s) + 1)
     PROVE /\ Append(s, r)[i].seq = i
           /\ Append(s, r)[i].prev = (IF i = 1 THEN Genesis ELSE Append(s, r)[i - 1].hash)
           /\ Append(s, r)[i].hash = ChainHash(Append(s, r)[i].prev, i, T, Append(s, r)[i].body)
  BY <1>3 DEF Intact
<1>4. CASE i \in 1..Len(s)
  <2>1. i # 1 => i - 1 \in 1..Len(s)
    BY <1>3, <1>4
  <2>. QED  BY <1>2, <1>4, <2>1 DEF Intact
<1>5. CASE i = Len(s) + 1
  <2>1. i # 1 => i - 1 \in 1..Len(s) /\ i - 1 = Len(s)
    BY <1>3, <1>5
  <2>. QED  BY <1>1, <1>2, <1>3, <1>5, <2>1
<1>. QED  BY <1>3, <1>4, <1>5

\* A transaction without pending rows sees the committed ones.
LEMMA NothingPending ==
  ASSUME NEW s \in Seq(Row)
  PROVE s \o <<>> = s
  OBVIOUS

\* What a writer sees is a sequence of rows.
LEMMA VisibleType == TypeOK => \A w \in Writers : Visible(w) \in Seq(Row)
  BY AuditConstants, AppendRow DEF TypeOK, Visible

\* The row an append computes from the last one it has read.
LEMMA NextRowType ==
  ASSUME TypeOK, NEW w \in Writers
  PROVE /\ NextRow(w) \in Row
        /\ NextRow(w).seq = last[w].seq + 1
        /\ NextRow(w).prev = last[w].hash
        /\ NextRow(w).hash = ChainHash(NextRow(w).prev, NextRow(w).seq, TenantOf[w], NextRow(w).body)
<1> DEFINE b == <<w, tx[w], Len(pending[w]) + 1>>
<1>1. b \in Bodies
  BY DEF TypeOK, Bodies
<1>2. last[w].seq \in Nat /\ last[w].hash \in Hashes
  <2>1. CASE last[w] = NoRow
    BY <2>1 DEF NoRow, Genesis, Hashes
  <2>2. CASE last[w] \in Row
    BY <2>2 DEF Row
  <2>. QED  BY <2>1, <2>2 DEF TypeOK
<1>. HIDE DEF b
<1>3. TenantOf[w] \in Tenants /\ last[w].seq + 1 \in Nat
  BY <1>2, AuditConstants
<1>4. ChainHash(last[w].hash, last[w].seq + 1, TenantOf[w], b) \in Hashes
  BY <1>1, <1>2, <1>3, ChainHashType
<1>5. NextRow(w) = [seq |-> last[w].seq + 1, prev |-> last[w].hash, body |-> b,
                    hash |-> ChainHash(last[w].hash, last[w].seq + 1, TenantOf[w], b)]
  BY DEF NextRow, b
<1>. QED  BY <1>1, <1>2, <1>3, <1>4, <1>5 DEF Row

\* The last row of a chain is a row, unless the chain is empty.
LEMMA LastOfType == ASSUME NEW s \in Seq(Row), NEW T, Intact(s, T)
                    PROVE LastOf(s) \in Row \cup {NoRow}
<1>1. CASE s = <<>>
  BY <1>1 DEF LastOf
<1>2. CASE s # <<>>
  <2>1. Len(s) \in 1..Len(s)
    BY <1>2
  <2>. QED  BY <1>2, <2>1, LastOfChain
<1>. QED  BY <1>1, <1>2

-----------------------------------------------------------------------------
(* The invariant *)

\* The empty log has every part of the invariant.
LEMMA InitIInv == Init => IInv
<1> SUFFICES ASSUME Init PROVE IInv
  OBVIOUS
<1>1. TypeOK
  BY AuditConstants DEF Init, TypeOK, Steps
<1>2. \A w \in Writers : Visible(w) = <<>>
  BY AuditConstants, NothingPending DEF Init, Visible
<1>. QED
  BY <1>1, <1>2 DEF Init, IInv, LockSound, ChainIntact, VisibleIntact, ReadsStayCurrent, Intact

\* Every statement keeps the types.
LEMMA TypeStep == IInv /\ [Next]_vars => TypeOK'
<1> SUFFICES ASSUME IInv, [Next]_vars PROVE TypeOK'
  OBVIOUS
<1> USE AuditConstants DEF TypeOK, Steps, IInv
<1>1. ASSUME NEW w \in Writers, Begin(w) PROVE TypeOK'
  BY <1>1 DEF Begin
<1>2. ASSUME NEW w \in Writers, EnsureLockRow(w) PROVE TypeOK'
  BY <1>2 DEF EnsureLockRow
<1>3. ASSUME NEW w \in Writers, Lock(w) PROVE TypeOK'
  BY <1>3 DEF Lock
<1>4. ASSUME NEW w \in Writers, ReadLast(w) PROVE TypeOK'
  <2>1. LastOf(Visible(w)) \in Row \cup {NoRow}
    BY VisibleType, LastOfType DEF VisibleIntact
  <2>. QED  BY <1>4, <2>1 DEF ReadLast
<1>5. ASSUME NEW w \in Writers, Insert(w) PROVE TypeOK'
  <2>1. pc[w] = "insert" /\ LastOf(Visible(w)) = last[w]
    BY <1>5 DEF Insert, ReadsStayCurrent
  <2>2. /\ pending' = [pending EXCEPT ![w] = Append(pending[w], NextRow(w))]
        /\ pc' = [pc EXCEPT ![w] = IF Len(pending[w]) + 1 < Events[w][tx[w]] THEN "ensure" ELSE "commit"]
        /\ UNCHANGED <<log, lockRow, locked, tx, last>>
    BY <1>5, <2>1 DEF Insert
  <2>3. Append(pending[w], NextRow(w)) \in Seq(Row)
    BY NextRowType
  <2>. QED  BY <2>2, <2>3
<1>6. ASSUME NEW w \in Writers, Commit(w) PROVE TypeOK'
  BY <1>6, VisibleType DEF Commit, EndTx
<1>7. ASSUME NEW w \in Writers, Fail(w) PROVE TypeOK'
  BY <1>7 DEF Fail, Rollback, EndTx
<1>8. CASE UNCHANGED vars
  BY <1>8 DEF vars
<1>. QED
  BY <1>1, <1>2, <1>3, <1>4, <1>5, <1>6, <1>7, <1>8 DEF Next, Step

\* What Insert does under the lock: the check of the row that comes back passes.
LEMMA InsertAppends ==
  ASSUME IInv, NEW w \in Writers, Insert(w)
  PROVE /\ pc[w] = "insert" /\ LastOf(Visible(w)) = last[w]
        /\ pending' = [pending EXCEPT ![w] = Append(pending[w], NextRow(w))]
        /\ pc' = [pc EXCEPT ![w] = IF Len(pending[w]) + 1 < Events[w][tx[w]] THEN "ensure" ELSE "commit"]
        /\ UNCHANGED <<log, lockRow, locked, tx, last>>
<1>1. pc[w] = "insert" /\ LastOf(Visible(w)) = last[w]
  BY DEF Insert, IInv, ReadsStayCurrent
<1>. QED  BY <1>1 DEF Insert

\* Every statement leaves the locks with the transactions that work under them.
LEMMA LockStep == IInv /\ [Next]_vars => LockSound'
<1> SUFFICES ASSUME IInv, [Next]_vars PROVE LockSound'
  OBVIOUS
<1> USE AuditConstants DEF TypeOK, Steps, IInv, LockSound
<1>1. ASSUME NEW w \in Writers, Begin(w) PROVE LockSound'
  BY <1>1 DEF Begin
<1>2. ASSUME NEW w \in Writers, EnsureLockRow(w) PROVE LockSound'
  BY <1>2 DEF EnsureLockRow
<1>3. ASSUME NEW w \in Writers, Lock(w) PROVE LockSound'
  BY <1>3 DEF Lock
<1>4. ASSUME NEW w \in Writers, ReadLast(w) PROVE LockSound'
  BY <1>4 DEF ReadLast
<1>5. ASSUME NEW w \in Writers, Insert(w) PROVE LockSound'
  BY <1>5, InsertAppends
<1>6. ASSUME NEW w \in Writers, Commit(w) PROVE LockSound'
  BY <1>6 DEF Commit, EndTx
<1>7. ASSUME NEW w \in Writers, Fail(w) PROVE LockSound'
  BY <1>7 DEF Fail, Rollback, EndTx
<1>8. CASE UNCHANGED vars
  BY <1>8 DEF vars
<1>. QED
  BY <1>1, <1>2, <1>3, <1>4, <1>5, <1>6, <1>7, <1>8 DEF Next, Step

\* A step that leaves the log and the pending rows alone leaves every chain alone.
LEMMA SameChains ==
  ASSUME ChainIntact, VisibleIntact, UNCHANGED <<log, pending>>
  PROVE ChainIntact' /\ VisibleIntact' /\ \A w \in Writers : Visible(w)' = Visible(w)
  BY DEF ChainIntact, VisibleIntact, Visible

\* Every statement keeps the chains, as committed, as seen and as read.
LEMMA ChainStep ==
  IInv /\ [Next]_vars => ChainIntact' /\ VisibleIntact' /\ ReadsStayCurrent'
<1> DEFINE Goal == ChainIntact /\ VisibleIntact /\ ReadsStayCurrent
<1> SUFFICES ASSUME IInv, [Next]_vars PROVE Goal'
  OBVIOUS
<1> USE AuditConstants DEF TypeOK, Steps, IInv
<1>1. ASSUME NEW w \in Writers, Begin(w) \/ EnsureLockRow(w) \/ Lock(w) PROVE Goal'
  <2>1. UNCHANGED <<log, pending, last>> /\ \A v \in Writers : pc'[v] = "insert" => pc[v] = "insert"
    BY <1>1 DEF Begin, EnsureLockRow, Lock
  <2>. QED  BY <2>1, SameChains DEF ReadsStayCurrent
<1>2. ASSUME NEW w \in Writers, ReadLast(w) PROVE Goal'
  <2>1. /\ UNCHANGED <<log, pending>>
        /\ last' = [last EXCEPT ![w] = LastOf(Visible(w))]
        /\ pc' = [pc EXCEPT ![w] = "insert"]
    BY <1>2 DEF ReadLast
  <2>. QED  BY <2>1, SameChains DEF ReadsStayCurrent
<1>3. ASSUME NEW w \in Writers, Insert(w) PROVE Goal'
  <2>0. IInv /\ TypeOK /\ VisibleIntact
    OBVIOUS
  <2>. HIDE DEF IInv, TypeOK
  <2>1. /\ pc[w] = "insert" /\ LastOf(Visible(w)) = last[w]
        /\ pending' = [pending EXCEPT ![w] = Append(pending[w], NextRow(w))]
        /\ UNCHANGED <<log, last>>
    BY <1>3, <2>0, InsertAppends
  <2>7. pc'[w] # "insert" /\ \A v \in Writers \ {w} : pc'[v] = pc[v]
    <3>1. pc' = [pc EXCEPT ![w] = IF Len(pending[w]) + 1 < Events[w][tx[w]] THEN "ensure" ELSE "commit"]
      BY <1>3, <2>0, InsertAppends
    <3>2. \E step \in {"ensure", "commit"} : pc' = [pc EXCEPT ![w] = step]
      BY <3>1
    <3>. QED  BY <2>0, <3>2 DEF TypeOK
  <2>8. /\ NextRow(w) \in Row
        /\ NextRow(w).seq = last[w].seq + 1
        /\ NextRow(w).prev = last[w].hash
        /\ NextRow(w).hash = ChainHash(NextRow(w).prev, NextRow(w).seq, TenantOf[w], NextRow(w).body)
    BY <2>0, NextRowType
  <2>2. Visible(w)' = Append(Visible(w), NextRow(w))
    <3>1. /\ log[TenantOf[w]] \in Seq(Row) /\ pending[w] \in Seq(Row)
          /\ pending'[w] = Append(pending[w], NextRow(w)) /\ log' = log
      BY <2>0, <2>1 DEF TypeOK
    <3>2. log[TenantOf[w]] \o Append(pending[w], NextRow(w))
            = Append(log[TenantOf[w]] \o pending[w], NextRow(w))
      BY <3>1, <2>8, AppendRow
    <3>. QED  BY <3>1, <3>2, Zenon DEF Visible
  <2>3. Intact(Visible(w)', TenantOf[w])
    <3>1. Visible(w) \in Seq(Row) /\ Intact(Visible(w), TenantOf[w]) /\ TenantOf[w] \in Tenants
      BY <2>0, VisibleType DEF VisibleIntact
    <3>. QED  BY <3>1, <2>1, <2>2, <2>8, ChainGrows
  <2>4. \A v \in Writers \ {w} : Visible(v)' = Visible(v)
    BY <2>0, <2>1 DEF Visible, TypeOK
  <2>5. VisibleIntact'
    <3> SUFFICES ASSUME NEW v \in Writers PROVE Intact(Visible(v), TenantOf[v])'
      BY DEF VisibleIntact
    <3>1. CASE v = w
      BY <2>3, <3>1
    <3>2. CASE v # w
      BY <2>0, <2>4, <3>2 DEF VisibleIntact
    <3>. QED  BY <3>1, <3>2
  <2>6. ReadsStayCurrent'
    BY <2>0, <2>1, <2>7, <2>4 DEF ReadsStayCurrent, IInv
  <2>. QED  BY <2>0, <2>1, <2>5, <2>6 DEF ChainIntact, IInv
<1>4. ASSUME NEW w \in Writers, Commit(w) PROVE Goal'
  <2>1. /\ pc[w] = "commit" /\ pc' = [pc EXCEPT ![w] = "idle"]
        /\ log' = [log EXCEPT ![TenantOf[w]] = Visible(w)]
        /\ pending' = [pending EXCEPT ![w] = <<>>]
        /\ UNCHANGED last
    BY <1>4 DEF Commit, EndTx
  <2>2. ChainIntact'
    BY <2>1 DEF ChainIntact, VisibleIntact
  <2>3. ASSUME NEW v \in Writers, TenantOf[v] = TenantOf[w], v # w
        PROVE pending[v] = <<>> /\ pc[v] # "insert"
    BY <2>1, <2>3 DEF LockSound
  <2>4. ASSUME NEW v \in Writers, TenantOf[v] = TenantOf[w]
        PROVE Visible(v)' = Visible(w)
    BY <2>1, <2>3, <2>4, VisibleType, NothingPending DEF Visible
  <2>5. ASSUME NEW v \in Writers, TenantOf[v] # TenantOf[w]
        PROVE Visible(v)' = Visible(v)
    BY <2>1, <2>5 DEF Visible
  <2>6. VisibleIntact'
    BY <2>4, <2>5 DEF VisibleIntact
  <2>7. ReadsStayCurrent'
    BY <2>1, <2>3, <2>5 DEF ReadsStayCurrent
  <2>. QED  BY <2>2, <2>6, <2>7
<1>5. ASSUME NEW w \in Writers, Fail(w) PROVE Goal'
  <2>1. /\ pc' = [pc EXCEPT ![w] = "idle"]
        /\ pending' = [pending EXCEPT ![w] = <<>>]
        /\ UNCHANGED <<log, last>>
    BY <1>5 DEF Fail, Rollback, EndTx
  <2>2. Visible(w)' = log[TenantOf[w]]
    BY <2>1, NothingPending DEF Visible
  <2>3. \A v \in Writers \ {w} : Visible(v)' = Visible(v)
    BY <2>1 DEF Visible
  <2>4. VisibleIntact'
    <3> SUFFICES ASSUME NEW v \in Writers PROVE Intact(Visible(v), TenantOf[v])'
      BY DEF VisibleIntact
    <3>1. CASE v = w
      BY <2>2, <3>1 DEF ChainIntact
    <3>2. CASE v # w
      BY <2>3, <3>2 DEF VisibleIntact
    <3>. QED  BY <3>1, <3>2
  <2>5. ReadsStayCurrent'
    BY <2>1, <2>3 DEF ReadsStayCurrent
  <2>. QED  BY <2>1, <2>4, <2>5 DEF ChainIntact
<1>6. CASE UNCHANGED vars
  BY <1>6, SameChains DEF vars, ReadsStayCurrent
<1>. QED
  BY <1>1, <1>2, <1>3, <1>4, <1>5, <1>6 DEF Next, Step

\* The three steps together.
LEMMA Invariance == Spec => []IInv
<1>1. IInv /\ [Next]_vars => IInv'
  BY TypeStep, LockStep, ChainStep DEF IInv
<1>. QED  BY InitIInv, <1>1, PTL DEF Spec

-----------------------------------------------------------------------------
(* Transactions *)

\* BatchesWhole of the rows s.
Whole(s) ==
  \A i \in 1..Len(s) :
    /\ s[i].body[3] > 1 => i > 1 /\ s[i - 1].body = <<s[i].body[1], s[i].body[2], s[i].body[3] - 1>>
    /\ s[i].body[3] < Events[s[i].body[1]][s[i].body[2]] =>
         i < Len(s) /\ s[i + 1].body = <<s[i].body[1], s[i].body[2], s[i].body[3] + 1>>

\* BatchesWhole says of each log that it is whole.
LEMMA WholeLogs == BatchesWhole <=> \A T \in Tenants : Whole(log[T])
  BY Zenon DEF BatchesWhole, Whole

\* The rows of two sequences put after each other.
LEMMA ConcatRows ==
  ASSUME NEW s \in Seq(Row), NEW p \in Seq(Row)
  PROVE  /\ Len(s \o p) = Len(s) + Len(p) /\ Len(s) \in Nat /\ Len(p) \in Nat
         /\ \A i \in 1..Len(s) : (s \o p)[i] = s[i]
         /\ \A k \in 1..Len(p) : (s \o p)[Len(s) + k] = p[k]
  OBVIOUS

\* A transaction's events after whole ones.
LEMMA WholeAppended ==
  ASSUME NEW s \in Seq(Row), NEW p \in Seq(Row), NEW w, NEW t, Whole(s),
         \A i \in 1..Len(p) : p[i].body = <<w, t, i>>, Len(p) = Events[w][t]
  PROVE  Whole(s \o p)
<1>1. /\ Len(s \o p) = Len(s) + Len(p) /\ Len(s) \in Nat /\ Len(p) \in Nat
      /\ \A i \in 1..Len(s) : (s \o p)[i] = s[i]
      /\ \A k \in 1..Len(p) : (s \o p)[Len(s) + k] = p[k]
  BY Zenon, ConcatRows
<1> DEFINE r == s \o p
<1> HIDE DEF r
<1>2. ASSUME NEW i \in 1..Len(s)
      PROVE /\ r[i].body[3] > 1 => i > 1 /\ r[i - 1].body = <<r[i].body[1], r[i].body[2], r[i].body[3] - 1>>
            /\ r[i].body[3] < Events[r[i].body[1]][r[i].body[2]] =>
                 i < Len(r) /\ r[i + 1].body = <<r[i].body[1], r[i].body[2], r[i].body[3] + 1>>
  <2>1. r[i] = s[i] /\ Len(r) = Len(s) + Len(p)
    BY Zenon, <1>1 DEF r
  <2>2. s[i].body[3] > 1 => i > 1 /\ r[i - 1] = s[i - 1]
    <3>1. s[i].body[3] > 1 => i > 1
      BY Zenon DEF Whole
    <3>2. i > 1 => i - 1 \in 1..Len(s)
      BY <1>1
    <3>. QED  BY Zenon, <1>1, <3>1, <3>2 DEF r
  <2>3. s[i].body[3] < Events[s[i].body[1]][s[i].body[2]] => i < Len(r) /\ r[i + 1] = s[i + 1]
    <3>1. s[i].body[3] < Events[s[i].body[1]][s[i].body[2]] => i < Len(s)
      BY Zenon DEF Whole
    <3>2. i < Len(s) => i + 1 \in 1..Len(s) /\ i < Len(r)
      BY <1>1, <2>1
    <3>. QED  BY Zenon, <1>1, <3>1, <3>2 DEF r
  <2>. QED  BY Zenon, <2>1, <2>2, <2>3 DEF Whole
<1>3. ASSUME NEW k \in 1..Len(p), NEW i, i = Len(s) + k
      PROVE /\ r[i].body[3] > 1 => i > 1 /\ r[i - 1].body = <<r[i].body[1], r[i].body[2], r[i].body[3] - 1>>
            /\ r[i].body[3] < Events[r[i].body[1]][r[i].body[2]] =>
                 i < Len(r) /\ r[i + 1].body = <<r[i].body[1], r[i].body[2], r[i].body[3] + 1>>
  <2>1. r[i].body = <<w, t, k>> /\ Len(r) = Len(s) + Len(p)
    BY Zenon, <1>1, <1>3 DEF r
  <2>2. r[i].body[1] = w /\ r[i].body[2] = t /\ r[i].body[3] = k
    BY <2>1
  <2>3. k > 1 => i > 1 /\ r[i - 1].body = <<w, t, k - 1>>
    <3>1. k > 1 => k - 1 \in 1..Len(p) /\ i > 1 /\ i - 1 = Len(s) + (k - 1)
      BY <1>1, <1>3
    <3>. QED  BY Zenon, <1>1, <3>1 DEF r
  <2>4. k < Events[w][t] => i < Len(r) /\ r[i + 1].body = <<w, t, k + 1>>
    <3>1. k < Len(p) => k + 1 \in 1..Len(p) /\ i < Len(r) /\ i + 1 = Len(s) + (k + 1)
      BY <1>1, <1>3, <2>1
    <3>. QED  BY Zenon, <1>1, <3>1 DEF r
  <2>. QED  BY Zenon, <2>2, <2>3, <2>4
<1>4. \A i \in 1..Len(r) : i \in 1..Len(s) \/ \E k \in 1..Len(p) : i = Len(s) + k
  <2>. SUFFICES ASSUME NEW i \in 1..(Len(s) + Len(p)), i \notin 1..Len(s)
                PROVE  \E k \in 1..Len(p) : i = Len(s) + k
    BY Zenon, <1>1 DEF r
  <2>1. i - Len(s) \in 1..Len(p) /\ i = Len(s) + (i - Len(s))
    BY <1>1
  <2>. QED  BY Zenon, <2>1
<1>5. Whole(r)
  BY Zenon, <1>2, <1>3, <1>4 DEF Whole
<1>. QED  BY Zenon, <1>5 DEF r

\* Every statement keeps batches whole.
LEMMA BatchStep == IInv /\ BatchInv /\ [Next]_vars => BatchInv'
<1> SUFFICES ASSUME IInv, BatchInv, [Next]_vars PROVE BatchInv'
  BY Zenon
<1>0. /\ TypeOK /\ BatchesWhole
      /\ \A w \in Writers : Batch(w) /\ tx[w] \in Nat \ {0} /\ pending[w] \in Seq(Row) /\ Len(pending[w]) \in Nat
      /\ \A w \in Writers : Events[w] \in Seq(Nat \ {0})
  BY AuditConstants DEF IInv, TypeOK, BatchInv
<1>1. ASSUME NEW w \in Writers, UNCHANGED <<log, tx, pending>>, NEW step,
             pc' = [pc EXCEPT ![w] = step], Batch(w)'
      PROVE  BatchInv'
  <2>1. BatchesWhole'
    BY Zenon, <1>0, <1>1 DEF BatchesWhole
  <2>2. \A v \in Writers \ {w} : Batch(v)'
    BY <1>0, <1>1 DEF Batch, TypeOK
  <2>. QED  BY Zenon, <1>0, <1>1, <2>1, <2>2 DEF BatchInv
<1>2. ASSUME NEW w \in Writers, Begin(w) PROVE BatchInv'
  <2>1. /\ pc[w] = "idle" /\ tx[w] <= Len(Events[w]) /\ UNCHANGED <<log, tx, pending>>
        /\ pc' = [pc EXCEPT ![w] = "ensure"]
    BY Zenon, <1>2 DEF Begin
  <2>2. pending[w] = <<>> /\ pc'[w] = "ensure" /\ Len(pending[w]) = 0
    BY <1>0, <2>1 DEF IInv, LockSound, TypeOK
  <2>3. tx[w] \in 1..Len(Events[w]) /\ Events[w][tx[w]] \in Nat \ {0}
    BY <1>0, <2>1
  <2>4. Batch(w)'
    BY <2>1, <2>2, <2>3 DEF Batch
  <2>. QED  BY Zenon, <1>1, <2>1, <2>4
<1>3. ASSUME NEW w \in Writers, EnsureLockRow(w) \/ Lock(w) \/ ReadLast(w) PROVE BatchInv'
  <2>1. PICK step \in {"lock", "read", "insert"} :
          /\ pc' = [pc EXCEPT ![w] = step] /\ pc[w] \in {"ensure", "lock", "read"}
          /\ UNCHANGED <<log, tx, pending>>
    BY <1>3 DEF EnsureLockRow, Lock, ReadLast
  <2>2. pc'[w] = step
    BY <1>0, <2>1 DEF TypeOK
  <2>3. Batch(w)'
    BY <1>0, <2>1, <2>2 DEF Batch
  <2>. QED  BY Zenon, <1>1, <2>1, <2>3
<1>4. ASSUME NEW w \in Writers, Insert(w) PROVE BatchInv'
  <2>1. /\ pc[w] = "insert"
        /\ pending' = [pending EXCEPT ![w] = Append(pending[w], NextRow(w))]
        /\ pc' = [pc EXCEPT ![w] = IF Len(pending[w]) + 1 < Events[w][tx[w]] THEN "ensure" ELSE "commit"]
        /\ UNCHANGED <<log, tx>>
    BY Zenon, <1>4, InsertAppends
  <2>2. NextRow(w) \in Row /\ NextRow(w).body = <<w, tx[w], Len(pending[w]) + 1>>
    <3>1. NextRow(w).body = <<w, tx[w], Len(pending[w]) + 1>>
      BY DEF NextRow
    <3>. QED  BY Zenon, <1>0, <3>1, NextRowType
  <2>3. /\ pending'[w] = Append(pending[w], NextRow(w))
        /\ pc'[w] = IF Len(pending[w]) + 1 < Events[w][tx[w]] THEN "ensure" ELSE "commit"
        /\ \A v \in Writers \ {w} : pending'[v] = pending[v] /\ pc'[v] = pc[v]
    BY <1>0, <2>1 DEF TypeOK
  <2>4. /\ Len(pending'[w]) = Len(pending[w]) + 1
        /\ pending'[w][Len(pending[w]) + 1] = NextRow(w)
        /\ \A i \in 1..Len(pending[w]) : pending'[w][i] = pending[w][i]
    <3>. HIDE DEF NextRow
    <3>. QED  BY <1>0, <2>2, <2>3
  <2>5. /\ \A i \in 1..Len(pending[w]) : pending[w][i].body = <<w, tx[w], i>>
        /\ tx[w] \in 1..Len(Events[w]) /\ Len(pending[w]) < Events[w][tx[w]]
    BY <1>0, <2>1 DEF Batch
  <2>6. \A i \in 1..Len(pending'[w]) : pending'[w][i].body = <<w, tx[w], i>>
    <3>1. \A i \in 1..Len(pending'[w]) : i \in 1..Len(pending[w]) \/ i = Len(pending[w]) + 1
      BY <1>0, <2>4
    <3>. QED  BY Zenon, <2>2, <2>4, <2>5, <3>1
  <2>7. Events[w][tx[w]] \in Nat
    BY <1>0, <2>5
  <2>8. pc'[w] \in {"ensure", "commit"}
        /\ (pc'[w] = "ensure" => Len(pending'[w]) < Events[w][tx[w]])
        /\ (pc'[w] = "commit" => Len(pending'[w]) = Events[w][tx[w]])
    BY <1>0, <2>3, <2>4, <2>5, <2>7
  <2>9. Batch(w)'
    BY <2>1, <2>5, <2>6, <2>8 DEF Batch
  <2>10. ASSUME NEW v \in Writers \ {w} PROVE Batch(v)'
    <3>1. Batch(v) /\ pending'[v] = pending[v] /\ pc'[v] = pc[v]
      BY Zenon, <1>0, <2>3
    <3>. QED  BY Zenon, <2>1, <3>1 DEF Batch
  <2>11. BatchesWhole'
    BY Zenon, <1>0, <2>1 DEF BatchesWhole
  <2>. QED  BY Zenon, <1>0, <2>1, <2>9, <2>10, <2>11 DEF BatchInv
<1>5. ASSUME NEW w \in Writers, EndTx(w), BatchesWhole' PROVE BatchInv'
  <2>1. /\ pending' = [pending EXCEPT ![w] = <<>>] /\ tx' = [tx EXCEPT ![w] = tx[w] + 1]
        /\ pc' = [pc EXCEPT ![w] = "idle"]
    BY Zenon, <1>5 DEF EndTx
  <2>2. /\ pending'[w] = <<>> /\ tx'[w] = tx[w] + 1 /\ pc'[w] = "idle"
        /\ \A v \in Writers \ {w} : pending'[v] = pending[v] /\ pc'[v] = pc[v] /\ tx'[v] = tx[v]
    BY <1>0, <2>1 DEF TypeOK
  <2>3. Batch(w)' /\ tx'[w] # 0
    BY <1>0, <2>2 DEF Batch
  <2>4. ASSUME NEW v \in Writers \ {w} PROVE Batch(v)' /\ tx'[v] # 0
    <3>1. Batch(v) /\ tx[v] # 0 /\ pending'[v] = pending[v] /\ pc'[v] = pc[v] /\ tx'[v] = tx[v]
      BY Zenon, <2>2 DEF BatchInv
    <3>. QED  BY Zenon, <3>1 DEF Batch
  <2>. QED  BY Zenon, <1>5, <2>3, <2>4 DEF BatchInv
<1>6. ASSUME NEW w \in Writers, Commit(w) PROVE BatchInv'
  <2>1. pc[w] = "commit" /\ EndTx(w) /\ log' = [log EXCEPT ![TenantOf[w]] = Visible(w)]
    BY Zenon, <1>6 DEF Commit
  <2>2. TenantOf[w] \in Tenants /\ log[TenantOf[w]] \in Seq(Row)
    BY <1>0, AuditConstants DEF TypeOK
  <2>3. Whole(log[TenantOf[w]] \o pending[w])
    <3>1. Len(pending[w]) = Events[w][tx[w]] /\ \A i \in 1..Len(pending[w]) : pending[w][i].body = <<w, tx[w], i>>
      BY Zenon, <1>0, <2>1 DEF Batch
    <3>2. Whole(log[TenantOf[w]])
      BY Zenon, <1>0, <2>2, WholeLogs
    <3>. QED  BY Zenon, <1>0, <2>2, <3>1, <3>2, WholeAppended
  <2>4. \A T \in Tenants : log'[T] = IF T = TenantOf[w] THEN log[TenantOf[w]] \o pending[w] ELSE log[T]
    BY <1>0, <2>1 DEF TypeOK, Visible
  <2>5. \A T \in Tenants : Whole(log'[T])
    BY Zenon, <1>0, <2>3, <2>4, WholeLogs
  <2>6. BatchesWhole'
    BY Zenon, <2>5 DEF BatchesWhole, Whole
  <2>. QED  BY Zenon, <1>5, <2>1, <2>6
<1>7. ASSUME NEW w \in Writers, Fail(w) PROVE BatchInv'
  <2>1. EndTx(w) /\ log' = log
    BY Zenon, <1>7 DEF Fail, Rollback
  <2>2. BatchesWhole'
    BY Zenon, <1>0, <2>1 DEF BatchesWhole
  <2>. QED  BY Zenon, <1>5, <2>1, <2>2
<1>8. CASE UNCHANGED vars
  <2>1. UNCHANGED <<log, tx, pending, pc>>
    BY Zenon, <1>8 DEF vars
  <2>2. BatchesWhole' /\ \A w \in Writers : Batch(w)'
    BY Zenon, <1>0, <2>1 DEF BatchesWhole, Batch
  <2>. QED  BY Zenon, <1>0, <2>1, <2>2 DEF BatchInv
<1>. QED
  BY Zenon, <1>2, <1>3, <1>4, <1>6, <1>7, <1>8 DEF Next, Step

\* The empty log has no batch to be whole.
LEMMA BatchInit == Init => BatchInv
<1> SUFFICES ASSUME Init PROVE BatchInv
  OBVIOUS
<1>1. BatchesWhole
  BY DEF Init, BatchesWhole
<1>2. ASSUME NEW w \in Writers PROVE tx[w] # 0 /\ Batch(w)
  BY DEF Init, Batch
<1>. QED  BY Zenon, <1>1, <1>2 DEF BatchInv

\* Both steps together.
LEMMA BatchInvariance == Spec => []BatchInv
  BY BatchInit, BatchStep, Invariance, PTL DEF Spec

-----------------------------------------------------------------------------
(* Verification *)

\* The fact about one state behind WhatIsWrittenVerifies.
LEMMA WrittenVerify == TypeOK /\ ChainIntact => WrittenChainsVerify
<1> SUFFICES ASSUME TypeOK, ChainIntact, NEW T \in Tenants, NEW n \in 0..Len(log[T])
    PROVE VerifyChain(Table(T), T, 1, n)
  BY DEF WrittenChainsVerify
<1> DEFINE s == log[T]
           rows == {r \in Table(T) : 1 <= r.seq /\ r.seq <= n}
<1>1. s \in Seq(Row) /\ Intact(s, T) /\ Len(s) \in Nat
  BY DEF TypeOK, ChainIntact
<1>2. \A r \in rows : r.seq \in 1..n /\ r.seq \in 1..Len(s) /\ r = s[r.seq]
  BY <1>1 DEF Table, Intact
<1>3. \A i \in 1..n : s[i] \in rows /\ s[i].seq = i
  BY <1>1 DEF Table, Intact
<1>4. ASSUME NEW r \in rows PROVE LinksTo(rows, r)
  <2>1. r.seq \in 1..n /\ r = s[r.seq]
    BY <1>2
  <2>2. (\A q \in rows : r.seq <= q.seq) => r.prev = Genesis
    <3> SUFFICES ASSUME \A q \in rows : r.seq <= q.seq PROVE r.seq = 1
      BY <1>1, <1>2 DEF Intact
    <3>. QED  BY <1>3, <2>1
  <2>3. ASSUME NEW q \in rows, q.seq < r.seq,
               \A p \in rows : ~(q.seq < p.seq /\ p.seq < r.seq)
        PROVE r.prev = q.hash
    <3>1. q.seq \in 1..n /\ q = s[q.seq]
      BY <1>2
    <3>2. q.seq = r.seq - 1
      <4> DEFINE i == r.seq - 1
      <4>1. r.seq \in Int /\ q.seq \in Int /\ 1 <= q.seq /\ q.seq < r.seq /\ r.seq <= n
        BY <2>1, <2>3, <3>1
      <4>2. i \in 1..n
        BY <4>1
      <4>3. s[i] \in rows /\ s[i].seq = i
        BY <1>3, <4>2
      <4>4. ~(q.seq < i /\ i < r.seq)
        BY <2>3, <4>3
      <4>. QED  BY <4>1, <4>4
    <3>. QED  BY <1>1, <1>2, <3>1, <3>2 DEF Intact
  <2>. QED  BY <2>2, <2>3 DEF LinksTo
<1>5. \A r \in rows : r.hash = ChainHash(r.prev, r.seq, T, r.body)
  BY <1>1, <1>2 DEF Intact
<1>. QED  BY <1>4, <1>5 DEF VerifyChain, VerifyChainInput

\* Different inputs have different hashes.
LEMMA ChainHashInjective ==
  ASSUME NEW p \in Hashes, NEW q \in Hashes, NEW i, NEW T, NEW a, NEW b,
         ChainHash(p, i, T, a) = ChainHash(q, i, T, b)
  PROVE p = q /\ a = b
<1> DEFINE x == <<i, T, a>>  y == <<i, T, b>>
<1>1. p \in Seq(Nat \X Tenants \X Bodies) /\ q \in Seq(Nat \X Tenants \X Bodies)
  BY DEF Hashes
<1>2. Append(p, x) = Append(q, y)
  BY DEF ChainHash
<1>. HIDE DEF x, y
<1>3. Len(p) = Len(q) /\ x = y
  <2>1. /\ Len(Append(p, x)) = Len(p) + 1 /\ Len(Append(q, y)) = Len(q) + 1
        /\ Len(p) \in Nat /\ Len(q) \in Nat
    BY <1>1
  <2>2. Append(p, x)[Len(p) + 1] = x /\ Append(q, y)[Len(q) + 1] = y
    BY <1>1
  <2>. QED  BY <1>2, <2>1, <2>2
<1>4. ASSUME NEW k \in 1..Len(p) PROVE p[k] = q[k]
  <2>1. Append(p, x)[k] = p[k]
    BY <1>1
  <2>2. k \in 1..Len(q)
    BY <1>3
  <2>3. Append(q, y)[k] = q[k]
    BY <1>1, <2>2
  <2>. QED  BY <1>2, <2>1, <2>3
<1>5. p = q
  BY <1>1, <1>3, <1>4, SeqEqual
<1>. QED  BY <1>3, <1>5 DEF x, y

\* The fact about one state behind CorruptionShows.
LEMMA CorruptionIsDetected == TypeOK /\ ChainIntact => CorruptionDetected
<1> SUFFICES ASSUME TypeOK, ChainIntact, NEW T \in Tenants, NEW r \in Table(T)
    PROVE LET others == Table(T) \ {r}
              Detected(table) == ~VerifyChain(table, T, 1, Len(log[T]))
          IN /\ \A q \in Table(T) :
                  /\ q.body # r.body => Detected(others \cup {[r EXCEPT !.body = q.body]})
                  /\ q.hash # r.hash => Detected(others \cup {[r EXCEPT !.hash = q.hash]})
                  /\ q.prev # r.prev => Detected(others \cup {[r EXCEPT !.prev = q.prev]})
             /\ r.seq < Len(log[T]) => Detected(others)
  BY DEF CorruptionDetected
<1> DEFINE s == log[T]
           others == Table(T) \ {r}
           Detected(table) == ~VerifyChain(table, T, 1, Len(log[T]))
<1>1. s \in Seq(Row) /\ Intact(s, T) /\ Len(s) \in Nat
  BY DEF TypeOK, ChainIntact
<1>2. \A q \in Table(T) : q \in Row /\ q.seq \in 1..Len(s) /\ q = s[q.seq]
  BY <1>1 DEF Table, Intact
<1>3. r.hash = ChainHash(r.prev, r.seq, T, r.body)
  BY <1>1, <1>2 DEF Intact
\* A changed row no longer agrees with its own hash.
<1>4. ASSUME NEW z \in Row, z.seq = r.seq, z.hash # ChainHash(z.prev, z.seq, T, z.body)
      PROVE Detected(others \cup {z})
  <2> DEFINE rows == {x \in others \cup {z} : 1 <= x.seq /\ x.seq <= Len(s)}
  <2>1. z \in rows
    BY <1>1, <1>2, <1>4
  <2>2. VerifyChain(others \cup {z}, T, 1, Len(s)) =>
          \A x \in rows : x.hash = ChainHash(x.prev, x.seq, T, x.body)
    BY DEF VerifyChain, VerifyChainInput
  <2>. QED  BY <1>4, <2>1, <2>2
<1>5. ASSUME NEW q \in Table(T), q.body # r.body
      PROVE Detected(others \cup {[r EXCEPT !.body = q.body]})
  <2> DEFINE z == [r EXCEPT !.body = q.body]
  <2>1. z \in Row /\ z.seq = r.seq /\ z.prev = r.prev /\ z.hash = r.hash /\ z.body = q.body
    BY <1>2 DEF Row
  <2>2. r.prev \in Hashes
    BY <1>2 DEF Row
  <2>. HIDE DEF z
  <2>3. z.hash # ChainHash(z.prev, z.seq, T, z.body)
    BY <1>3, <1>5, <2>1, <2>2, ChainHashInjective
  <2>4. Detected(others \cup {z})
    BY <1>4, <2>1, <2>3
  <2>. QED  BY <2>4 DEF z
<1>6. ASSUME NEW q \in Table(T), q.hash # r.hash
      PROVE Detected(others \cup {[r EXCEPT !.hash = q.hash]})
  <2> DEFINE z == [r EXCEPT !.hash = q.hash]
  <2>1. z \in Row /\ z.seq = r.seq /\ z.prev = r.prev /\ z.hash = q.hash /\ z.body = r.body
    BY <1>2 DEF Row
  <2>. HIDE DEF z
  <2>2. Detected(others \cup {z})
    BY <1>3, <1>4, <1>6, <2>1
  <2>. QED  BY <2>2 DEF z
<1>7. ASSUME NEW q \in Table(T), q.prev # r.prev
      PROVE Detected(others \cup {[r EXCEPT !.prev = q.prev]})
  <2> DEFINE z == [r EXCEPT !.prev = q.prev]
  <2>1. z \in Row /\ z.seq = r.seq /\ z.prev = q.prev /\ z.hash = r.hash /\ z.body = r.body
    BY <1>2 DEF Row
  <2>2. r.prev \in Hashes /\ q.prev \in Hashes
    BY <1>2 DEF Row
  <2>. HIDE DEF z
  <2>3. z.hash # ChainHash(z.prev, z.seq, T, z.body)
    BY <1>3, <1>7, <2>1, <2>2, ChainHashInjective
  <2>4. Detected(others \cup {z})
    BY <1>4, <2>1, <2>3
  <2>. QED  BY <2>4 DEF z
\* The row after a missing one is linked to a hash that is not there.
<1>8. ASSUME r.seq < Len(s) PROVE Detected(others)
  <2> DEFINE k == r.seq
             rows == {x \in others : 1 <= x.seq /\ x.seq <= Len(s)}
  <2>1. k \in 1..Len(s) /\ k + 1 \in 1..Len(s) /\ r = s[k]
    BY <1>1, <1>2, <1>8
  <2>2. \A i \in 1..Len(s) : i # k => s[i] \in rows /\ s[i].seq = i
    BY <1>1, <2>1 DEF Table, Intact
  <2>3. \A x \in rows : x.seq \in 1..Len(s) /\ x.seq # k
    BY <1>2, <2>1
  <2>4. /\ s[k + 1] \in rows /\ s[k + 1].seq = k + 1
        /\ s[k + 1].prev = r.hash
    BY <1>1, <2>1, <2>2 DEF Intact
  <2>5. r.hash # r.prev /\ r.hash # Genesis
    BY <1>2, <1>3, ChainHashType DEF Row
  <2>. SUFFICES ~LinksTo(rows, s[k + 1])
    BY <2>4 DEF VerifyChain, VerifyChainInput
  <2>6. CASE k = 1
    BY <2>3, <2>4, <2>5, <2>6 DEF LinksTo
  <2>7. CASE k # 1
    <3>1. k - 1 \in 1..Len(s) /\ s[k - 1] \in rows /\ s[k - 1].seq = k - 1
      BY <2>1, <2>2, <2>7
    <3>2. r.prev = s[k - 1].hash
      BY <1>1, <2>1, <2>7 DEF Intact
    <3>3. \A p \in rows : ~(k - 1 < p.seq /\ p.seq < k + 1)
      BY <2>1, <2>3
    <3>. QED  BY <2>1, <2>4, <2>5, <3>1, <3>2, <3>3 DEF LinksTo
  <2>. QED  BY <2>6, <2>7
<1>. QED  BY <1>5, <1>6, <1>7, <1>8

\* The variables keep their types in every behaviour of the writers.
THEOREM TypeCorrect == Spec => []TypeOK
  BY Invariance, PTL DEF IInv

\* What AppendWithTx commits is a gapless hash chain per tenant.
THEOREM ChainsStayIntact == Spec => []ChainIntact
  BY Invariance, PTL DEF IInv

\* Under the lock on audit_chain_locks no append is refused by the checks of the
\* inserted row.
THEOREM AppendsDoNotCollide == Spec => []ReadsStayCurrent
  BY Invariance, PTL DEF IInv

\* The events of a transaction (one, or those of the boot seed) are in the log all
\* together and in their order, or not at all, whatever fails between two of them.
THEOREM BatchesStayWhole == Spec => []BatchesWhole
  BY BatchInvariance, PTL DEF BatchInv

\* VerifyChain from 1 accepts every beginning of every written chain.
THEOREM WhatIsWrittenVerifies == Spec => []WrittenChainsVerify
  BY Invariance, WrittenVerify, PTL DEF IInv

\* VerifyChain rejects a written chain with one changed or one missing row.
THEOREM CorruptionShows == Spec => []CorruptionDetected
  BY Invariance, CorruptionIsDetected, PTL DEF IInv
-----------------------------------------------------------------------------
(* Waiting *)

\* The statement that w is about to run waits for v's transaction to end.
WaitsFor(w, v) ==
  /\ v # w
  /\ \/ pc[w] = "ensure" /\ lockRow[TenantOf[w]] = v
     \/ pc[w] = "lock" /\ locked[TenantOf[w]] = v
     \/ /\ pc[w] = "insert" /\ TenantOf[v] = TenantOf[w]
        /\ \E i \in 1..Len(pending[v]) : pending[v][i].seq = LastOf(Visible(w)).seq + 1

\* An append that waits for a transaction waits for one that is open and does not
\* wait itself, so AppendWithTx never deadlocks, however many appends of however
\* many tenants and batches meet on audit_chain_locks.
NoWaitingInLine ==
  \A w, v \in Writers :
    WaitsFor(w, v) => pc[v] # "idle" /\ \A u \in Writers : ~WaitsFor(v, u)

\* The statements of an append in the order of AppendWithTx, and the commit.
StatementOrder ==
  [s \in Steps \ {"idle"} |-> CASE s = "ensure" -> 1 [] s = "lock" -> 2 [] s = "read" -> 3
                                [] s = "insert" -> 4 [] s = "commit" -> 5]

\* The transaction of w ends, inserts one of the events it still has to insert, or
\* comes to a later statement of its append.
Advances(w) ==
  \/ pc'[w] = "idle"
  \/ /\ pc[w] = "insert" /\ tx'[w] = tx[w]
     /\ Len(pending'[w]) = Len(pending[w]) + 1 /\ Len(pending'[w]) <= Events[w][tx[w]]
  \/ /\ pc'[w] # "idle" /\ tx'[w] = tx[w] /\ pending'[w] = pending[w]
     /\ StatementOrder[pc[w]] < StatementOrder[pc'[w]]

\* A transaction under way stays as it is or advances: it takes as many steps as
\* its batch needs and no more.
TransactionsAdvance ==
  [][\A w \in Writers :
       pc[w] # "idle" => UNCHANGED <<pc[w], tx[w], pending[w]>> \/ Advances(w)]_vars

\* Whoever is past the insertion of the lock row finds it its own or committed, and
\* what a transaction has of the locks is of its own tenant and of a time in which
\* it is open.
LockOrder ==
  \A w \in Writers :
    /\ pc[w] = "lock" \/ locked[TenantOf[w]] = w => lockRow[TenantOf[w]] \in {w, "committed"}
    /\ \A T \in Tenants : locked[T] = w \/ lockRow[T] = w => T = TenantOf[w] /\ pc[w] # "idle"

\* At first nobody has a lock or a lock row.
LEMMA LockOrderInit == Init => LockOrder
BY AuditConstants DEF Init, LockOrder

\* Locks and lock rows change hands only through "nobody" and "committed".
LEMMA LockOrderStep == IInv /\ LockOrder /\ [Next]_vars => LockOrder'
<1> SUFFICES ASSUME IInv, LockOrder, [Next]_vars PROVE LockOrder'
  OBVIOUS
<1> USE AuditConstants DEF LockOrder
<1>0. TypeOK
  BY DEF IInv
<1>1. ASSUME NEW w \in Writers, Begin(w) PROVE LockOrder'
  BY <1>0, <1>1 DEF Begin, TypeOK
<1>2. ASSUME NEW w \in Writers, EnsureLockRow(w) PROVE LockOrder'
  BY <1>0, <1>2 DEF EnsureLockRow, TypeOK
<1>3. ASSUME NEW w \in Writers, Lock(w) PROVE LockOrder'
  BY <1>0, <1>3 DEF Lock, TypeOK
<1>4. ASSUME NEW w \in Writers, ReadLast(w) PROVE LockOrder'
  BY <1>0, <1>4 DEF ReadLast, TypeOK
<1>5. ASSUME NEW w \in Writers, Insert(w) PROVE LockOrder'
  <2>1. PICK step \in {"ensure", "commit"} :
          pc[w] = "insert" /\ pc' = [pc EXCEPT ![w] = step] /\ UNCHANGED <<lockRow, locked>>
    BY <1>5, InsertAppends
  <2>. QED  BY <1>0, <2>1 DEF TypeOK
<1>6. ASSUME NEW w \in Writers, Commit(w) PROVE LockOrder'
  BY <1>0, <1>6 DEF Commit, EndTx, TypeOK
<1>7. ASSUME NEW w \in Writers, Fail(w) PROVE LockOrder'
  BY <1>0, <1>7 DEF Fail, Rollback, EndTx, TypeOK
<1>8. CASE UNCHANGED vars
  BY <1>8 DEF vars
<1>. QED
  BY Zenon, <1>1, <1>2, <1>3, <1>4, <1>5, <1>6, <1>7, <1>8 DEF Next, Step

\* An insertion never waits: the transaction that could make it wait would hold the
\* lock as well.
LEMMA InsertDoesNotWait ==
  ASSUME LockSound, NEW w \in Writers, NEW v \in Writers, pc[w] = "insert",
         TenantOf[v] = TenantOf[w], v # w, NEW i \in 1..Len(pending[v])
  PROVE  FALSE
<1>1. pending[v] # <<>>
  OBVIOUS
<1>. QED  BY Zenon, <1>1 DEF LockSound

\* The holder of the lock and the transaction that has inserted the lock row have
\* nobody to wait for.
LEMMA WaitingIsShort == LockSound /\ LockOrder => NoWaitingInLine
<1> SUFFICES ASSUME LockSound, LockOrder, NEW w \in Writers, NEW v \in Writers, WaitsFor(w, v)
             PROVE  pc[v] # "idle" /\ \A u \in Writers : ~WaitsFor(v, u)
  BY Zenon DEF NoWaitingInLine
<1> DEFINE T == TenantOf[w]
<1>1. T \in Tenants
  BY AuditConstants
<1>2. v # w /\ ((pc[w] = "ensure" /\ lockRow[T] = v) \/ (pc[w] = "lock" /\ locked[T] = v))
  BY Zenon, InsertDoesNotWait DEF WaitsFor
<1>3. TenantOf[v] = T /\ pc[v] # "idle"
  BY Zenon, <1>1, <1>2 DEF LockOrder
<1> HIDE DEF T
<1>4. ASSUME NEW u \in Writers, WaitsFor(v, u) PROVE FALSE
  <2>1. u # v /\ ((pc[v] = "ensure" /\ lockRow[T] = u) \/ (pc[v] = "lock" /\ locked[T] = u))
    BY Zenon, <1>3, <1>4, InsertDoesNotWait DEF WaitsFor
  <2>2. u # "committed" /\ v # "committed"
    BY AuditConstants
  <2>3. TenantOf[u] = T
    BY Zenon, <1>1, <2>1 DEF LockOrder
  <2>4. locked[T] = v => lockRow[T] = v \/ lockRow[T] = "committed"
    BY Zenon, <1>3 DEF LockOrder
  <2>5. locked[T] = u => lockRow[T] = u \/ lockRow[T] = "committed"
    BY Zenon, <2>3 DEF LockOrder
  <2>6. CASE lockRow[T] = v
    BY Zenon, <2>1, <2>2, <2>5, <2>6
  <2>7. CASE locked[T] = v
    BY Zenon, <2>1, <2>2, <2>4, <2>7
  <2>. QED  BY Zenon, <1>2, <2>6, <2>7
<1>. QED  BY Zenon, <1>3, <1>4

\* The statements of an append come in their order.
LEMMA StatementsInOrder ==
  /\ StatementOrder["ensure"] < StatementOrder["lock"]
  /\ StatementOrder["lock"] < StatementOrder["read"]
  /\ StatementOrder["read"] < StatementOrder["insert"]
BY DEF StatementOrder, Steps

\* Each step of a transaction brings it further and leaves the others where they are.
LEMMA AdvanceStep ==
  ASSUME IInv, BatchInv, Next
  PROVE  \A w \in Writers :
           pc[w] # "idle" => UNCHANGED <<pc[w], tx[w], pending[w]>> \/ Advances(w)
<1>0. TypeOK
  BY DEF IInv
<1> DEFINE Others(w) == \A v \in Writers : v # w => UNCHANGED <<pc[v], tx[v], pending[v]>>
<1>1. ASSUME NEW w \in Writers, Begin(w) PROVE pc[w] = "idle" /\ Others(w)
  BY <1>0, <1>1 DEF Begin, TypeOK
<1>2. ASSUME NEW w \in Writers, EnsureLockRow(w) \/ Lock(w) \/ ReadLast(w)
      PROVE  Advances(w) /\ Others(w)
  <2>1. /\ UNCHANGED <<tx, pending>>
        /\ \/ pc[w] = "ensure" /\ pc' = [pc EXCEPT ![w] = "lock"]
           \/ pc[w] = "lock" /\ pc' = [pc EXCEPT ![w] = "read"]
           \/ pc[w] = "read" /\ pc' = [pc EXCEPT ![w] = "insert"]
    BY Zenon, <1>2 DEF EnsureLockRow, Lock, ReadLast
  <2>2. Others(w)
    BY <1>0, <2>1 DEF TypeOK
  <2>3. \/ pc[w] = "ensure" /\ pc'[w] = "lock"
        \/ pc[w] = "lock" /\ pc'[w] = "read"
        \/ pc[w] = "read" /\ pc'[w] = "insert"
    BY <1>0, <2>1 DEF TypeOK
  <2>4. pc'[w] # "idle" /\ StatementOrder[pc[w]] < StatementOrder[pc'[w]]
    BY Zenon, <2>3, StatementsInOrder
  <2>. QED  BY Zenon, <2>1, <2>2, <2>4 DEF Advances
<1>3. ASSUME NEW w \in Writers, Insert(w) PROVE Advances(w) /\ Others(w)
  <2>1. /\ pc[w] = "insert" /\ tx' = tx
        /\ pending' = [pending EXCEPT ![w] = Append(pending[w], NextRow(w))]
        /\ pc' = [pc EXCEPT ![w] = IF Len(pending[w]) + 1 < Events[w][tx[w]] THEN "ensure" ELSE "commit"]
    BY Zenon, <1>3, InsertAppends
  <2>2. Others(w)
    BY <1>0, <2>1 DEF TypeOK
  <2>3. pending'[w] = Append(pending[w], NextRow(w)) /\ pending[w] \in Seq(Row)
    BY <1>0, <2>1 DEF TypeOK
  <2>4. Batch(w)
    BY Zenon DEF BatchInv
  <2>5. /\ Len(pending[w]) < Events[w][tx[w]] /\ Events[w][tx[w]] \in Nat
    BY <2>1, <2>4, AuditConstants DEF Batch
  <2>6. Len(pending'[w]) = Len(pending[w]) + 1
    <3>1. NextRow(w) \in Row
      BY Zenon, <1>0, <2>1, <1>3, InsertAppends, NextRowType DEF IInv
    <3>. QED  BY <2>3, <3>1
  <2>7. Len(pending'[w]) <= Events[w][tx[w]]
    BY <2>3, <2>5, <2>6
  <2>. QED  BY Zenon, <2>1, <2>2, <2>6, <2>7 DEF Advances
<1>4. ASSUME NEW w \in Writers, Commit(w) \/ Fail(w) PROVE Advances(w) /\ Others(w)
  <2>1. /\ pc' = [pc EXCEPT ![w] = "idle"] /\ tx' = [tx EXCEPT ![w] = tx[w] + 1]
        /\ pending' = [pending EXCEPT ![w] = <<>>]
    BY Zenon, <1>4 DEF Commit, Fail, Rollback, EndTx
  <2>. QED  BY <1>0, <2>1 DEF TypeOK, Advances
<1>5. PICK w \in Writers : Begin(w) \/ Step(w) \/ Fail(w)
  BY Zenon DEF Next
<1>6. Others(w) /\ (pc[w] = "idle" \/ Advances(w))
  BY Zenon, <1>1, <1>2, <1>3, <1>4, <1>5 DEF Step
<1>. QED  BY Zenon, <1>6

\* For any writers, tenants and batches: appends never wait in a line or a circle.
THEOREM AppendsDoNotDeadlock == Spec => []NoWaitingInLine
<1>1. IInv /\ LockOrder => NoWaitingInLine
  BY Zenon, WaitingIsShort DEF IInv
<1>. QED  BY <1>1, LockOrderInit, LockOrderStep, Invariance, PTL DEF Spec

\* For any batches and failures: the transaction around AppendWithTx never repeats
\* a statement for the same event, and ends.
THEOREM TransactionsProgress == Spec => TransactionsAdvance
<1> DEFINE A == \A w \in Writers :
                  pc[w] # "idle" => UNCHANGED <<pc[w], tx[w], pending[w]>> \/ Advances(w)
<1>1. IInv /\ BatchInv /\ [Next]_vars => [A]_vars
  BY Zenon, AdvanceStep
<1> HIDE DEF A
<1>2. Spec => [][A]_vars
  BY <1>1, Invariance, BatchInvariance, PTL DEF Spec
<1>. QED  BY <1>2 DEF A, TransactionsAdvance
=============================================================================
