----------------------------- MODULE StoreProofs -----------------------------
(***************************************************************************)
(* Proofs about what PostgreSQL keeps between two calls: the rows of        *)
(* refresh_tokens (RefreshTokens), for any sets of requests, rows, families *)
(* and users, and the tenant setting and the ownership of pooled            *)
(* connections (TenantPool), for any finite pool and any finite set of      *)
(* workers.                                                                 *)
(***************************************************************************)
EXTENDS RefreshTokens, TenantPool, FiniteSetTheorems, TLAPS

-----------------------------------------------------------------------------
(* RefreshTokens *)

\* Rows that carry a flag, a successor or a request's attention have been
\* inserted, and every row is of a family that Login has opened.
RowsSound ==
  /\ \A t \in Tokens : family[t] # None => owner[family[t]] # None
  /\ \A t \in revoked : family[t] # None
  /\ \A t \in Tokens : rotatedFrom[t] # None => family[t] # None
  /\ \A t \in Tokens : rotatedFrom[t] # None => family[rotatedFrom[t]] # None

\* What a request between two of its statements knows.
RequestsSound ==
  /\ \A r \in Requests :
       pc[r] \in {"user", "rotate", "revokeFamily", "revoke"} =>
         token[r] \in Tokens /\ family[token[r]] # None
  /\ \A r \in Requests : pc[r] = "store" => user[r] \in Users
  /\ \A r \in Requests : pc[r] # "done" => answer[r] = "none"
  /\ \A r \in foundRevoked :
       /\ kind[r] = "refresh"
       /\ token[r] \in Tokens /\ family[token[r]] # None
       /\ pc[r] \in {"revokeFamily", "done"}

\* No refresh is between check and rotation on a quiet family, and families are
\* revoked only once they exist.
QuietSound ==
  /\ UnderWay(quiet) = {}
  /\ \A f \in killed : owner[f] # None

\* The inductive invariant of the sessions.
IInv ==
  /\ TypeOK /\ RowsSound /\ RequestsSound /\ QuietSound
  /\ Lineage /\ ReuseDetected /\ QuietFamiliesStayDead /\ NoSessionLost

USE DEF Goto, Reply, ReplyOrLost, rows, request, history

\* The empty table has every part of the invariant.
LEMMA InitIInv == Init => IInv
  BY SessionConstants
  DEF Init, IInv, TypeOK, RowsSound, RequestsSound, QuietSound, Lineage, ReuseDetected,
      QuietFamiliesStayDead, NoSessionLost, UnderWay, RowsOf, Steps, Kinds, Answers

\* The steps of a request, of users and of time, one assumption per action.
LEMMA TypeStep == TypeOK /\ RowsSound /\ RequestsSound /\ [Next]_vars => TypeOK'
<1> SUFFICES ASSUME TypeOK, RowsSound, RequestsSound, [Next]_vars PROVE TypeOK'
  BY Zenon
<1> USE SessionConstants DEF TypeOK, Steps, Kinds, Answers
<1>1. ASSUME NEW r \in Requests, Login(r) PROVE TypeOK'
  BY <1>1 DEF Login
<1>2. ASSUME NEW r \in Requests, Store(r) PROVE TypeOK'
  BY <1>2 DEF Store
<1>3. ASSUME NEW r \in Requests, FindForRefresh(r) PROVE TypeOK'
  <2>1. \A t \in Tokens : CheckToken(t) \in {"invalid", "revokeFamily", "expired", "user"}
    BY Zenon DEF CheckToken, FindByTokenHash
  <2>. QED  BY <1>3, <2>1 DEF FindForRefresh
<1>4. ASSUME NEW r \in Requests, FindForLogout(r) PROVE TypeOK'
  BY <1>4 DEF FindForLogout, FindByTokenHash
<1>5. ASSUME NEW r \in Requests, ReadUser(r) PROVE TypeOK'
  BY Zenon, <1>5 DEF ReadUser
<1>6. ASSUME NEW r \in Requests, Rotate(r) PROVE TypeOK'
  BY <1>6 DEF Rotate, Insert, RequestsSound
<1>7. ASSUME NEW r \in Requests, RevokeFamily(r) PROVE TypeOK'
  BY <1>7 DEF RevokeFamily, Kill, RowsOf, RequestsSound
<1>8. ASSUME NEW r \in Requests, Revoke(r) PROVE TypeOK'
  BY Zenon, <1>8 DEF Revoke, RequestsSound
<1>9. ASSUME NEW r \in Requests, Fails(r) PROVE TypeOK'
  BY Zenon, <1>9 DEF Fails
<1>10. ASSUME NEW u \in Users, RevokeAllSessions(u) PROVE TypeOK'
  BY Zenon, <1>10 DEF RevokeAllSessions, Kill, RowsOf
<1>11. ASSUME NEW u \in Users, UpdateUser(u) PROVE TypeOK'
  BY Zenon, <1>11 DEF UpdateUser
<1>12. ASSUME NEW t \in Tokens, TimePasses(t) PROVE TypeOK'
  BY Zenon, <1>12 DEF TimePasses
<1>13. CASE UNCHANGED vars
  BY Zenon, <1>13 DEF vars
<1>. QED
  BY Zenon, <1>1, <1>2, <1>3, <1>4, <1>5, <1>6, <1>7, <1>8, <1>9, <1>10, <1>11, <1>12, <1>13
  DEF Next, RequestStep

\* Rows keep their family and their predecessor; what is revoked stays revoked.
LEMMA RowsStep == IInv /\ TypeOK' /\ [Next]_vars => (RowsSound /\ Lineage)'
<1> SUFFICES ASSUME IInv, TypeOK', [Next]_vars PROVE (RowsSound /\ Lineage)'
  BY Zenon
<1> USE SessionConstants DEF IInv, TypeOK, RowsSound, Lineage, RequestsSound, RowsOf, Steps, Kinds, Answers
<1>1. ASSUME NEW r \in Requests, Login(r) PROVE (RowsSound /\ Lineage)'
  BY Zenon, <1>1 DEF Login
<1>2. ASSUME NEW r \in Requests, Store(r) PROVE (RowsSound /\ Lineage)'
  BY <1>2 DEF Store
<1>3. ASSUME NEW r \in Requests, FindForRefresh(r) PROVE (RowsSound /\ Lineage)'
  BY Zenon, <1>3 DEF FindForRefresh, CheckToken, FindByTokenHash
<1>4. ASSUME NEW r \in Requests, FindForLogout(r) PROVE (RowsSound /\ Lineage)'
  BY Zenon, <1>4 DEF FindForLogout, FindByTokenHash
<1>5. ASSUME NEW r \in Requests, ReadUser(r) PROVE (RowsSound /\ Lineage)'
  BY Zenon, <1>5 DEF ReadUser
<1>6. ASSUME NEW r \in Requests, Rotate(r) PROVE (RowsSound /\ Lineage)'
  BY <1>6 DEF Rotate, Insert
<1>7. ASSUME NEW r \in Requests, RevokeFamily(r) PROVE (RowsSound /\ Lineage)'
  BY Zenon, <1>7 DEF RevokeFamily, Kill
<1>8. ASSUME NEW r \in Requests, Revoke(r) PROVE (RowsSound /\ Lineage)'
  BY <1>8 DEF Revoke
<1>9. ASSUME NEW r \in Requests, Fails(r) PROVE (RowsSound /\ Lineage)'
  BY Zenon, <1>9 DEF Fails
<1>10. ASSUME NEW u \in Users, RevokeAllSessions(u) PROVE (RowsSound /\ Lineage)'
  BY <1>10 DEF RevokeAllSessions, Kill
<1>11. ASSUME NEW u \in Users, UpdateUser(u) PROVE (RowsSound /\ Lineage)'
  BY Zenon, <1>11 DEF UpdateUser
<1>12. ASSUME NEW t \in Tokens, TimePasses(t) PROVE (RowsSound /\ Lineage)'
  BY Zenon, <1>12 DEF TimePasses
<1>13. CASE UNCHANGED vars
  BY Zenon, <1>13 DEF vars
<1>. QED
  BY Zenon, <1>1, <1>2, <1>3, <1>4, <1>5, <1>6, <1>7, <1>8, <1>9, <1>10, <1>11, <1>12, <1>13
  DEF Next, RequestStep

\* A request goes on with the row it has found.
LEMMA RequestsStep == IInv /\ TypeOK' /\ [Next]_vars => (RequestsSound /\ ReuseDetected)'
<1> SUFFICES ASSUME IInv, TypeOK', [Next]_vars PROVE (RequestsSound /\ ReuseDetected)'
  BY Zenon
<1> USE SessionConstants DEF IInv, TypeOK, RowsSound, RequestsSound, ReuseDetected, RowsOf, Steps, Kinds, Answers
<1>1. ASSUME NEW r \in Requests, Login(r) PROVE (RequestsSound /\ ReuseDetected)'
  BY <1>1 DEF Login
<1>2. ASSUME NEW r \in Requests, Store(r) PROVE (RequestsSound /\ ReuseDetected)'
  BY <1>2 DEF Store
<1>3. ASSUME NEW r \in Requests, FindForRefresh(r) PROVE (RequestsSound /\ ReuseDetected)'
  BY <1>3 DEF FindForRefresh, CheckToken, FindByTokenHash
<1>4. ASSUME NEW r \in Requests, FindForLogout(r) PROVE (RequestsSound /\ ReuseDetected)'
  BY <1>4 DEF FindForLogout, FindByTokenHash
<1>5. ASSUME NEW r \in Requests, ReadUser(r) PROVE (RequestsSound /\ ReuseDetected)'
  BY <1>5 DEF ReadUser
<1>6. ASSUME NEW r \in Requests, Rotate(r) PROVE (RequestsSound /\ ReuseDetected)'
  BY <1>6 DEF Rotate, Insert
<1>7. ASSUME NEW r \in Requests, RevokeFamily(r) PROVE (RequestsSound /\ ReuseDetected)'
  BY <1>7 DEF RevokeFamily, Kill
<1>8. ASSUME NEW r \in Requests, Revoke(r) PROVE (RequestsSound /\ ReuseDetected)'
  BY <1>8 DEF Revoke
<1>9. ASSUME NEW r \in Requests, Fails(r) PROVE (RequestsSound /\ ReuseDetected)'
  BY <1>9 DEF Fails
<1>10. ASSUME NEW u \in Users, RevokeAllSessions(u) PROVE (RequestsSound /\ ReuseDetected)'
  BY Zenon, <1>10 DEF RevokeAllSessions, Kill
<1>11. ASSUME NEW u \in Users, UpdateUser(u) PROVE (RequestsSound /\ ReuseDetected)'
  BY Zenon, <1>11 DEF UpdateUser
<1>12. ASSUME NEW t \in Tokens, TimePasses(t) PROVE (RequestsSound /\ ReuseDetected)'
  BY Zenon, <1>12 DEF TimePasses
<1>13. CASE UNCHANGED vars
  BY Zenon, <1>13 DEF vars
<1>. QED
  BY Zenon, <1>1, <1>2, <1>3, <1>4, <1>5, <1>6, <1>7, <1>8, <1>9, <1>10, <1>11, <1>12, <1>13
  DEF Next, RequestStep

\* A refresh that comes to a quiet family finds every row revoked.
LEMMA QuietStep == IInv /\ TypeOK' /\ [Next]_vars => (QuietSound /\ QuietFamiliesStayDead)'
<1> SUFFICES ASSUME IInv, TypeOK', [Next]_vars PROVE (QuietSound /\ QuietFamiliesStayDead)'
  BY Zenon
<1> USE SessionConstants DEF IInv, TypeOK, RowsSound, RequestsSound, QuietSound, QuietFamiliesStayDead, RowsOf, UnderWay, Steps, Kinds, Answers
<1>1. ASSUME NEW r \in Requests, Login(r) PROVE (QuietSound /\ QuietFamiliesStayDead)'
  BY <1>1 DEF Login
<1>2. ASSUME NEW r \in Requests, Store(r) PROVE (QuietSound /\ QuietFamiliesStayDead)'
  BY <1>2 DEF Store
<1>3. ASSUME NEW r \in Requests, FindForRefresh(r) PROVE (QuietSound /\ QuietFamiliesStayDead)'
  BY <1>3 DEF FindForRefresh, CheckToken, FindByTokenHash
<1>4. ASSUME NEW r \in Requests, FindForLogout(r) PROVE (QuietSound /\ QuietFamiliesStayDead)'
  BY <1>4 DEF FindForLogout, FindByTokenHash
<1>5. ASSUME NEW r \in Requests, ReadUser(r) PROVE (QuietSound /\ QuietFamiliesStayDead)'
  BY <1>5 DEF ReadUser
<1>6. ASSUME NEW r \in Requests, Rotate(r) PROVE (QuietSound /\ QuietFamiliesStayDead)'
  BY <1>6 DEF Rotate, Insert
<1>7. ASSUME NEW r \in Requests, RevokeFamily(r) PROVE (QuietSound /\ QuietFamiliesStayDead)'
  BY <1>7 DEF RevokeFamily, Kill
<1>8. ASSUME NEW r \in Requests, Revoke(r) PROVE (QuietSound /\ QuietFamiliesStayDead)'
  BY <1>8 DEF Revoke
<1>9. ASSUME NEW r \in Requests, Fails(r) PROVE (QuietSound /\ QuietFamiliesStayDead)'
  BY <1>9 DEF Fails
<1>10. ASSUME NEW u \in Users, RevokeAllSessions(u) PROVE (QuietSound /\ QuietFamiliesStayDead)'
  BY <1>10 DEF RevokeAllSessions, Kill
<1>11. ASSUME NEW u \in Users, UpdateUser(u) PROVE (QuietSound /\ QuietFamiliesStayDead)'
  BY Zenon, <1>11 DEF UpdateUser
<1>12. ASSUME NEW t \in Tokens, TimePasses(t) PROVE (QuietSound /\ QuietFamiliesStayDead)'
  BY Zenon, <1>12 DEF TimePasses
<1>13. CASE UNCHANGED vars
  BY Zenon, <1>13 DEF vars
<1>. QED
  BY Zenon, <1>1, <1>2, <1>3, <1>4, <1>5, <1>6, <1>7, <1>8, <1>9, <1>10, <1>11, <1>12, <1>13
  DEF Next, RequestStep

\* Only rotation, logout and family-wide revocation revoke rows.
LEMMA LossStep == IInv /\ TypeOK' /\ [Next]_vars => (NoSessionLost)'
<1> SUFFICES ASSUME IInv, TypeOK', [Next]_vars PROVE (NoSessionLost)'
  BY Zenon
<1> USE SessionConstants DEF IInv, TypeOK, RowsSound, RequestsSound, NoSessionLost, RowsOf, Steps, Kinds, Answers
<1>1. ASSUME NEW r \in Requests, Login(r) PROVE (NoSessionLost)'
  BY Zenon, <1>1 DEF Login
<1>2. ASSUME NEW r \in Requests, Store(r) PROVE (NoSessionLost)'
  BY <1>2 DEF Store
<1>3. ASSUME NEW r \in Requests, FindForRefresh(r) PROVE (NoSessionLost)'
  BY Zenon, <1>3 DEF FindForRefresh, CheckToken, FindByTokenHash
<1>4. ASSUME NEW r \in Requests, FindForLogout(r) PROVE (NoSessionLost)'
  BY Zenon, <1>4 DEF FindForLogout, FindByTokenHash
<1>5. ASSUME NEW r \in Requests, ReadUser(r) PROVE (NoSessionLost)'
  BY Zenon, <1>5 DEF ReadUser
<1>6. ASSUME NEW r \in Requests, Rotate(r) PROVE (NoSessionLost)'
  BY <1>6 DEF Rotate, Insert
<1>7. ASSUME NEW r \in Requests, RevokeFamily(r) PROVE (NoSessionLost)'
  BY Zenon, <1>7 DEF RevokeFamily, Kill
<1>8. ASSUME NEW r \in Requests, Revoke(r) PROVE (NoSessionLost)'
  BY Zenon, <1>8 DEF Revoke
<1>9. ASSUME NEW r \in Requests, Fails(r) PROVE (NoSessionLost)'
  BY Zenon, <1>9 DEF Fails
<1>10. ASSUME NEW u \in Users, RevokeAllSessions(u) PROVE (NoSessionLost)'
  BY Zenon, <1>10 DEF RevokeAllSessions, Kill
<1>11. ASSUME NEW u \in Users, UpdateUser(u) PROVE (NoSessionLost)'
  BY Zenon, <1>11 DEF UpdateUser
<1>12. ASSUME NEW t \in Tokens, TimePasses(t) PROVE (NoSessionLost)'
  BY Zenon, <1>12 DEF TimePasses
<1>13. CASE UNCHANGED vars
  BY Zenon, <1>13 DEF vars
<1>. QED
  BY Zenon, <1>1, <1>2, <1>3, <1>4, <1>5, <1>6, <1>7, <1>8, <1>9, <1>10, <1>11, <1>12, <1>13
  DEF Next, RequestStep

\* Both steps together.
LEMMA Invariance == Spec => []IInv
<1>1. IInv /\ [Next]_vars => IInv'
  <2> SUFFICES ASSUME IInv, [Next]_vars PROVE IInv'
    BY Zenon
  <2>1. TypeOK'
    BY Zenon, TypeStep DEF IInv
  <2>. QED  BY Zenon, <2>1, RowsStep, RequestsStep, QuietStep, LossStep DEF IInv
<1>. QED  BY InitIInv, <1>1, PTL DEF Spec

\* The variables keep their types in every behaviour of the session requests.
THEOREM TypeCorrect == Spec => []TypeOK
  BY Invariance, PTL DEF IInv

\* However many refreshes rotate a row at once, RotateRefreshToken links rows of one
\* family into trees of revoked rows below a single login.
THEOREM LineageCorrect == Spec => []Lineage
  BY Invariance, PTL DEF IInv

\* Refresh gives no tokens for a row it reads revoked, and answers replay only
\* after RevokeFamily.
THEOREM ReuseIsDetected == Spec => []ReuseDetected
  BY Invariance, PTL DEF IInv

\* A family revoked while no refresh was between its check and RotateRefreshToken
\* stays without a live row.
THEOREM QuietRevocationIsFinal == Spec => []QuietFamiliesStayDead
  BY Invariance, PTL DEF IInv

\* Lost answers and failed statements leave no row revoked without a successor.
THEOREM SessionsAreNotLost == Spec => []NoSessionLost
  BY Invariance, PTL DEF IInv

HIDE DEF Goto, Reply, ReplyOrLost, rows, request, history

-----------------------------------------------------------------------------
(* TenantPool *)

\* Which connections a worker holds at each step.
Holds ==
  \A w \in Workers :
    /\ unit[w] \in {"idle", "begin"} => txConn[w] = Unset
    /\ unit[w] \notin {"idle", "begin"} => txConn[w] \in Conns
    /\ unit[w] # "query" => fnConn[w] = Unset
    /\ unit[w] = "query" => w \in Nested /\ fnConn[w] \in Conns

\* No connection is held twice.
Exclusive ==
  /\ \A w, x \in Workers : w # x => txConn[w] = Unset \/ txConn[w] # txConn[x]
  /\ \A w, x \in Workers : txConn[w] = Unset \/ txConn[w] # fnConn[x]

\* A transaction past set_config carries its tenant.
Bound ==
  \A w \in Workers :
    unit[w] \in {"fn", "query", "commit"} => guc[txConn[w]] = TenantOf[w]

\* The inductive invariant.
PoolInv ==
  /\ PoolTypeOK
  /\ Holds
  /\ Exclusive
  /\ Bound
  /\ SettingScoped
  /\ Isolated
  /\ TxSeesOwnRows

\* At first nobody holds a connection.
LEMMA PoolInvInit == PoolInit => PoolInv
BY PoolConstants
   DEF PoolInit, PoolInv, PoolTypeOK, Holds, Exclusive, Bound, SettingScoped, Isolated,
       TxSeesOwnRows, UnitSteps

\* A free connection is held by nobody.
LEMMA FreeIsFree ==
  ASSUME NEW c \in Free
  PROVE  c \in Conns /\ \A w \in Workers : txConn[w] # c /\ fnConn[w] # c
BY Zenon DEF Free, Held

\* Every step keeps the types.
LEMMA PoolTypeStep == PoolInv /\ [PoolNext]_poolVars => PoolTypeOK'
<1> SUFFICES ASSUME PoolInv, [PoolNext]_poolVars PROVE PoolTypeOK'
  BY Zenon
<1> USE PoolConstants DEF PoolInv, PoolTypeOK, UnitSteps, Advance
<1>1. ASSUME NEW w \in Workers, Start(w) PROVE PoolTypeOK'
  BY Zenon, <1>1 DEF Start
<1>2. ASSUME NEW w \in Workers, Begin(w) PROVE PoolTypeOK'
  BY Zenon, <1>2, FreeIsFree DEF Begin
<1>3. ASSUME NEW w \in Workers, Bind(w) PROVE PoolTypeOK'
  BY Zenon, <1>3 DEF Bind
<1>4. ASSUME NEW w \in Workers, RunOnTx(w) PROVE PoolTypeOK'
  BY <1>4 DEF RunOnTx, Visible
<1>5. ASSUME NEW w \in Workers, Borrow(w) PROVE PoolTypeOK'
  BY Zenon, <1>5, FreeIsFree DEF Borrow
<1>6. ASSUME NEW w \in Workers, RunOnPool(w) PROVE PoolTypeOK'
  BY <1>6 DEF RunOnPool, Visible
<1>7. ASSUME NEW w \in Workers, Commit(w) \/ Fail(w) PROVE PoolTypeOK'
  BY <1>7 DEF Commit, Fail, EndTx
<1>8. CASE UNCHANGED poolVars
  BY Zenon, <1>8 DEF poolVars
<1> QED BY Zenon, <1>1, <1>2, <1>3, <1>4, <1>5, <1>6, <1>7, <1>8 DEF PoolNext, Work

\* Every step keeps the rest of the invariant.
LEMMA RestStep ==
  PoolInv /\ [PoolNext]_poolVars =>
    Holds' /\ Exclusive' /\ Bound' /\ SettingScoped' /\ Isolated' /\ TxSeesOwnRows'
<1> DEFINE Rest == Holds /\ Exclusive /\ Bound /\ SettingScoped /\ Isolated /\ TxSeesOwnRows
<1> SUFFICES ASSUME PoolInv, [PoolNext]_poolVars PROVE Rest'
  BY Zenon
<1> USE PoolConstants DEF PoolInv, PoolTypeOK, Advance
<1>1. ASSUME NEW w \in Workers, Start(w) PROVE Rest'
  BY <1>1 DEF Start, Holds, Exclusive, Bound, SettingScoped, Isolated, TxSeesOwnRows
<1>2. ASSUME NEW w \in Workers, Begin(w) PROVE Rest'
  <2>1. PICK c \in Free : txConn' = [txConn EXCEPT ![w] = c]
    BY Zenon, <1>2 DEF Begin
  <2>2. c \in Conns /\ \A x \in Workers : txConn[x] # c /\ fnConn[x] # c
    BY Zenon, FreeIsFree
  <2>3. Holds' /\ Exclusive'
    BY <1>2, <2>1, <2>2 DEF Begin, Holds, Exclusive
  <2>4. Bound' /\ Isolated' /\ TxSeesOwnRows'
    BY Zenon, <1>2, <2>1 DEF Begin, Bound, Isolated, TxSeesOwnRows
  <2>5. SettingScoped'
    BY <1>2, <2>1, <2>2 DEF Begin, SettingScoped, Holds
  <2> QED BY Zenon, <2>3, <2>4, <2>5
<1>3. ASSUME NEW w \in Workers, Bind(w) PROVE Rest'
  <2>1. txConn[w] \in Conns
    BY Zenon, <1>3 DEF Bind, Holds
  <2>2. Holds' /\ Exclusive' /\ Isolated' /\ TxSeesOwnRows'
    BY Zenon, <1>3 DEF Bind, Holds, Exclusive, Isolated, TxSeesOwnRows
  <2>3. Bound'
    BY Zenon, <1>3, <2>1 DEF Bind, Bound, Exclusive, Holds
  <2>4. SettingScoped'
    BY Zenon, <1>3, <2>1 DEF Bind, SettingScoped
  <2> QED BY Zenon, <2>2, <2>3, <2>4
<1>4. ASSUME NEW w \in Workers, RunOnTx(w) PROVE Rest'
  <2>1. guc[txConn[w]] = TenantOf[w]
    BY Zenon, <1>4 DEF RunOnTx, Bound
  <2>2. TenantOf[w] \in saw'[w] /\ (RlsEnforced => saw'[w] \subseteq {TenantOf[w]})
    BY <1>4, <2>1 DEF RunOnTx, Visible
  <2>3. Holds' /\ Exclusive' /\ Bound' /\ SettingScoped'
    BY <1>4 DEF RunOnTx, Holds, Exclusive, Bound, SettingScoped
  <2>4. Isolated' /\ TxSeesOwnRows'
    BY Zenon, <1>4, <2>2 DEF RunOnTx, Isolated, TxSeesOwnRows
  <2> QED BY Zenon, <2>3, <2>4
<1>5. ASSUME NEW w \in Workers, Borrow(w) PROVE Rest'
  <2>1. PICK c \in Free : fnConn' = [fnConn EXCEPT ![w] = c]
    BY Zenon, <1>5 DEF Borrow
  <2>2. c \in Conns /\ \A x \in Workers : txConn[x] # c /\ fnConn[x] # c
    BY Zenon, FreeIsFree
  <2>3. Holds' /\ Exclusive'
    BY Zenon, <1>5, <2>1, <2>2 DEF Borrow, Holds, Exclusive
  <2>4. Bound' /\ SettingScoped' /\ Isolated' /\ TxSeesOwnRows'
    BY Zenon, <1>5 DEF Borrow, Bound, SettingScoped, Isolated, TxSeesOwnRows
  <2> QED BY Zenon, <2>3, <2>4
<1>6. ASSUME NEW w \in Workers, RunOnPool(w) PROVE Rest'
  <2>1. w \in Workers /\ fnConn[w] \in Conns /\ \A x \in Workers : txConn[x] # fnConn[w]
    BY Zenon, <1>6 DEF RunOnPool, Holds, Exclusive
  <2>2. guc[fnConn[w]] = Unset
    BY Zenon, <2>1 DEF SettingScoped
  <2>3. RlsEnforced => saw'[w] = {}
    BY <1>6, <2>2 DEF RunOnPool, Visible
  <2>4. Holds' /\ Exclusive' /\ Bound' /\ SettingScoped'
    BY <1>6 DEF RunOnPool, Holds, Exclusive, Bound, SettingScoped
  <2>5. Isolated'
    BY Zenon, <1>6, <2>3 DEF RunOnPool, Isolated
  <2>6. w \in Nested
    BY Zenon, <1>6 DEF RunOnPool, Holds
  <2>7. TxSeesOwnRows'
    BY Zenon, <1>6, <2>6 DEF RunOnPool, TxSeesOwnRows
  <2> QED BY Zenon, <2>4, <2>5, <2>7
<1>7. ASSUME NEW w \in Workers, Commit(w) \/ Fail(w) PROVE Rest'
  <2>1. EndTx(w) /\ UNCHANGED saw
    BY Zenon, <1>7 DEF Commit, Fail
  <2>2. Holds' /\ Exclusive'
    BY Zenon, <2>1 DEF EndTx, Holds, Exclusive
  <2>3. Bound'
    BY Zenon, <2>1 DEF EndTx, Bound, Holds, Exclusive
  <2>4. SettingScoped'
    BY Zenon, <2>1 DEF EndTx, SettingScoped
  <2>5. Isolated' /\ TxSeesOwnRows'
    BY Zenon, <2>1 DEF EndTx, Isolated, TxSeesOwnRows
  <2> QED BY Zenon, <2>2, <2>3, <2>4, <2>5
<1>8. CASE UNCHANGED poolVars
  BY <1>8 DEF poolVars, Holds, Exclusive, Bound, SettingScoped, Isolated, TxSeesOwnRows
<1> QED BY Zenon, <1>1, <1>2, <1>3, <1>4, <1>5, <1>6, <1>7, <1>8 DEF PoolNext, Work

\* Both steps together.
LEMMA PoolInvariance == PoolSpec => []PoolInv
<1>1. PoolInv /\ [PoolNext]_poolVars => PoolInv'
  BY Zenon, PoolTypeStep, RestStep DEF PoolInv
<1> QED BY PoolInvInit, <1>1, PTL DEF PoolSpec

-----------------------------------------------------------------------------
\* Types, for any pool and any workers.
THEOREM PoolTypeCorrect == PoolSpec => []PoolTypeOK
<1>1. PoolInv => PoolTypeOK
  BY Zenon DEF PoolInv
<1> QED BY PoolInvariance, <1>1, PTL

\* set_config(..., true) never leaves a tenant on a connection of the pool.
THEOREM SettingIsScoped == PoolSpec => []SettingScoped
<1>1. PoolInv => SettingScoped
  BY Zenon DEF PoolInv
<1> QED BY PoolInvariance, <1>1, PTL

\* Under row level security no unit of work sees another tenant's rows.
THEOREM Isolation == PoolSpec => []Isolated
<1>1. PoolInv => Isolated
  BY Zenon DEF PoolInv
<1> QED BY PoolInvariance, <1>1, PTL

\* WithTenantTx sees its tenant's rows.
THEOREM TxVisibility == PoolSpec => []TxSeesOwnRows
<1>1. PoolInv => TxSeesOwnRows
  BY Zenon DEF PoolInv
<1> QED BY PoolInvariance, <1>1, PTL

\* Connections come back however a unit of work ends.
THEOREM NoConnectionLost == PoolSpec => []ConnectionsReturned
<1>1. PoolInv => ConnectionsReturned
  BY Zenon DEF PoolInv, Holds, ConnectionsReturned
<1> QED BY PoolInvariance, <1>1, PTL

\* If every connection is held and no worker runs, each connection is the
\* transaction of a worker that waits for a second one.
LEMMA StalledHolders ==
  ASSUME PoolInv, Free = {}, \A w \in Workers : ~Running(w)
  PROVE  \A c \in Conns : \E w \in Nested : txConn[w] = c
<1> SUFFICES ASSUME NEW c \in Conns PROVE \E w \in Nested : txConn[w] = c
  BY Zenon
<1> USE PoolConstants DEF PoolInv, PoolTypeOK, UnitSteps
<1>1. PICK w \in Workers : txConn[w] = c \/ fnConn[w] = c
  BY DEF Free, Held
<1>2. fnConn[w] # c
  BY Zenon DEF Running, Holds
<1>3. unit[w] = "fn" /\ w \in Nested
  BY Zenon, <1>1, <1>2 DEF Running, Holds
<1> QED BY Zenon, <1>1, <1>2, <1>3

\* Deadlock freedom of the pool, from the sizes alone: a pool with more
\* connections than units of work that take a second one never stalls.  Were it
\* stalled, the holders of its connections would map Nested onto Conns.
THEOREM PoolNeverStalls == PoolSpec => []NeverStalled
<1>1. PoolInv => NeverStalled
  <2> SUFFICES ASSUME PoolInv, Free = {}, \A w \in Workers : ~Running(w)
               PROVE  Cardinality(Conns) <= Cardinality(Nested)
    <3>1. IsFiniteSet(Nested)
      BY Zenon, PoolConstants, FS_Subset
    <3>2. Cardinality(Nested) \in Nat /\ Cardinality(Conns) \in Nat
      BY Zenon, <3>1, PoolConstants, FS_CardinalityType
    <3> QED BY <3>2 DEF NeverStalled
  <2>1. IsFiniteSet(Nested)
    BY Zenon, PoolConstants, FS_Subset
  <2> DEFINE D == {w \in Nested : txConn[w] \in Conns}
  <2>2. IsFiniteSet(D) /\ Cardinality(D) <= Cardinality(Nested)
    BY Zenon, <2>1, FS_Subset
  <2> DEFINE holder == [w \in D |-> txConn[w]]
  <2>3. holder \in Surjection(D, Conns)
    BY Zenon, StalledHolders DEF Surjection
  <2>4. Cardinality(Conns) <= Cardinality(D)
    BY Zenon, <2>2, <2>3, FS_Surjection
  <2>5. Cardinality(Nested) \in Nat /\ Cardinality(Conns) \in Nat /\ Cardinality(D) \in Nat
    BY Zenon, <2>1, <2>2, PoolConstants, FS_CardinalityType
  <2> QED BY <2>2, <2>4, <2>5
<1> QED BY PoolInvariance, <1>1, PTL
==============================================================================
