----------------------------- MODULE RefreshTokens -----------------------------
(***************************************************************************)
(* Sessions: login, refresh with rotation and reuse detection, logout and   *)
(* the revocation of all of a user's sessions (internal/usecase/auth and    *)
(* internal/adapter/postgres/refresh_repository.go).  A request runs one    *)
(* statement per step; what it decides from a row it has read may no longer *)
(* hold when its next statement runs.  A statement is atomic, and no        *)
(* statement makes a revoked row live again.                                *)
(***************************************************************************)
EXTENDS Naturals, FiniteSets

CONSTANTS Requests,   \* calls of Login, Refresh or Logout
          Tokens,     \* rows of refresh_tokens; how many is the bound
          Families,   \* values of family_id, one per login
          Users,
          None

ASSUME SessionConstants == None \notin Tokens \cup Families \cup Users

VARIABLES
  family,       \* of each row, None where no row has been inserted
  rotatedFrom,
  revoked,      \* the rows with revoked = true
  expired,      \* the rows whose expires_at has passed
  owner,        \* user of the rows of a family
  inactive,     \* users whose status is not active
  pc, kind, token, user, answer,   \* of each request
  foundRevoked, \* history: refreshes that read their row revoked
  killed,       \* history: families that were revoked as a whole
  quiet,        \* history: those among them on which no refresh was under way
  loggedOut     \* history: rows revoked one by one

rows == <<family, rotatedFrom, owner>>
request == <<kind, token, user>>
history == <<foundRevoked, killed, quiet, loggedOut>>
vars == <<rows, revoked, expired, inactive, pc, request, answer, history>>

Kinds == {"refresh", "logout", "logoutAll"}
Steps == {"new", "store", "user", "rotate", "revokeFamily", "revoke", "done"}
Answers == {"none", "ok", "invalid", "replay", "expired", "forbidden", "error"}

TypeOK ==
  /\ family \in [Tokens -> Families \cup {None}]
  /\ rotatedFrom \in [Tokens -> Tokens \cup {None}]
  /\ revoked \subseteq Tokens /\ expired \subseteq Tokens
  /\ owner \in [Families -> Users \cup {None}]
  /\ inactive \subseteq Users
  /\ pc \in [Requests -> Steps]
  /\ kind \in [Requests -> Kinds \cup {"login"}]
  /\ token \in [Requests -> Tokens \cup {None}]
  /\ user \in [Requests -> Users \cup {None}]
  /\ answer \in [Requests -> Answers]
  /\ foundRevoked \subseteq Requests
  /\ killed \subseteq Families /\ quiet \subseteq killed
  /\ loggedOut \subseteq Tokens

Init ==
  /\ family = [t \in Tokens |-> None]
  /\ rotatedFrom = [t \in Tokens |-> None]
  /\ revoked = {} /\ expired = {}
  /\ owner = [f \in Families |-> None]
  /\ inactive = {}
  /\ pc = [r \in Requests |-> "new"]
  /\ kind = [r \in Requests |-> "login"]
  /\ token = [r \in Requests |-> None]
  /\ user = [r \in Requests |-> None]
  /\ answer = [r \in Requests |-> "none"]
  /\ foundRevoked = {} /\ killed = {} /\ quiet = {} /\ loggedOut = {}

Goto(r, step) == pc' = [pc EXCEPT ![r] = step]

Reply(r, a) == Goto(r, "done") /\ answer' = [answer EXCEPT ![r] = a]

\* A statement whose request is answered with a, or with an error when the
\* connection or the process fails after the statement took effect.
ReplyOrLost(r, a) == Reply(r, a) \/ Reply(r, "error")

-----------------------------------------------------------------------------
\* Login reads the user and checks password and status; credentials that do not
\* match end the request.
Login(r) ==
  /\ pc[r] = "new"
  /\ \E u \in Users :
       /\ user' = [user EXCEPT ![r] = u]
       /\ \/ u \notin inactive /\ Goto(r, "store") /\ UNCHANGED answer
          \/ u \in inactive /\ Reply(r, "forbidden")
          \/ Reply(r, "invalid")
  /\ UNCHANGED <<rows, revoked, expired, inactive, kind, token, history>>

\* CreateRefreshToken, with a new family.
Store(r) ==
  /\ pc[r] = "store"
  /\ \E t \in Tokens, f \in Families :
       /\ family[t] = None /\ owner[f] = None
       /\ family' = [family EXCEPT ![t] = f]
       /\ owner' = [owner EXCEPT ![f] = user[r]]
  /\ ReplyOrLost(r, "ok")
  /\ UNCHANGED <<rotatedFrom, revoked, expired, inactive, request, history>>

\* GetRefreshTokenByHash finds a row whatever its flags are.
FindByTokenHash(t) == family[t] # None

\* Mutant: expiry is looked at before reuse.
CheckToken_ExpiredFirst(t) ==
  CASE ~FindByTokenHash(t) -> "invalid"
    [] t \in expired -> "expired"
    [] t \in revoked /\ t \notin expired -> "revokeFamily"
    [] OTHER -> "user"

\* Mutant: a revoked token is not recognised.
CheckToken_NoReuse(t) ==
  CASE ~FindByTokenHash(t) -> "invalid"
    [] t \in expired -> "expired"
    [] OTHER -> "user"

\* What Refresh does next with the row it has read: an answer or a step.
CheckToken(t) ==
  CASE ~FindByTokenHash(t) -> "invalid"
    [] FindByTokenHash(t) /\ t \in revoked -> "revokeFamily"
    [] FindByTokenHash(t) /\ t \notin revoked /\ t \in expired -> "expired"
    [] OTHER -> "user"

FindForRefresh(r) ==
  /\ pc[r] = "new"
  /\ \E t \in Tokens :
       /\ token' = [token EXCEPT ![r] = t]
       /\ IF CheckToken(t) \in Steps
            THEN Goto(r, CheckToken(t)) /\ UNCHANGED answer
            ELSE Reply(r, CheckToken(t))
       /\ foundRevoked' = IF t \in revoked THEN foundRevoked \cup {r} ELSE foundRevoked
  /\ kind' = [kind EXCEPT ![r] = "refresh"]
  /\ UNCHANGED <<rows, revoked, expired, inactive, user, killed, quiet, loggedOut>>

\* Logout looks at no flag of the row.
FindForLogout(r) ==
  /\ pc[r] = "new"
  /\ \E t \in Tokens, k \in {"logout", "logoutAll"} :
       /\ token' = [token EXCEPT ![r] = t]
       /\ kind' = [kind EXCEPT ![r] = k]
       /\ \/ ~FindByTokenHash(t) /\ Reply(r, "invalid")
          \/ /\ FindByTokenHash(t)
             /\ Goto(r, IF k = "logout" THEN "revoke" ELSE "revokeFamily")
             /\ UNCHANGED answer
  /\ UNCHANGED <<rows, revoked, expired, inactive, user, history>>

ReadUser(r) ==
  /\ pc[r] = "user"
  /\ \/ owner[family[token[r]]] \notin inactive /\ Goto(r, "rotate") /\ UNCHANGED answer
     \/ owner[family[token[r]]] \in inactive /\ Reply(r, "forbidden")
  /\ UNCHANGED <<rows, revoked, expired, inactive, request, history>>

\* The row of r's token gets the successor t.
Insert(r, t) ==
  /\ family[t] = None
  /\ family' = [family EXCEPT ![t] = family[token[r]]]
  /\ rotatedFrom' = [rotatedFrom EXCEPT ![t] = token[r]]

\* Mutant: the old row stays live.
Rotate_KeepsOld(r) ==
  /\ pc[r] = "rotate"
  /\ \E t \in Tokens : Insert(r, t)
  /\ ReplyOrLost(r, "ok")
  /\ UNCHANGED <<owner, revoked, expired, inactive, request, history>>

\* Mutant: the old row is revoked first, in a statement of its own, and the
\* insertion fails.
Rotate_RevokesFirst(r) ==
  /\ pc[r] = "rotate"
  /\ revoked' = revoked \cup {token[r]}
  /\ \/ (\E t \in Tokens : Insert(r, t)) /\ Reply(r, "ok")
     \/ UNCHANGED <<family, rotatedFrom>> /\ Reply(r, "error")
  /\ UNCHANGED <<owner, expired, inactive, request, history>>

\* RotateRefreshToken inserts the successor and revokes the row, whatever the
\* row is by now, in one statement.
Rotate(r) ==
  /\ pc[r] = "rotate"
  /\ \E t \in Tokens : Insert(r, t)
  /\ revoked' = revoked \cup {token[r]}
  /\ ReplyOrLost(r, "ok")
  /\ UNCHANGED <<owner, expired, inactive, request, history>>

RowsOf(F) == {t \in Tokens : family[t] \in F}

\* Refreshes that have found a row of the families F live and not yet rotated it.
UnderWay(F) ==
  {r \in Requests : pc[r] \in {"user", "rotate"} /\ family[token[r]] \in F}

\* All rows of the families F are revoked in one UPDATE.
Kill(F) ==
  /\ revoked' = revoked \cup RowsOf(F)
  /\ killed' = killed \cup F
  /\ quiet' = quiet \cup {f \in F : UnderWay({f}) = {}}
  /\ UNCHANGED <<foundRevoked, loggedOut>>

\* RevokeRefreshTokenFamily, after reuse was detected or for Logout.
RevokeFamily(r) ==
  /\ pc[r] = "revokeFamily"
  /\ Kill({family[token[r]]})
  /\ ReplyOrLost(r, IF kind[r] = "refresh" THEN "replay" ELSE "ok")
  /\ UNCHANGED <<rows, expired, inactive, request>>

\* RevokeRefreshToken
Revoke(r) ==
  /\ pc[r] = "revoke"
  /\ revoked' = revoked \cup {token[r]}
  /\ loggedOut' = loggedOut \cup {token[r]}
  /\ ReplyOrLost(r, "ok")
  /\ UNCHANGED <<rows, expired, inactive, request, foundRevoked, killed, quiet>>

\* A statement fails without effect.
Fails(r) ==
  /\ pc[r] \notin {"new", "done"}
  /\ Reply(r, "error")
  /\ UNCHANGED <<rows, revoked, expired, inactive, request, history>>

\* RevokeAllUserSessions, by the user or an administrator.
RevokeAllSessions(u) ==
  /\ Kill({f \in Families : owner[f] = u})
  /\ UNCHANGED <<rows, expired, inactive, pc, request, answer>>

\* UserRepository.Update changes the status of a user.
UpdateUser(u) ==
  /\ inactive' = IF u \in inactive THEN inactive \ {u} ELSE inactive \cup {u}
  /\ UNCHANGED <<rows, revoked, expired, pc, request, answer, history>>

TimePasses(t) ==
  /\ family[t] # None
  /\ expired' = expired \cup {t}
  /\ UNCHANGED <<rows, revoked, inactive, pc, request, answer, history>>

RequestStep(r) ==
  \/ Login(r) \/ Store(r)
  \/ FindForRefresh(r) \/ ReadUser(r) \/ Rotate(r)
  \/ FindForLogout(r) \/ RevokeFamily(r) \/ Revoke(r)
  \/ Fails(r)

Next ==
  \/ \E r \in Requests : RequestStep(r)
  \/ \E u \in Users : RevokeAllSessions(u) \/ UpdateUser(u)
  \/ \E t \in Tokens : TimePasses(t)

Spec == Init /\ [][Next]_vars

-----------------------------------------------------------------------------
(* Properties *)

\* Rotation builds trees: a successor is in the family of the row it replaces,
\* which is revoked, and the rows of a family go back to the one row that Login
\* stored.
Lineage ==
  \A s \in Tokens :
    /\ rotatedFrom[s] # None =>
         family[s] = family[rotatedFrom[s]] /\ rotatedFrom[s] \in revoked
    /\ \A t \in Tokens :
         /\ family[s] # None /\ family[s] = family[t]
         /\ rotatedFrom[s] = None /\ rotatedFrom[t] = None
         => s = t

\* A refresh that reads its row revoked gets no tokens and is never told that
\* the token has merely expired; when it is told of the replay, the family has
\* been revoked ("a token that is both revoked and expired is reported as
\* reuse", AD-004).
ReuseDetected ==
  \A r \in foundRevoked :
    /\ pc[r] = "done" => answer[r] \in {"replay", "error"}
    /\ answer[r] = "replay" => family[token[r]] \in killed

\* A family revoked as a whole, by reuse detection, logout or an administrator,
\* while no refresh was between its check and its rotation has no live row ever
\* after.
QuietFamiliesStayDead == RowsOf(quiet) \subseteq revoked

\* "Rotation order MUST fail safely" (AD-004): whatever fails, a row that was not
\* revoked on purpose and is revoked has a successor.
NoSessionLost ==
  \A t \in revoked :
    \/ family[t] \in killed
    \/ t \in loggedOut
    \/ \E s \in Tokens : rotatedFrom[s] = t

\* "in the classic race where both attacker and legitimate user present the same
\* token, whoever is second must not succeed" (AD-004): a row has one successor.
OneSuccessor ==
  \A s, t \in Tokens :
    rotatedFrom[s] # None /\ rotatedFrom[s] = rotatedFrom[t] => s = t
==============================================================================
