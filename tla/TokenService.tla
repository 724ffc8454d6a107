----------------------------- MODULE TokenService -----------------------------
(***************************************************************************)
(* user-service: accounts, and refresh tokens with rotation and reuse      *)
(* detection, over one Postgres database shared by every replica.          *)
(*                                                                         *)
(* A handler is one HTTP request in flight on some replica, from one await *)
(* to the next.  A refresh token stands for its secret and its hash; any   *)
(* token ever minted may be presented at any time, by the client it was    *)
(* issued to, a second time by that client, or by someone else.            *)
(*                                                                         *)
(* Left out: the access token (nothing here stores it), the roles and      *)
(* profiles of users, and the administrators who deactivate accounts.  A   *)
(* request that is refused changes nothing, and is a stuttering step.      *)
(***************************************************************************)
EXTENDS Naturals, FiniteSets

CONSTANTS
    Users,          \* accounts, one per e-mail address
    RefreshTokens,  \* secrets generateRawToken may return
    Families,       \* family ids randomUUID may return
    Handlers,       \* requests that can be in flight at the same time
    refreshTtlMs,   \* jwt.refreshTtl
    MaxTime,        \* bound: the clock stops here
    Null            \* SQL NULL, and an unset field

ASSUME TtlAssumption == refreshTtlMs \in Nat /\ MaxTime \in Nat
ASSUME NullAssumption ==
    /\ Null \notin Users /\ Null \notin RefreshTokens /\ Null \notin Families

VARIABLES
    account,     \* users: no row yet, isActive, not isActive
    userId,      \* refresh_tokens.user_id, Null while there is no row
    family,      \* refresh_tokens.family
    revoked,     \* refresh_tokens.revoked
    replacedBy,  \* refresh_tokens.replaced_by_token_hash
    expiresAt,   \* refresh_tokens.expires_at
    req,         \* the requests in flight
    now,         \* Date.now()
    reused       \* history: the families revokeFamily() has revoked

rows == <<userId, family, revoked, replacedBy, expiresAt>>
vars == <<account, rows, req, now, reused>>

Request ==
    [pc : {"idle", "issue", "revokeFamily", "rotate"},
     user : Users \cup {Null}, token : RefreshTokens \cup {Null},
     family : Families \cup {Null}, expiresAt : Nat]

NoRequest ==
    [pc |-> "idle", user |-> Null, token |-> Null, family |-> Null, expiresAt |-> 0]
Issuing(u) ==
    [pc |-> "issue", user |-> u, token |-> Null, family |-> Null, expiresAt |-> 0]
Revoking(f) ==
    [pc |-> "revokeFamily", user |-> Null, token |-> Null, family |-> f, expiresAt |-> 0]
Rotating(u, t, f, e) ==
    [pc |-> "rotate", user |-> u, token |-> t, family |-> f, expiresAt |-> e]

TypeOK ==
    /\ account \in [Users -> {"none", "active", "disabled"}]
    /\ userId \in [RefreshTokens -> Users \cup {Null}]
    /\ family \in [RefreshTokens -> Families \cup {Null}]
    /\ revoked \in [RefreshTokens -> BOOLEAN]
    /\ replacedBy \in [RefreshTokens -> RefreshTokens \cup {Null}]
    /\ expiresAt \in [RefreshTokens -> Nat]
    /\ req \in [Handlers -> Request]
    /\ now \in Nat
    /\ reused \subseteq Families

Init ==
    /\ account = [u \in Users |-> "none"]
    /\ userId = [t \in RefreshTokens |-> Null]
    /\ family = [t \in RefreshTokens |-> Null]
    /\ revoked = [t \in RefreshTokens |-> FALSE]
    /\ replacedBy = [t \in RefreshTokens |-> Null]
    /\ expiresAt = [t \in RefreshTokens |-> 0]
    /\ req = [h \in Handlers |-> NoRequest]
    /\ now = 0
    /\ reused = {}

-----------------------------------------------------------------------------
(* Reads and writes shared by several handlers *)

Exists(t) == userId[t] # Null
isExpired(t) == expiresAt[t] < now

\* refreshToken.create
CreateToken(t, u, f, e) ==
    /\ ~Exists(t)
    /\ userId' = [userId EXCEPT ![t] = u]
    /\ family' = [family EXCEPT ![t] = f]
    /\ expiresAt' = [expiresAt EXCEPT ![t] = e]

\* refreshToken.updateMany(..., { revoked: true })
RevokeWhere(S) ==
    /\ revoked' = [t \in RefreshTokens |-> revoked[t] \/ t \in S]
    /\ UNCHANGED <<userId, family, replacedBy, expiresAt>>

Finish(h) == req' = [req EXCEPT ![h] = NoRequest]

-----------------------------------------------------------------------------
(* POST /auth/register and /auth/login *)

\* register up to the users row: an e-mail that is taken is a conflict.
Register(h, u) ==
    /\ req[h].pc = "idle"
    /\ account[u] = "none"
    /\ account' = [account EXCEPT ![u] = "active"]
    /\ req' = [req EXCEPT ![h] = Issuing(u)]
    /\ UNCHANGED <<rows, now, reused>>

\* Mutant: a disabled account may log in.
ValidateCredentials_AnyAccount(h, u) ==
    /\ req[h].pc = "idle"
    /\ account[u] # "none"
    /\ req' = [req EXCEPT ![h] = Issuing(u)]
    /\ UNCHANGED <<account, rows, now, reused>>

\* validateCredentials: the account is read, then argon2 is awaited.
ValidateCredentials(h, u) ==
    /\ req[h].pc = "idle"
    /\ account[u] = "active"
    /\ req' = [req EXCEPT ![h] = Issuing(u)]
    /\ UNCHANGED <<account, rows, now, reused>>

\* Mutant: the family is named after something two logins can share.
IssueTokenPair_AnyFamily(h, t, f) ==
    /\ req[h].pc = "issue"
    /\ CreateToken(t, req[h].user, f, now + refreshTtlMs)
    /\ Finish(h)
    /\ UNCHANGED <<account, revoked, replacedBy, now, reused>>

\* issueTokenPair: the first token of a new family.
IssueTokenPair(h, t, f) ==
    /\ req[h].pc = "issue"
    /\ \A s \in RefreshTokens : family[s] # f
    /\ CreateToken(t, req[h].user, f, now + refreshTtlMs)
    /\ Finish(h)
    /\ UNCHANGED <<account, revoked, replacedBy, now, reused>>

-----------------------------------------------------------------------------
(* POST /auth/refresh *)

\* rotateRefreshToken, a revoked token: reuse.
PresentRevoked(h, t) ==
    /\ req[h].pc = "idle"
    /\ Exists(t) /\ revoked[t]
    /\ req' = [req EXCEPT ![h] = Revoking(family[t])]
    /\ UNCHANGED <<account, rows, now, reused>>

RevokeFamily(h) ==
    /\ req[h].pc = "revokeFamily"
    /\ RevokeWhere({t \in RefreshTokens : family[t] = req[h].family})
    /\ reused' = reused \cup {req[h].family}
    /\ Finish(h)
    /\ UNCHANGED <<account, now>>

\* Mutant: an expired token is exchanged, too.
PresentLive_Expired(h, t) ==
    /\ req[h].pc = "idle"
    /\ Exists(t) /\ ~revoked[t]
    /\ account[userId[t]] = "active"
    /\ req' = [req EXCEPT ![h] =
                  Rotating(userId[t], t, family[t], now + refreshTtlMs)]
    /\ UNCHANGED <<account, rows, now, reused>>

\* Mutant: the revoked flag is not looked at.
PresentLive_Revoked(h, t) ==
    /\ req[h].pc = "idle"
    /\ Exists(t)
    /\ ~isExpired(t)
    /\ account[userId[t]] = "active"
    /\ req' = [req EXCEPT ![h] =
                  Rotating(userId[t], t, family[t], now + refreshTtlMs)]
    /\ UNCHANGED <<account, rows, now, reused>>

\* rotateRefreshToken, a token that passes every check: what was read, and the
\* expiry of the replacement, are kept until the transaction runs.
PresentLive(h, t) ==
    /\ req[h].pc = "idle"
    /\ Exists(t) /\ ~revoked[t]
    /\ ~isExpired(t)
    /\ account[userId[t]] = "active"
    /\ req' = [req EXCEPT ![h] =
                  Rotating(userId[t], t, family[t], now + refreshTtlMs)]
    /\ UNCHANGED <<account, rows, now, reused>>

\* Mutant: the old token is not revoked.
Rotate_KeepsOld(h, n) ==
    LET q == req[h] IN
    /\ q.pc = "rotate"
    /\ CreateToken(n, q.user, q.family, q.expiresAt)
    /\ replacedBy' = [replacedBy EXCEPT ![q.token] = n]
    /\ Finish(h)
    /\ UNCHANGED <<account, revoked, now, reused>>

\* The transaction of rotateRefreshToken.  The update names the old token by
\* its id only: it succeeds on a token that was revoked in the meantime.
Rotate(h, n) ==
    LET q == req[h] IN
    /\ q.pc = "rotate"
    /\ CreateToken(n, q.user, q.family, q.expiresAt)
    /\ revoked' = [revoked EXCEPT ![q.token] = TRUE]
    /\ replacedBy' = [replacedBy EXCEPT ![q.token] = n]
    /\ Finish(h)
    /\ UNCHANGED <<account, now, reused>>

-----------------------------------------------------------------------------
(* POST /auth/logout and /auth/logout-all, PATCH /users/:id/deactivate *)

RevokeToken(h, t) ==
    /\ req[h].pc = "idle"
    /\ Exists(t)
    /\ RevokeWhere({t})
    /\ UNCHANGED <<account, req, now, reused>>

\* jwt.strategy has found the caller's account active.
RevokeAllForUser(h, u) ==
    /\ req[h].pc = "idle"
    /\ account[u] = "active"
    /\ RevokeWhere({t \in RefreshTokens : userId[t] = u})
    /\ UNCHANGED <<account, req, now, reused>>

\* deactivate leaves the refresh tokens of the account alone.
Deactivate(h, u) ==
    /\ req[h].pc = "idle"
    /\ account[u] # "none"
    /\ account' = [account EXCEPT ![u] = "disabled"]
    /\ UNCHANGED <<rows, req, now, reused>>

\* A replica dies, or an access throws.
Fail(h) ==
    /\ req[h].pc # "idle"
    /\ Finish(h)
    /\ UNCHANGED <<account, rows, now, reused>>

Tick ==
    /\ now < MaxTime
    /\ now' = now + 1
    /\ UNCHANGED <<account, rows, req, reused>>

Next ==
    \/ \E h \in Handlers, u \in Users : Register(h, u)
    \/ \E h \in Handlers, u \in Users : ValidateCredentials(h, u)
    \/ \E h \in Handlers, t \in RefreshTokens, f \in Families : IssueTokenPair(h, t, f)
    \/ \E h \in Handlers, t \in RefreshTokens : PresentRevoked(h, t)
    \/ \E h \in Handlers : RevokeFamily(h)
    \/ \E h \in Handlers, t \in RefreshTokens : PresentLive(h, t)
    \/ \E h \in Handlers, n \in RefreshTokens : Rotate(h, n)
    \/ \E h \in Handlers, t \in RefreshTokens : RevokeToken(h, t)
    \/ \E h \in Handlers, u \in Users : RevokeAllForUser(h, u)
    \/ \E h \in Handlers, u \in Users : Deactivate(h, u)
    \/ \E h \in Handlers : Fail(h)
    \/ Tick

Spec == Init /\ [][Next]_vars

-----------------------------------------------------------------------------
(* Properties *)

Live(f) == {t \in RefreshTokens : family[t] = f /\ ~revoked[t]}
Opened(f) == \E t \in RefreshTokens : family[t] = f
InRotation(f) == \E h \in Handlers : req[h].pc = "rotate" /\ req[h].family = f

\* The tokens of a family belong to one user, through every rotation.
OneUserPerFamily ==
    \A s, t \in RefreshTokens :
        Exists(s) /\ Exists(t) /\ family[s] = family[t] => userId[s] = userId[t]

\* What replacedByTokenHash records of a rotation is right, also when the same
\* token is rotated twice at once: the token is revoked, its replacement is
\* another token of the family, it lives no shorter, and it was asked for
\* while the old one had not expired.
Lineage ==
    \A t \in RefreshTokens : replacedBy[t] # Null =>
        LET r == replacedBy[t] IN
        /\ r # t /\ Exists(t) /\ Exists(r)
        /\ revoked[t]
        /\ family[r] = family[t]
        /\ expiresAt[t] <= expiresAt[r]
        /\ expiresAt[r] <= expiresAt[t] + refreshTtlMs

\* A session that has ended (reuse, logout or logout-all revoked its last
\* token) never comes back and is not even rotated again, unless a rotation was
\* in flight at that moment (the revoked check of rotateRefreshToken).
SessionsStayEnded ==
    [][\A f \in Families :
         Opened(f) /\ Live(f) = {} /\ ~InRotation(f)
            => Live(f)' = {} /\ ~InRotation(f)']_vars

\* A request in flight that will mint a token for u.
Minting(u) ==
    \E h \in Handlers : req[h].pc \in {"issue", "rotate"} /\ req[h].user = u

\* Once deactivate() has run and the requests that were in flight are through,
\* the account gets no new token by login or rotation, although deactivate()
\* revokes none of those it has.
DisabledGetsNoToken ==
    [][\A u \in Users :
         account[u] = "disabled" /\ ~Minting(u)
            => /\ ~Minting(u)'
               /\ \A t \in RefreshTokens : userId'[t] = u => userId[t] = u]_vars

\* What a handler relies on when it resumes.
RequestJustified(q) ==
    /\ q.pc = "issue" => q.user \in Users
    /\ q.pc = "revokeFamily" => q.family \in Families
    /\ q.pc = "rotate" =>
         /\ q.token \in RefreshTokens /\ Exists(q.token)
         /\ q.user = userId[q.token] /\ q.family = family[q.token]
         /\ expiresAt[q.token] <= q.expiresAt
         /\ q.expiresAt <= expiresAt[q.token] + refreshTtlMs
         /\ q.expiresAt <= now + refreshTtlMs
HandlersJustified == \A h \in Handlers : RequestJustified(req[h])

\* A row is complete, has no replacement before it is inserted, and expires no
\* later than a token minted now would.
RowsWhole ==
    \A t \in RefreshTokens :
        /\ Exists(t) <=> family[t] # Null
        /\ expiresAt[t] <= now + refreshTtlMs
        /\ ~Exists(t) => ~revoked[t] /\ replacedBy[t] = Null

\* The inductive invariant of the proofs.
IInv == TypeOK /\ RowsWhole /\ HandlersJustified /\ OneUserPerFamily /\ Lineage

\* The tokens of a family that replace no other by what the rows say: the one of
\* the login, and one more for each rotation whose link a second rotation of the
\* same token has overwritten.
Unlinked(f) ==
    {t \in RefreshTokens : family[t] = f /\ \A s \in RefreshTokens : replacedBy[s] # t}

\* A rotation revokes "the presented token and mints a new one in the same
\* family" (token.service.ts): a family has one live token, and when overlapping
\* rotations of one token have left it more, then there is a row no rotation is
\* on record for to every one too many.  No live token is without a trace.
LiveTokensTraced ==
    \A f \in Families : Cardinality(Live(f)) <= Cardinality(Unlinked(f))

\* "the entire family is revoked and the user has to log in again everywhere"
\* (token.service.ts): a family on which reuse was detected has no live token.
ReuseEndsSession == \A f \in reused : Live(f) = {}

\* Whatever requests overlap or die, a session is open from its login to its
\* end, a rotation is let through only while it is open, and only a rotation let
\* through before the end can bring it back: TokenService implements Sessions.
SessionOf(f) == IF ~Opened(f) THEN "unused" ELSE IF Live(f) = {} THEN "ended" ELSE "open"
Sessions == INSTANCE Sessions WITH
                session <- [f \in Families |-> SessionOf(f)],
                rotating <- {f \in Families : InRotation(f)}
ImplementsSessions == Sessions!Spec

===============================================================================
