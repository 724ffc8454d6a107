---------------------------- MODULE AccessControl ----------------------------
(***************************************************************************)
(* Who may do what, over the sessions of TokenService: the role an account *)
(* has, the access tokens that claim it, and the services that believe the *)
(* claim (lead-service and ai-orchestrator, here behind the gateway's      *)
(* dashboard) or look the account up again (user-service).                 *)
(*                                                                         *)
(* A call is one authenticated request in flight.  Left out: names and     *)
(* e-mail addresses, what GET /users returns, the user-events topic, which *)
(* nothing reads, and the tokens banking-adapter-mock signs for itself.    *)
(***************************************************************************)
EXTENDS TokenService

CONSTANTS
    Calls,           \* authenticated requests that can be in flight
    RequestedRoles,  \* roles a client may post
    accessTtl        \* jwt.accessTtl

ASSUME AccessTtlAssumption == accessTtl \in Nat \ {0}

VARIABLES
    role,    \* users.role
    mint,    \* the account a login or refresh has read and will sign for
    access,  \* the access tokens that have not expired: user, role, exp
    call,    \* the calls in flight
    seeded,  \* history: the accounts promoted out of band
    held     \* history: when an account was last entitled to a role's claim

acVars == <<role, mint, access, call, seeded>>
allVars == <<vars, acVars, held>>

ASSIGNABLE_ROLES == {"APPLICANT", "LOAN_OFFICER", "UNDERWRITER", "ADMIN"}

NoCall == [op |-> "none", by |-> Null, target |-> Null, role |-> Null]
Dashboard(a, off, profile, leads) ==
    [op |-> "dashboard", by |-> a, off |-> off, profile |-> profile, leads |-> leads]

AcInit ==
    /\ Init
    /\ role = [u \in Users |-> "APPLICANT"]
    /\ mint = [h \in Handlers |-> Null]
    /\ access = {}
    /\ call = [c \in Calls |-> NoCall]
    /\ seeded = {}
    /\ held = [u \in Users |-> [r \in ASSIGNABLE_ROLES |-> 0]]

-----------------------------------------------------------------------------
(* Logins and refreshes: the role that is read, and later signed *)

\* entitled is history.
Reads(h, u) ==
    mint' = [mint EXCEPT ![h] = [user |-> u, role |-> role[u],
                                 entitled |-> account'[u] = "active"]]
Free(h) == mint[h] = Null

\* A login or a registration up to the insert of its refresh token.
Login(h, u) ==
    /\ Free(h)
    /\ Register(h, u) \/ ValidateCredentials(h, u)
    /\ Reads(h, u)
    /\ UNCHANGED <<role, access, call, seeded>>

\* A refresh up to its transaction.
Refresh(h, t) ==
    /\ Free(h)
    /\ PresentLive(h, t)
    /\ Reads(h, userId[t])
    /\ UNCHANGED <<role, access, call, seeded>>

\* The refresh token is stored.
StoreToken(h, t) ==
    /\ Rotate(h, t) \/ \E f \in Families : IssueTokenPair(h, t, f)
    /\ UNCHANGED acVars

\* signAccessToken(), once the insert or the transaction has returned: the role
\* is the one that was read before it.
SignAccessToken(h) ==
    /\ ~Free(h) /\ req[h].pc = "idle"
    /\ access' = access \cup {[user |-> mint[h].user, role |-> mint[h].role,
                               exp |-> now + accessTtl]}
    /\ mint' = [mint EXCEPT ![h] = Null]
    /\ UNCHANGED <<vars, role, call, seeded>>

\* The handler dies, before or after its refresh token is stored.
LoginFails(h) ==
    /\ ~Free(h)
    /\ Fail(h) \/ (req[h].pc = "idle" /\ UNCHANGED vars)
    /\ mint' = [mint EXCEPT ![h] = Null]
    /\ UNCHANGED <<role, access, call, seeded>>

\* The handlers that sign nothing.
EndSession(h) ==
    /\ Free(h)
    /\ \/ RevokeFamily(h) \/ Fail(h)
       \/ \E t \in RefreshTokens : PresentRevoked(h, t) \/ RevokeToken(h, t)
       \/ \E a \in access : RevokeAllForUser(h, a.user)
    /\ UNCHANGED acVars

\* Time goes on, and tokens expire: the services check "exp" on every request.
Expire ==
    /\ Tick
    /\ access' = {a \in access : now' < a.exp}
    /\ UNCHANGED <<role, mint, call, seeded>>

-----------------------------------------------------------------------------
(* user-service: /users *)

\* @Roles() of the endpoints; without them any account will do.
requiredRoles ==
    [getMe |-> {}, updateMe |-> {},
     list |-> {"ADMIN", "LOAN_OFFICER", "UNDERWRITER"},
     getById |-> {"ADMIN", "LOAN_OFFICER", "UNDERWRITER", "SYSTEM"},
     assignRole |-> {"ADMIN"}, deactivate |-> {"ADMIN"}]

\* Mutant: any valid token will do.
validate_AnyToken(a) == TRUE

\* The jwt strategy of user-service, for the token of an account: it is looked up for
\* every request.  A SYSTEM token has none and no token in access is one
\* (NoSelfServiceAdmin), so the strategy's branch for them is not modelled.
validate(a) == account[a.user] = "active"

\* The roles guard, with the role the account has now.
canActivate(a, roles) == validate(a) /\ (roles = {} \/ role[a.user] \in roles)

findByIdOrThrow(u) == account[u] # "none"

\* Mutant: no @Roles().
Authorize_NoRoles(c, a, op, u, r) ==
    /\ call[c] = NoCall
    /\ a \in access /\ validate(a)
    /\ op = "assignRole" => r \in ASSIGNABLE_ROLES
    /\ call' = [call EXCEPT ![c] = [op |-> op, by |-> a, target |-> u, role |-> r]]
    /\ UNCHANGED <<vars, role, mint, access, seeded>>

\* The guards and the DTO.
Authorize(c, a, op, u, r) ==
    /\ call[c] = NoCall
    /\ a \in access /\ canActivate(a, requiredRoles[op])
    /\ op = "assignRole" => r \in ASSIGNABLE_ROLES
    /\ call' = [call EXCEPT ![c] = [op |-> op, by |-> a, target |-> u, role |-> r]]
    /\ UNCHANGED <<vars, role, mint, access, seeded>>

ReadUsers(a, op) == canActivate(a, requiredRoles[op]) /\ UNCHANGED <<vars, acVars>>

\* updateProfile() writes the names of the account, and nothing else.
UpdateProfile(c) ==
    /\ call[c].op = "updateMe" /\ findByIdOrThrow(call[c].target)
    /\ call' = [call EXCEPT ![c] = NoCall]
    /\ UNCHANGED <<vars, role, mint, access, seeded>>

\* Mutant: the other columns are written, too.
SetRole_WholeRow(c) ==
    /\ call[c].op = "assignRole" /\ findByIdOrThrow(call[c].target)
    /\ role' = [role EXCEPT ![call[c].target] = call[c].role]
    /\ account' = [account EXCEPT ![call[c].target] = "active"]
    /\ call' = [call EXCEPT ![c] = NoCall]
    /\ UNCHANGED <<rows, req, now, reused, mint, access, seeded>>

\* setRole(): the account is there, and one column is written.
SetRole(c) ==
    /\ call[c].op = "assignRole" /\ findByIdOrThrow(call[c].target)
    /\ role' = [role EXCEPT ![call[c].target] = call[c].role]
    /\ call' = [call EXCEPT ![c] = NoCall]
    /\ UNCHANGED <<vars, mint, access, seeded>>

\* deactivate(): the tokens of the account are left alone.
DeactivateUser(c) ==
    /\ call[c].op = "deactivate" /\ findByIdOrThrow(call[c].target)
    /\ account' = [account EXCEPT ![call[c].target] = "disabled"]
    /\ call' = [call EXCEPT ![c] = NoCall]
    /\ UNCHANGED <<rows, req, now, reused, role, mint, access, seeded>>

\* No such account, an access throws, or a replica dies.
CallFails(c) ==
    /\ call[c] # NoCall
    /\ call' = [call EXCEPT ![c] = NoCall]
    /\ UNCHANGED <<vars, role, mint, access, seeded>>

\* Outside the code: a script promotes an account.  Bound: once.
Seed(u) ==
    /\ seeded = {} /\ account[u] # "none"
    /\ role' = [role EXCEPT ![u] = "ADMIN"]
    /\ seeded' = {u}
    /\ UNCHANGED <<vars, mint, access, call>>

-----------------------------------------------------------------------------
(* api-gateway: GET /dashboard/me *)

\* The gateway believes a token that verifies, and asks two services with it.
GetMyDashboard(c, a) ==
    /\ call[c] = NoCall
    /\ a \in access
    /\ call' = [call EXCEPT ![c] =
                  Dashboard(a, account[a.user] # "active", "wait", "wait")]
    /\ UNCHANGED <<vars, role, mint, access, seeded>>

\* An upstream that refuses or is down fails its own section only.
fetchJson(s, accepted) == s = "ok" => accepted

\* GET /users/me
FetchProfile(c, s) ==
    LET q == call[c] IN
    /\ q.op = "dashboard" /\ q.profile = "wait"
    /\ fetchJson(s, q.by \in access /\ validate(q.by))
    /\ call' = [call EXCEPT ![c] = Dashboard(q.by, q.off, s, q.leads)]
    /\ UNCHANGED <<vars, role, mint, access, seeded>>

\* GET /leads/mine: lead-service looks at the token only.
FetchLeads(c, s) ==
    LET q == call[c] IN
    /\ q.op = "dashboard" /\ q.leads = "wait"
    /\ fetchJson(s, q.by \in access)
    /\ call' = [call EXCEPT ![c] = Dashboard(q.by, q.off, q.profile, s)]
    /\ UNCHANGED <<vars, role, mint, access, seeded>>

\* Both are in: the response is sent.
SendDashboard(c) ==
    /\ call[c].op = "dashboard" /\ "wait" \notin {call[c].profile, call[c].leads}
    /\ call' = [call EXCEPT ![c] = NoCall]
    /\ UNCHANGED <<vars, role, mint, access, seeded>>

-----------------------------------------------------------------------------

\* u has role r, or a login or refresh is under way that read it then.
Entitled(u, r) ==
    \/ account[u] = "active" /\ role[u] = r
    \/ \E h \in Handlers : mint[h] = [user |-> u, role |-> r, entitled |-> TRUE]

Step ==
    \/ \E h \in Handlers, u \in Users : Login(h, u)
    \/ \E h \in Handlers, t \in RefreshTokens : Refresh(h, t)
    \/ \E h \in Handlers, t \in RefreshTokens : StoreToken(h, t)
    \/ \E h \in Handlers : SignAccessToken(h)
    \/ \E h \in Handlers : LoginFails(h)
    \/ \E h \in Handlers : EndSession(h)
    \/ \E c \in Calls, a \in access, u \in Users, r \in RequestedRoles :
          Authorize(c, a, "assignRole", u, r)
    \/ \E c \in Calls, a \in access, u \in Users : Authorize(c, a, "deactivate", u, Null)
    \/ \E c \in Calls, a \in access : Authorize(c, a, "updateMe", a.user, Null)
    \/ \E a \in access, op \in {"getMe", "list", "getById"} : ReadUsers(a, op)
    \/ \E c \in Calls : UpdateProfile(c)
    \/ \E c \in Calls : SetRole(c)
    \/ \E c \in Calls : DeactivateUser(c)
    \/ \E c \in Calls, a \in access : GetMyDashboard(c, a)
    \/ \E c \in Calls, s \in {"ok", "failed"} : FetchProfile(c, s)
    \/ \E c \in Calls, s \in {"ok", "failed"} : FetchLeads(c, s)
    \/ \E c \in Calls : SendDashboard(c)
    \/ \E c \in Calls : CallFails(c)
    \/ \E u \in Users : Seed(u)
    \/ Expire

AcNext ==
    /\ Step
    /\ held' = [u \in Users |-> [r \in ASSIGNABLE_ROLES |->
                  IF Entitled(u, r)' THEN now' ELSE held[u][r]]]

AcSpec == AcInit /\ [][AcNext]_allVars

-----------------------------------------------------------------------------
(* Properties *)

\* "a deactivated user stays valid until their access token naturally expires"
\* (lead-service, configuration.ts), and no longer, and so does a role that was
\* taken away: no token outlives, by more than its ttl, the last moment at which
\* its user had the role it claims or a login or refresh that had read it was
\* still under way (signAccessToken(), validate() of lead-service).
ClaimsExpire ==
    \A a \in access : a.exp <= held[a.user][a.role] + accessTtl

\* "the API itself has no self-service path to ADMIN" (users.e2e-spec.ts): no
\* sequence of requests makes an administrator before one was made out of band,
\* and none gives an account or a token the role SYSTEM.
NoSelfServiceAdmin ==
    \A r \in {role[u] : u \in Users} \cup {a.role : a \in access} :
        r \in ASSIGNABLE_ROLES /\ (r = "ADMIN" => seeded # {})

\* A deactivated account stays deactivated: no login or refresh that overlaps with
\* deactivate(), and no role change that comes after it, brings it back.
DeactivationSticks ==
    [][\A u \in Users : account[u] = "disabled" => account'[u] = "disabled"]_allVars

\* user-service is closed to a deactivated account at once, with whatever token,
\* through the gateway, too, which goes by the token alone: a dashboard asked for
\* after deactivate() has no profile (validate() of user-service, fetchJson()).
LockedOut ==
    \A c \in Calls : call[c].op = "dashboard" /\ call[c].off => call[c].profile # "ok"

===============================================================================
