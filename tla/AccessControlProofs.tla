-------------------------- MODULE AccessControlProofs --------------------------
(* Proofs about AccessControl, for any users, requests and calls in flight.  *)
EXTENDS AccessControl, TokenServiceProofs

Claim == [user : Users, role : ASSIGNABLE_ROLES, exp : Nat]
Mint == [user : Users, role : ASSIGNABLE_ROLES, entitled : {TRUE}]

RoleCall == [op : {"assignRole"}, by : Claim, target : Users, role : ASSIGNABLE_ROLES]
UserCall == [op : {"deactivate", "updateMe"}, by : Claim, target : Users, role : {Null}]
DashboardCall == [op : {"dashboard"}, by : Claim, off : BOOLEAN,
                  profile : {"wait", "ok", "failed"}, leads : {"wait", "ok", "failed"}]

AcTypeOK ==
    /\ role \in [Users -> ASSIGNABLE_ROLES]
    /\ mint \in [Handlers -> Mint \cup {Null}]
    /\ access \subseteq Claim
    /\ call \in [Calls -> RoleCall \cup UserCall \cup DashboardCall \cup {NoCall}]
    /\ seeded \subseteq Users
    /\ held \in [Users -> [ASSIGNABLE_ROLES -> Nat]]

\* A login, a refresh or an access token names an account that exists.
AccountsKnown ==
    /\ \A h \in Handlers : mint[h] # Null => account[mint[h].user] # "none"
    /\ \A a \in access : account[a.user] # "none"

\* Before the first promotion out of band nothing in flight leads to ADMIN.
NoAdminYet ==
    seeded = {} =>
        /\ \A u \in Users : role[u] # "ADMIN"
        /\ \A h \in Handlers : mint[h] # Null => mint[h].role # "ADMIN"
        /\ \A a \in access : a.role # "ADMIN"
        /\ \A c \in Calls : call[c].op # "assignRole"

\* A dashboard that was asked for with a shut account's token: it is still shut.
OffIsDisabled ==
    \A c \in Calls : call[c].op = "dashboard" /\ call[c].off =>
        account[call[c].by.user] = "disabled" /\ call[c].profile # "ok"

\* held is the last moment of entitlement: now, as long as it lasts.
HeldIsLast ==
    \A u \in Users, r \in ASSIGNABLE_ROLES :
        held[u][r] <= now /\ (Entitled(u, r) => held[u][r] = now)

\* The inductive invariant.
AcInv == /\ IInv /\ AcTypeOK /\ AccountsKnown /\ NoAdminYet /\ OffIsDisabled
         /\ HeldIsLast /\ ClaimsExpire

-----------------------------------------------------------------------------
(* Initial states, and the sessions under the new actions *)

\* The invariant holds initially.
LEMMA AcInitInv == AcInit => AcInv
<1> SUFFICES ASSUME AcInit PROVE AcInv
  OBVIOUS
<1>1. IInv
  BY InitIInv DEF AcInit
<1>2. AcTypeOK
  BY DEF AcInit, AcTypeOK, ASSIGNABLE_ROLES
<1>3. AccountsKnown /\ NoAdminYet /\ OffIsDisabled /\ ClaimsExpire
  BY DEF AcInit, Init, AccountsKnown, NoAdminYet, OffIsDisabled, ClaimsExpire, NoCall
<1>4. HeldIsLast
  BY DEF AcInit, Init, HeldIsLast
<1> QED
  BY <1>1, <1>2, <1>3, <1>4 DEF AcInv

\* The calls in flight, by their kind.
LEMMA CallKinds ==
    ASSUME AcTypeOK, NEW c \in Calls
    PROVE  /\ call[c].op = "none" => call[c] = NoCall
           /\ call[c].op = "assignRole" => call[c] \in RoleCall
           /\ call[c].op \in {"deactivate", "updateMe"} => call[c] \in UserCall
           /\ call[c].op = "dashboard" => call[c] \in DashboardCall
           /\ call[c] # NoCall => call[c].op # "none"
  BY DEF AcTypeOK, NoCall, RoleCall, UserCall, DashboardCall

\* A step of AccessControl is a step of TokenService, or shuts an account.
LEMMA StepProjects ==
    ASSUME AcTypeOK, Step
    PROVE  \/ [Next]_vars
           \/ /\ UNCHANGED <<rows, req, now, reused>>
              /\ \E u \in Users : /\ account[u] # "none"
                                  /\ account' = [account EXCEPT ![u] = "disabled"]
<1>1. ASSUME NEW c \in Calls, DeactivateUser(c)
      PROVE  /\ UNCHANGED <<rows, req, now, reused>>
             /\ \E u \in Users : /\ account[u] # "none"
                                 /\ account' = [account EXCEPT ![u] = "disabled"]
  <2>1. call[c].target \in Users
    BY <1>1, CallKinds DEF DeactivateUser, UserCall
  <2> QED
    BY <1>1, <2>1 DEF DeactivateUser, findByIdOrThrow
<1>2. ASSUME NEW h \in Handlers, EndSession(h)
      PROVE  Next
  <2>1. \A a \in access : a.user \in Users
    BY DEF AcTypeOK, Claim
  <2> QED
    BY <1>2, <2>1 DEF EndSession, Next
<1>3. ASSUME NEW h \in Handlers,
             \/ \E u \in Users : Login(h, u)
             \/ \E t \in RefreshTokens : Refresh(h, t) \/ StoreToken(h, t)
             \/ LoginFails(h)
      PROVE  [Next]_vars
  BY <1>3 DEF Login, Refresh, StoreToken, LoginFails, Next
<1>4. Expire => Next
  BY DEF Expire, Next
<1>5. ASSUME NEW c \in Calls,
             \/ \E a \in access, u \in Users, r \in RequestedRoles \cup {Null} :
                  \E op \in {"assignRole", "deactivate", "updateMe"} : Authorize(c, a, op, u, r)
             \/ \E a \in access : GetMyDashboard(c, a)
             \/ \E s \in {"ok", "failed"} : FetchProfile(c, s) \/ FetchLeads(c, s)
             \/ UpdateProfile(c) \/ SetRole(c) \/ SendDashboard(c) \/ CallFails(c)
      PROVE  UNCHANGED vars
  BY <1>5 DEF Authorize, GetMyDashboard, FetchProfile, FetchLeads, UpdateProfile, SetRole,
              SendDashboard, CallFails
<1>6. \A a \in access : a.user \in Users
  BY DEF AcTypeOK, Claim
<1>7. ASSUME \/ \E h \in Handlers : SignAccessToken(h)
             \/ \E a \in access, op \in {"getMe", "list", "getById"} : ReadUsers(a, op)
             \/ \E u \in Users : Seed(u)
      PROVE  UNCHANGED vars
  BY <1>7 DEF SignAccessToken, ReadUsers, Seed
<1> QED
  BY <1>1, <1>2, <1>3, <1>4, <1>5, <1>6, <1>7 DEF Step

\* The invariant of TokenService goes on holding.
LEMMA SessionsIInv ==
    ASSUME IInv, AcTypeOK, Step
    PROVE  IInv'
<1>1. ASSUME UNCHANGED <<rows, req, now, reused>>, NEW u \in Users,
             account' = [account EXCEPT ![u] = "disabled"]
      PROVE  IInv'
  BY <1>1 DEF IInv, TypeOK, RowsWhole, HandlersJustified, RequestJustified, OneUserPerFamily,
              Lineage, rows, Exists
<1> QED
  BY <1>1, NextIInv, StepProjects

\* No account ever goes, and none that is shut is opened again.
LEMMA AccountsMove ==
    ASSUME IInv, AcTypeOK, Step
    PROVE  \A u \in Users : /\ account[u] # "none" => account'[u] # "none"
                            /\ account[u] = "disabled" => account'[u] = "disabled"
<1>1. TypeOK
  BY DEF IInv
<1>2. [Next]_vars => \/ account' = account
                     \/ \E u \in Users :
                           \/ account[u] = "none" /\ account' = [account EXCEPT ![u] = "active"]
                           \/ account[u] # "none" /\ account' = [account EXCEPT ![u] = "disabled"]
  BY DEF Next, vars, Register, ValidateCredentials, IssueTokenPair, PresentRevoked, RevokeFamily,
         PresentLive, Rotate, RevokeToken, RevokeAllForUser, Deactivate, Fail, Tick
<1> QED
  BY <1>1, <1>2, StepProjects DEF TypeOK

-----------------------------------------------------------------------------
(* What a step does to logins, tokens, roles and calls *)

\* A login or refresh that begins has read the role of an active account.
LEMMA MintMoves ==
    ASSUME AcTypeOK, IInv, Step
    PROVE  \A h \in Handlers :
              \/ mint'[h] = mint[h]
              \/ mint'[h] = Null
              \/ \E u \in Users : /\ mint'[h] = [user |-> u, role |-> role[u], entitled |-> TRUE]
                                  /\ account'[u] = "active" /\ UNCHANGED <<role, seeded>>
<1>1. mint \in [Handlers -> Mint \cup {Null}]
  BY DEF AcTypeOK
<1>2. ASSUME NEW h \in Handlers, NEW u \in Users, account'[u] = "active", Reads(h, u),
             UNCHANGED <<role, seeded>>
      PROVE  \A g \in Handlers :
               \/ mint'[g] = mint[g]
               \/ /\ mint'[g] = [user |-> u, role |-> role[u], entitled |-> TRUE]
                  /\ account'[u] = "active" /\ UNCHANGED <<role, seeded>>
  BY <1>1, <1>2 DEF Reads
<1>3. ASSUME NEW h \in Handlers, NEW u \in Users, Login(h, u)
      PROVE  account'[u] = "active" /\ Reads(h, u) /\ UNCHANGED <<role, seeded>>
  BY <1>3 DEF Login, Register, ValidateCredentials, IInv, TypeOK
<1>4. ASSUME NEW h \in Handlers, NEW t \in RefreshTokens, Refresh(h, t)
      PROVE  /\ userId[t] \in Users /\ account'[userId[t]] = "active"
             /\ Reads(h, userId[t]) /\ UNCHANGED <<role, seeded>>
  BY <1>4 DEF Refresh, PresentLive, IInv, TypeOK, Exists
<1>5. ASSUME NEW h \in Handlers, SignAccessToken(h) \/ LoginFails(h)
      PROVE  \A g \in Handlers : mint'[g] \in {mint[g], Null}
  BY <1>1, <1>5 DEF SignAccessToken, LoginFails
<1>6. \/ \E h \in Handlers, u \in Users : Login(h, u)
      \/ \E h \in Handlers, t \in RefreshTokens : Refresh(h, t)
      \/ \E h \in Handlers : SignAccessToken(h) \/ LoginFails(h)
      \/ UNCHANGED mint
  BY DEF Step, StoreToken, EndSession, Authorize, ReadUsers, UpdateProfile, SetRole,
         DeactivateUser, GetMyDashboard, FetchProfile, FetchLeads, SendDashboard, CallFails,
         Seed, Expire, acVars
<1>7. ASSUME NEW h \in Handlers, NEW u \in Users, Login(h, u)
      PROVE  \A g \in Handlers :
               \/ mint'[g] = mint[g]
               \/ \E v \in Users : /\ mint'[g] = [user |-> v, role |-> role[v], entitled |-> TRUE]
                                   /\ account'[v] = "active" /\ UNCHANGED <<role, seeded>>
  BY <1>2, <1>3, <1>7
<1>8. ASSUME NEW h \in Handlers, NEW t \in RefreshTokens, Refresh(h, t)
      PROVE  \A g \in Handlers :
               \/ mint'[g] = mint[g]
               \/ \E v \in Users : /\ mint'[g] = [user |-> v, role |-> role[v], entitled |-> TRUE]
                                   /\ account'[v] = "active" /\ UNCHANGED <<role, seeded>>
  BY <1>2, <1>4, <1>8
<1> QED
  BY <1>5, <1>6, <1>7, <1>8

\* A new access token says what its login or refresh had read.
LEMMA AccessMoves ==
    ASSUME AcTypeOK, Step
    PROVE  \A a \in access' :
              \/ a \in access
              \/ /\ \E h \in Handlers : /\ mint[h] # Null
                                        /\ a = [user |-> mint[h].user, role |-> mint[h].role,
                                                exp |-> now + accessTtl]
                 /\ UNCHANGED <<now, role, seeded>>
  BY DEF Step, Login, Refresh, StoreToken, SignAccessToken, LoginFails, EndSession, Authorize,
         ReadUsers, UpdateProfile, SetRole, DeactivateUser, GetMyDashboard, FetchProfile,
         FetchLeads, SendDashboard, CallFails, Seed, Expire, acVars, Free, vars

\* A role is written out of band, or by a call that the guards let through.
LEMMA RolesMove ==
    ASSUME AcTypeOK, Step
    PROVE  \/ UNCHANGED <<role, seeded>>
           \/ \E u \in Users : /\ role' = [role EXCEPT ![u] = "ADMIN"] /\ seeded' = {u}
           \/ \E c \in Calls : /\ call[c] \in RoleCall /\ call[c].op = "assignRole"
                               /\ role' = [role EXCEPT ![call[c].target] = call[c].role]
                               /\ seeded' = seeded
<1>1. \/ UNCHANGED <<role, seeded>>
      \/ \E u \in Users : Seed(u)
      \/ \E c \in Calls : SetRole(c)
  BY DEF Step, Login, Refresh, StoreToken, SignAccessToken, LoginFails, EndSession, Authorize,
         ReadUsers, UpdateProfile, DeactivateUser, GetMyDashboard, FetchProfile, FetchLeads,
         SendDashboard, CallFails, Expire, acVars
<1> QED
  BY <1>1, CallKinds DEF Seed, SetRole

\* What the guards let through is what they were asked, by the account's role.
LEMMA CallsMove ==
    ASSUME AcTypeOK, Step
    PROVE  \A c \in Calls :
              \/ call'[c] = call[c]
              \/ call'[c] = NoCall
              \/ call'[c] \in UserCall
              \/ call'[c] \in RoleCall /\ \E u \in Users : role[u] = "ADMIN"
              \/ /\ call'[c] \in DashboardCall
                 /\ \/ \E a \in access : call'[c] = Dashboard(a, account[a.user] # "active", "wait", "wait")
                    \/ /\ call[c] \in DashboardCall /\ call'[c].by = call[c].by
                       /\ call'[c].off = call[c].off
                       /\ \/ call'[c].profile = call[c].profile
                          \/ call'[c].profile = "ok" => account[call[c].by.user] = "active"
<1>0. /\ call \in [Calls -> RoleCall \cup UserCall \cup DashboardCall \cup {NoCall}]
      /\ access \subseteq Claim
  BY DEF AcTypeOK
<1>1. ASSUME NEW c \in Calls, NEW a \in access, NEW u \in Users, NEW r \in RequestedRoles,
             Authorize(c, a, "assignRole", u, r)
      PROVE  /\ \A d \in Calls : d # c => call'[d] = call[d]
             /\ call'[c] \in RoleCall /\ \E v \in Users : role[v] = "ADMIN"
  <2>1. requiredRoles["assignRole"] = {"ADMIN"}
    BY DEF requiredRoles
  <2>2. a \in Claim /\ a.user \in Users /\ role[a.user] = "ADMIN" /\ r \in ASSIGNABLE_ROLES
    BY <1>0, <1>1, <2>1 DEF Authorize, canActivate, Claim
  <2> QED
    BY <1>0, <1>1, <2>2 DEF Authorize, RoleCall
<1>2. ASSUME NEW c \in Calls, NEW a \in access, NEW u \in Users,
             NEW op \in {"deactivate", "updateMe"}, Authorize(c, a, op, u, Null)
      PROVE  /\ \A d \in Calls : d # c => call'[d] = call[d]
             /\ call'[c] \in UserCall
  BY <1>0, <1>2 DEF Authorize, UserCall
<1>3. ASSUME NEW c \in Calls, NEW a \in access, GetMyDashboard(c, a)
      PROVE  /\ \A d \in Calls : d # c => call'[d] = call[d]
             /\ call'[c] = Dashboard(a, account[a.user] # "active", "wait", "wait")
             /\ call'[c] \in DashboardCall
  <2> DEFINE off == account[a.user] # "active"
  <2>1. a \in Claim /\ off \in BOOLEAN
    BY <1>0
  <2>2. call' = [call EXCEPT ![c] = Dashboard(a, off, "wait", "wait")]
    BY <1>3 DEF GetMyDashboard
  <2> HIDE DEF off
  <2>3. Dashboard(a, off, "wait", "wait") \in DashboardCall
    BY <2>1 DEF Dashboard, DashboardCall
  <2>4. /\ \A d \in Calls : d # c => call'[d] = call[d]
        /\ call'[c] = Dashboard(a, off, "wait", "wait")
    BY <1>0, <2>2
  <2> QED
    BY <2>3, <2>4 DEF off
<1>4. ASSUME NEW c \in Calls, NEW s \in {"ok", "failed"}, FetchProfile(c, s) \/ FetchLeads(c, s)
      PROVE  /\ \A d \in Calls : d # c => call'[d] = call[d]
             /\ call[c] \in DashboardCall /\ call'[c] \in DashboardCall
             /\ call'[c].by = call[c].by /\ call'[c].off = call[c].off
             /\ \/ call'[c].profile = call[c].profile
                \/ call'[c].profile = "ok" => account[call[c].by.user] = "active"
  <2>1. call[c] \in DashboardCall
    BY <1>4, CallKinds DEF FetchProfile, FetchLeads
  <2>2. CASE FetchProfile(c, s)
    BY <1>0, <2>1, <2>2 DEF FetchProfile, Dashboard, DashboardCall, fetchJson, validate
  <2>3. CASE FetchLeads(c, s)
    BY <1>0, <2>1, <2>3 DEF FetchLeads, Dashboard, DashboardCall
  <2> QED
    BY <1>4, <2>1, <2>2, <2>3
<1>5. ASSUME NEW c \in Calls,
             UpdateProfile(c) \/ SetRole(c) \/ DeactivateUser(c) \/ SendDashboard(c) \/ CallFails(c)
      PROVE  \A d \in Calls : call'[d] \in {call[d], NoCall}
  BY <1>0, <1>5 DEF UpdateProfile, SetRole, DeactivateUser, SendDashboard, CallFails
<1>6. ASSUME \/ \E h \in Handlers, u \in Users : Login(h, u)
             \/ \E h \in Handlers, t \in RefreshTokens : Refresh(h, t) \/ StoreToken(h, t)
             \/ \E h \in Handlers : SignAccessToken(h) \/ LoginFails(h) \/ EndSession(h)
             \/ \E a \in access, op \in {"getMe", "list", "getById"} : ReadUsers(a, op)
             \/ \E u \in Users : Seed(u)
             \/ Expire
      PROVE  call' = call
  BY <1>6 DEF Login, Refresh, StoreToken, SignAccessToken, LoginFails, EndSession, ReadUsers,
              Seed, Expire, acVars
<1>7. \A a \in access : a.user \in Users
  BY <1>0 DEF Claim
<1>8. ASSUME NEW c \in Calls,
             \/ \E a \in access, u \in Users, r \in RequestedRoles : Authorize(c, a, "assignRole", u, r)
             \/ \E a \in access, u \in Users : Authorize(c, a, "deactivate", u, Null)
             \/ \E a \in access : Authorize(c, a, "updateMe", a.user, Null)
             \/ \E a \in access : GetMyDashboard(c, a)
             \/ \E s \in {"ok", "failed"} : FetchProfile(c, s) \/ FetchLeads(c, s)
             \/ UpdateProfile(c) \/ SetRole(c) \/ DeactivateUser(c) \/ SendDashboard(c) \/ CallFails(c)
      PROVE  \A d \in Calls :
              \/ call'[d] = call[d]
              \/ call'[d] = NoCall
              \/ call'[d] \in UserCall
              \/ call'[d] \in RoleCall /\ \E u \in Users : role[u] = "ADMIN"
              \/ /\ call'[d] \in DashboardCall
                 /\ \/ \E a \in access : call'[d] = Dashboard(a, account[a.user] # "active", "wait", "wait")
                    \/ /\ call[d] \in DashboardCall /\ call'[d].by = call[d].by
                       /\ call'[d].off = call[d].off
                       /\ \/ call'[d].profile = call[d].profile
                          \/ call'[d].profile = "ok" => account[call[d].by.user] = "active"
  BY <1>1, <1>2, <1>3, <1>4, <1>5, <1>7, <1>8
<1> QED
  BY <1>6, <1>8 DEF Step

-----------------------------------------------------------------------------
(* Every step preserves the invariant *)

\* Types.
LEMMA AcTypes ==
    ASSUME AcInv, AcNext
    PROVE  AcTypeOK'
<1> USE DEF AcInv
<1>1. Step /\ AcTypeOK /\ IInv /\ now \in Nat /\ now' \in Nat
  BY SessionsIInv DEF AcNext, IInv, TypeOK
<1>2. role' \in [Users -> ASSIGNABLE_ROLES] /\ seeded' \subseteq Users
  BY <1>1, RolesMove DEF AcTypeOK, RoleCall, ASSIGNABLE_ROLES
<1>3. mint' \in [Handlers -> Mint \cup {Null}]
  <2>1. mint' = [h \in Handlers |-> mint'[h]]
    BY <1>1 DEF AcTypeOK, Step, Login, Refresh, StoreToken, SignAccessToken, LoginFails, EndSession,
         Authorize, ReadUsers, UpdateProfile, SetRole, DeactivateUser, GetMyDashboard, FetchProfile,
         FetchLeads, SendDashboard, CallFails, Seed, Expire, acVars, Reads
  <2>2. ASSUME NEW h \in Handlers
        PROVE  mint'[h] \in Mint \cup {Null}
    <3>1. ASSUME NEW u \in Users, mint'[h] = [user |-> u, role |-> role[u], entitled |-> TRUE]
          PROVE  mint'[h] \in Mint
      <4>1. role[u] \in ASSIGNABLE_ROLES
        BY <1>1 DEF AcTypeOK
      <4> QED
        BY <3>1, <4>1 DEF Mint
    <3>2. mint[h] \in Mint \cup {Null}
      BY <1>1 DEF AcTypeOK
    <3> QED
      BY <1>1, <3>1, <3>2, MintMoves
  <2> QED
    BY <2>1, <2>2
<1>4. access' \subseteq Claim
  <2>1. ASSUME NEW a, NEW h \in Handlers, mint[h] # Null,
               a = [user |-> mint[h].user, role |-> mint[h].role, exp |-> now + accessTtl]
        PROVE  a \in Claim
    <3>1. mint[h] \in Mint
      BY <1>1, <2>1 DEF AcTypeOK
    <3>2. mint[h].user \in Users /\ mint[h].role \in ASSIGNABLE_ROLES
      BY <3>1 DEF Mint
    <3>3. now + accessTtl \in Nat
      BY <1>1, AccessTtlAssumption
    <3> QED
      BY <2>1, <3>2, <3>3 DEF Claim
  <2>2. access \subseteq Claim
    BY <1>1 DEF AcTypeOK
  <2> QED
    BY <1>1, <2>1, <2>2, AccessMoves
<1>5. call' \in [Calls -> RoleCall \cup UserCall \cup DashboardCall \cup {NoCall}]
  <2>1. call' = [c \in Calls |-> call'[c]]
    BY <1>1 DEF AcTypeOK, Step, Login, Refresh, StoreToken, SignAccessToken, LoginFails, EndSession,
         Authorize, ReadUsers, UpdateProfile, SetRole, DeactivateUser, GetMyDashboard, FetchProfile,
         FetchLeads, SendDashboard, CallFails, Seed, Expire, acVars
  <2>2. \A c \in Calls : call'[c] \in RoleCall \cup UserCall \cup DashboardCall \cup {NoCall}
    BY <1>1, CallsMove DEF AcTypeOK
  <2> QED
    BY <2>1, <2>2
<1>6. held' \in [Users -> [ASSIGNABLE_ROLES -> Nat]]
  BY <1>1 DEF AcTypeOK, AcNext
<1> QED
  BY <1>2, <1>3, <1>4, <1>5, <1>6 DEF AcTypeOK

\* Whom the tokens name is an account.
LEMMA AcAccounts ==
    ASSUME AcInv, AcNext
    PROVE  AccountsKnown'
<1> USE DEF AcInv
<1>1. Step /\ AcTypeOK /\ IInv
  BY DEF AcNext
<1>2. \A h \in Handlers : mint'[h] # Null => account'[mint'[h].user] # "none"
  <2> SUFFICES ASSUME NEW h \in Handlers, mint'[h] # Null
               PROVE  account'[mint'[h].user] # "none"
    OBVIOUS
  <2>1. CASE mint'[h] = mint[h]
    <3>1. mint[h].user \in Users /\ account[mint[h].user] # "none"
      BY <1>1, <2>1 DEF AcTypeOK, Mint, AccountsKnown
    <3> QED
      BY <1>1, <2>1, <3>1, AccountsMove
  <2>2. ASSUME NEW u \in Users, mint'[h] = [user |-> u, role |-> role[u], entitled |-> TRUE],
               account'[u] = "active"
        PROVE  account'[mint'[h].user] # "none"
    BY <2>2
  <2> QED
    BY <1>1, <2>1, <2>2, MintMoves
<1>3. \A a \in access' : account'[a.user] # "none"
  <2> SUFFICES ASSUME NEW a \in access'
               PROVE  account'[a.user] # "none"
    OBVIOUS
  <2>1. CASE a \in access
    <3>1. a.user \in Users /\ account[a.user] # "none"
      BY <1>1, <2>1 DEF AcTypeOK, Claim, AccountsKnown
    <3> QED
      BY <1>1, <3>1, AccountsMove
  <2>2. ASSUME NEW h \in Handlers, mint[h] # Null, a.user = mint[h].user
        PROVE  account'[a.user] # "none"
    <3>1. mint[h].user \in Users /\ account[mint[h].user] # "none"
      BY <1>1, <2>2 DEF AcTypeOK, Mint, AccountsKnown
    <3> QED
      BY <1>1, <2>2, <3>1, AccountsMove
  <2>3. \/ a \in access
        \/ \E h \in Handlers : mint[h] # Null /\ a.user = mint[h].user
    BY <1>1, AccessMoves
  <2> QED
    BY <2>1, <2>2, <2>3
<1> QED
  BY <1>2, <1>3 DEF AccountsKnown

\* Until an administrator is made out of band, nothing in flight makes one.
LEMMA AcNoAdmin ==
    ASSUME AcInv, AcNext
    PROVE  NoAdminYet'
<1> USE DEF AcInv
<1> SUFFICES ASSUME seeded' = {}
             PROVE  /\ \A u \in Users : role'[u] # "ADMIN"
                    /\ \A h \in Handlers : mint'[h] # Null => mint'[h].role # "ADMIN"
                    /\ \A a \in access' : a.role # "ADMIN"
                    /\ \A c \in Calls : call'[c].op # "assignRole"
  BY DEF NoAdminYet
<1>1. Step /\ AcTypeOK /\ IInv
  BY DEF AcNext
<1>2. seeded = {} /\ role' = role
  BY <1>1, RolesMove DEF NoAdminYet
<1>3. /\ \A u \in Users : role[u] # "ADMIN"
      /\ \A h \in Handlers : mint[h] # Null => mint[h].role # "ADMIN"
      /\ \A a \in access : a.role # "ADMIN"
      /\ \A c \in Calls : call[c].op # "assignRole"
  BY <1>2 DEF NoAdminYet
<1>4. \A h \in Handlers : mint'[h] # Null => mint'[h].role # "ADMIN"
  <2>1. ASSUME NEW h \in Handlers, NEW u \in Users,
               mint'[h] = [user |-> u, role |-> role[u], entitled |-> TRUE]
        PROVE  mint'[h].role # "ADMIN"
    BY <1>3, <2>1
  <2> QED
    BY <1>1, <1>3, <2>1, MintMoves
<1>5. \A a \in access' : a.role # "ADMIN"
  BY <1>1, <1>3, AccessMoves
<1>6. \A c \in Calls : call'[c].op # "assignRole"
  <2>1. \A c \in Calls : \/ call'[c] = call[c]
                         \/ call'[c] = NoCall
                         \/ call'[c] \in UserCall \cup DashboardCall
    BY <1>1, <1>3, CallsMove
  <2> QED
    BY <1>3, <2>1 DEF NoCall, UserCall, DashboardCall
<1> QED
  BY <1>2, <1>3, <1>4, <1>5, <1>6

\* A shut account's dashboard stays without a profile.
LEMMA AcOff ==
    ASSUME AcInv, AcNext
    PROVE  OffIsDisabled'
<1> USE DEF AcInv
<1>1. Step /\ AcTypeOK /\ IInv /\ TypeOK
  BY DEF AcNext, IInv
<1> SUFFICES ASSUME NEW c \in Calls, call'[c].op = "dashboard", call'[c].off
             PROVE  account'[call'[c].by.user] = "disabled" /\ call'[c].profile # "ok"
  BY DEF OffIsDisabled
<1>2. CASE call'[c] = call[c]
  <2>1. call[c] \in DashboardCall /\ call[c].by.user \in Users
    BY <1>1, <1>2, CallKinds DEF DashboardCall, Claim
  <2> QED
    BY <1>1, <1>2, <2>1, AccountsMove DEF OffIsDisabled
<1>3. CASE call'[c] = NoCall \/ call'[c] \in UserCall \cup RoleCall
  BY <1>3 DEF NoCall, UserCall, RoleCall
<1>4. ASSUME NEW a \in access, call'[c] = Dashboard(a, account[a.user] # "active", "wait", "wait")
      PROVE  account'[call'[c].by.user] = "disabled" /\ call'[c].profile # "ok"
  <2> DEFINE off == account[a.user] # "active"
  <2>0. call'[c] = Dashboard(a, off, "wait", "wait")
    BY <1>4
  <2> HIDE DEF off
  <2>1. call'[c].by = a /\ call'[c].off = off /\ call'[c].profile = "wait"
    BY <2>0 DEF Dashboard
  <2>2. call'[c].by = a /\ account[a.user] # "active" /\ call'[c].profile = "wait"
    BY <2>1 DEF off
  <2>3. a.user \in Users /\ account[a.user] # "none"
    BY <1>1 DEF AcTypeOK, Claim, AccountsKnown
  <2>4. account[a.user] = "disabled"
    BY <1>1, <2>2, <2>3 DEF TypeOK
  <2> QED
    BY <1>1, <2>2, <2>3, <2>4, AccountsMove
<1>5. ASSUME call[c] \in DashboardCall, call'[c].by = call[c].by, call'[c].off = call[c].off,
             \/ call'[c].profile = call[c].profile
             \/ call'[c].profile = "ok" => account[call[c].by.user] = "active"
      PROVE  account'[call'[c].by.user] = "disabled" /\ call'[c].profile # "ok"
  <2>1. call[c].op = "dashboard" /\ call[c].by.user \in Users
    BY <1>5 DEF DashboardCall, Claim
  <2>2. account[call[c].by.user] = "disabled" /\ call[c].profile # "ok"
    BY <1>5, <2>1 DEF OffIsDisabled
  <2> QED
    BY <1>1, <1>5, <2>1, <2>2, AccountsMove
<1> QED
  BY <1>1, <1>2, <1>3, <1>4, <1>5, CallsMove

\* Entitlement is noted in the step that brings it, and the clock only advances.
LEMMA AcHeld ==
    ASSUME AcInv, AcNext
    PROVE  /\ HeldIsLast'
           /\ \A u \in Users, r \in ASSIGNABLE_ROLES : held[u][r] <= held'[u][r]
<1> USE DEF AcInv
<1>1. Step /\ AcTypeOK /\ IInv /\ now \in Nat /\ now' \in Nat
  BY SessionsIInv DEF AcNext, IInv, TypeOK
<1>2. now <= now'
  <2>1. [Next]_vars => now' \in {now, now + 1}
    BY DEF Next, vars, Register, ValidateCredentials, IssueTokenPair, PresentRevoked, RevokeFamily,
         PresentLive, Rotate, RevokeToken, RevokeAllForUser, Deactivate, Fail, Tick
  <2> QED
    BY <1>1, <2>1, StepProjects
<1>3. \A u \in Users, r \in ASSIGNABLE_ROLES :
         /\ held'[u][r] = IF Entitled(u, r)' THEN now' ELSE held[u][r]
         /\ held[u][r] \in Nat /\ held[u][r] <= now
  BY DEF AcNext, HeldIsLast, AcTypeOK
<1> QED
  BY <1>1, <1>2, <1>3 DEF HeldIsLast

\* A token is signed while its login or refresh is still entitled to the role.
LEMMA AcClaims ==
    ASSUME AcInv, AcNext
    PROVE  ClaimsExpire'
<1> USE DEF AcInv
<1>1. Step /\ AcTypeOK /\ IInv /\ AcTypeOK' /\ now \in Nat
  BY AcTypes DEF AcNext, IInv, TypeOK
<1> SUFFICES ASSUME NEW a \in access'
             PROVE  a.exp <= held'[a.user][a.role] + accessTtl
  BY DEF ClaimsExpire
<1>2. /\ a \in Claim /\ a.user \in Users /\ a.role \in ASSIGNABLE_ROLES
      /\ held[a.user][a.role] \in Nat /\ held'[a.user][a.role] \in Nat
      /\ held[a.user][a.role] <= held'[a.user][a.role]
  BY <1>1, AcHeld DEF AcTypeOK, Claim
<1>3. CASE a \in access
  <2>1. a.exp <= held[a.user][a.role] + accessTtl /\ a.exp \in Nat
    BY <1>2, <1>3 DEF ClaimsExpire, Claim
  <2> QED
    BY <1>2, <2>1, AccessTtlAssumption
<1>4. ASSUME NEW h \in Handlers, mint[h] # Null,
             a = [user |-> mint[h].user, role |-> mint[h].role, exp |-> now + accessTtl]
      PROVE  a.exp <= held'[a.user][a.role] + accessTtl
  <2>1. mint[h] \in Mint
    BY <1>1, <1>4 DEF AcTypeOK
  <2>2. mint[h] = [user |-> a.user, role |-> a.role, entitled |-> TRUE]
    BY <1>4, <2>1 DEF Mint
  <2>3. held[a.user][a.role] = now
    BY <1>2, <2>2 DEF HeldIsLast, Entitled
  <2> QED
    BY <1>1, <1>2, <1>4, <2>3, AccessTtlAssumption
<1> QED
  BY <1>1, <1>3, <1>4, AccessMoves

\* Every step preserves the invariant.
LEMMA AcNextInv == AcInv /\ [AcNext]_allVars => AcInv'
<1>1. ASSUME AcInv, AcNext
      PROVE  AcInv'
  <2>1. IInv'
    BY <1>1, SessionsIInv DEF AcInv, AcNext
  <2> QED
    BY <1>1, <2>1, AcTypes, AcAccounts, AcNoAdmin, AcOff, AcHeld, AcClaims DEF AcInv
<1>2. ASSUME AcInv, UNCHANGED allVars
      PROVE  AcInv'
  BY <1>2 DEF AcInv, allVars, acVars, vars, rows, IInv, TypeOK, RowsWhole, HandlersJustified,
              RequestJustified, OneUserPerFamily, Lineage, Exists, AcTypeOK, AccountsKnown,
              NoAdminYet, OffIsDisabled, HeldIsLast, Entitled, ClaimsExpire
<1> QED
  BY <1>1, <1>2

-----------------------------------------------------------------------------
(* Theorems *)

\* The inductive invariant holds in every reachable state: whatever logins,
\* refreshes, role changes and deactivations overlap.
THEOREM AcInvariance == AcSpec => []AcInv
  BY AcInitInv, AcNextInv, PTL DEF AcSpec

\* No token outlives its user's right to what it claims by more than its ttl.
THEOREM ClaimsDoExpire == AcSpec => []ClaimsExpire
<1>1. AcInv => ClaimsExpire
  BY DEF AcInv
<1> QED
  BY <1>1, AcInvariance, PTL

\* No sequence of requests, however many overlap, makes the first administrator.
THEOREM AdminsAreSeeded == AcSpec => []NoSelfServiceAdmin
<1>1. AcInv => NoSelfServiceAdmin
  BY DEF AcInv, AcTypeOK, NoAdminYet, NoSelfServiceAdmin, Claim
<1> QED
  BY <1>1, AcInvariance, PTL

\* A deactivated user's dashboard comes back without a profile.
THEOREM DisabledAreLockedOut == AcSpec => []LockedOut
<1>1. AcInv => LockedOut
  BY DEF AcInv, OffIsDisabled, LockedOut
<1> QED
  BY <1>1, AcInvariance, PTL

\* No login, refresh or role change in flight reopens a deactivated account.
THEOREM DeactivationIsFinal == AcSpec => DeactivationSticks
<1>1. AcInv /\ [AcNext]_allVars
        => [\A u \in Users : account[u] = "disabled" => account'[u] = "disabled"]_allVars
  BY AccountsMove DEF AcInv, AcNext
<1> QED
  BY <1>1, AcInvariance, PTL DEF AcSpec, DeactivationSticks
-----------------------------------------------------------------------------
(* The sessions beneath, with any requests in flight *)

\* Role changes, deactivations and dashboards disturb no session and no token.
LEMMA AcSessionsStep ==
    ASSUME AcInv, LinksInv, [AcNext]_allVars
    PROVE  /\ LinksInv'
           /\ Sessions!Next \/ UNCHANGED <<MappedSession, MappedRotating>>
<1>1. ASSUME UNCHANGED <<rows, req>>
      PROVE  LinksInv' /\ UNCHANGED <<MappedSession, MappedRotating>>
  <2>1. UNCHANGED MappedRotating
    BY <1>1 DEF MappedRotating, InRotation
  <2> QED
    BY <1>1, <2>1, LinksKept, SessionKept DEF rows
<1>2. [Next]_vars \/ UNCHANGED <<rows, req>>
  BY StepProjects DEF AcInv, AcNext, allVars, vars
<1> QED
  BY <1>1, <1>2, LinksStep, SessionsStep DEF AcInv

\* Whatever logins and refreshes overlap, and whatever administrators do in the
\* meantime: no live token is without a trace, and user-service implements Sessions.
THEOREM AcSessions == AcSpec => []LiveTokensTraced /\ ImplementsSessions
<1>1. AcInit => LinksInv /\ Sessions!Init
  BY LinksInit, SessionsInit DEF AcInit
<1>2. AcInv /\ LinksInv /\ [AcNext]_allVars => LinksInv'
  BY AcSessionsStep
<1>3. AcInv /\ LinksInv /\ [AcNext]_allVars
        => [Sessions!Next]_<<MappedSession, MappedRotating>>
  BY AcSessionsStep
<1>4. AcInv /\ LinksInv => LiveTokensTraced
  BY LiveAreTips DEF AcInv
<1> QED
  BY <1>1, <1>2, <1>3, <1>4, AcInvariance, PTL
     DEF AcSpec, ImplementsSessions, Sessions!Spec, MappedSession, MappedRotating
================================================================================
