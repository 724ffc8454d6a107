-------------------------- MODULE TokenServiceProofs --------------------------
(* Proofs about TokenService, for any users, tokens, families and handlers.  *)
EXTENDS TokenService, FiniteSetTheorems, TLAPS

\* The initial state satisfies the invariant.
LEMMA InitIInv == Init => IInv
  BY TtlAssumption, NullAssumption
     DEF Init, IInv, TypeOK, RowsWhole, HandlersJustified, RequestJustified,
         OneUserPerFamily, Lineage, Exists, NoRequest, Request

\* The requests are requests.
LEMMA RequestTypes ==
    /\ NoRequest \in Request
    /\ \A u \in Users : Issuing(u) \in Request
    /\ \A f \in Families : Revoking(f) \in Request
    /\ \A u \in Users, t \in RefreshTokens, f \in Families, e \in Nat :
          Rotating(u, t, f, e) \in Request
  BY DEF Request, NoRequest, Issuing, Revoking, Rotating

\* A step that changes one request only, to one that is justified, preserves
\* the invariant; so does one that changes accounts as well.
LEMMA OneRequestMoves ==
    ASSUME IInv, NEW h \in Handlers, NEW q \in Request,
           req' = [req EXCEPT ![h] = q], UNCHANGED <<rows, now, reused>>,
           account' \in [Users -> {"none", "active", "disabled"}],
           RequestJustified(q)
    PROVE  IInv'
<1> USE DEF IInv
<1>1. TypeOK'
  BY DEF TypeOK, rows
<1>2. RowsWhole' /\ OneUserPerFamily' /\ Lineage'
  BY DEF RowsWhole, OneUserPerFamily, Lineage, rows, Exists
<1>3. HandlersJustified'
  <2> SUFFICES ASSUME NEW g \in Handlers
               PROVE  RequestJustified(req[g])'
    BY DEF HandlersJustified
  <2>1. req'[g] \in {q, req[g]}
    BY DEF TypeOK
  <2>2. RequestJustified(req'[g])
    BY <2>1 DEF HandlersJustified
  <2> QED
    BY <2>2 DEF RequestJustified, rows, Exists
<1> QED
  BY <1>1, <1>2, <1>3

\* Registration, login and the checks of a refresh preserve the invariant.
LEMMA StartIInv ==
    ASSUME IInv, NEW h \in Handlers,
           \/ \E u \in Users : Register(h, u) \/ ValidateCredentials(h, u)
           \/ \E t \in RefreshTokens : PresentRevoked(h, t) \/ PresentLive(h, t)
           \/ Fail(h)
    PROVE  IInv'
<1> TypeOK
  BY DEF IInv
<1>1. ASSUME NEW u \in Users, Register(h, u) \/ ValidateCredentials(h, u)
      PROVE  IInv'
  <2>1. Issuing(u) \in Request /\ Issuing(u).pc = "issue" /\ Issuing(u).user = u
    BY RequestTypes DEF Issuing
  <2>2. account' \in [Users -> {"none", "active", "disabled"}]
    BY <1>1 DEF Register, ValidateCredentials, TypeOK
  <2> QED
    BY <1>1, <2>1, <2>2, OneRequestMoves DEF Register, ValidateCredentials, RequestJustified
<1>2. ASSUME NEW t \in RefreshTokens, PresentRevoked(h, t)
      PROVE  IInv'
  <2>1. family[t] \in Families
    BY <1>2 DEF PresentRevoked, TypeOK, IInv, RowsWhole
  <2>2. Revoking(family[t]) \in Request /\ Revoking(family[t]).pc = "revokeFamily"
        /\ Revoking(family[t]).family = family[t]
    BY <2>1, RequestTypes DEF Revoking
  <2> QED
    BY <1>2, <2>1, <2>2, OneRequestMoves DEF PresentRevoked, TypeOK, RequestJustified
<1>3. ASSUME NEW t \in RefreshTokens, PresentLive(h, t)
      PROVE  IInv'
  <2> DEFINE e == now + refreshTtlMs
             q == Rotating(userId[t], t, family[t], e)
  <2>1. userId[t] \in Users /\ family[t] \in Families /\ e \in Nat
    BY <1>3, TtlAssumption DEF PresentLive, TypeOK, IInv, RowsWhole, Exists
  <2>2. /\ q \in Request /\ q.pc = "rotate" /\ q.user = userId[t] /\ q.token = t
        /\ q.family = family[t] /\ q.expiresAt = e
    BY <2>1, RequestTypes DEF Rotating
  <2>3. expiresAt[t] <= e /\ e <= expiresAt[t] + refreshTtlMs
    BY <1>3, TtlAssumption DEF PresentLive, isExpired, TypeOK, IInv, RowsWhole
  <2>4. e <= now + refreshTtlMs
    BY <2>1, TtlAssumption DEF TypeOK
  <2>5. /\ Exists(t) /\ UNCHANGED <<account, rows, now, reused>>
        /\ req' = [req EXCEPT ![h] = q]
    BY <1>3 DEF PresentLive
  <2>6. account' \in [Users -> {"none", "active", "disabled"}]
    BY <2>5 DEF TypeOK
  <2> HIDE DEF q, e
  <2>7. RequestJustified(q)
    BY <2>2, <2>3, <2>4, <2>5 DEF RequestJustified
  <2> QED
    BY <2>2, <2>5, <2>6, <2>7, OneRequestMoves
<1>4. CASE Fail(h)
  BY <1>4, RequestTypes, OneRequestMoves
     DEF Fail, Finish, NoRequest, TypeOK, RequestJustified
<1> QED
  BY <1>1, <1>2, <1>3, <1>4

\* Handlers that stay where they are, or finish, stay justified as long as the
\* rows they have read keep their user, family and expiry.
LEMMA HandlersStable ==
    ASSUME IInv, now' \in Nat, now <= now',
           \A h \in Handlers : req'[h] \in {req[h], NoRequest},
           \A t \in RefreshTokens : Exists(t) =>
              userId'[t] = userId[t] /\ family'[t] = family[t] /\ expiresAt'[t] = expiresAt[t]
    PROVE  HandlersJustified'
<1> SUFFICES ASSUME NEW h \in Handlers
             PROVE  RequestJustified(req[h])'
  BY DEF HandlersJustified
<1>1. CASE req'[h] = NoRequest
  BY <1>1 DEF RequestJustified, NoRequest
<1>2. CASE req'[h] = req[h]
  <2>1. RequestJustified(req[h]) /\ req[h] \in Request
    BY DEF IInv, HandlersJustified, TypeOK
  <2> QED
    BY <1>2, <2>1, TtlAssumption DEF RequestJustified, Exists, Request, IInv, TypeOK
<1> QED
  BY <1>1, <1>2

\* Revoking any set of stored tokens preserves the invariant.
LEMMA RevokeIInv ==
    ASSUME IInv, NEW S \in SUBSET RefreshTokens, \A t \in S : Exists(t),
           RevokeWhere(S), UNCHANGED <<account, now>>, reused' \subseteq Families,
           \/ req' = req
           \/ \E h \in Handlers : Finish(h)
    PROVE  IInv'
<1> USE DEF IInv
<1>1. req' \in [Handlers -> Request] /\ \A h \in Handlers : req'[h] \in {req[h], NoRequest}
  BY RequestTypes DEF TypeOK, Finish
<1>2. revoked' \in [RefreshTokens -> BOOLEAN]
  BY DEF RevokeWhere
<1>3. TypeOK'
  BY <1>1, <1>2 DEF TypeOK, RevokeWhere
<1>4. RowsWhole' /\ OneUserPerFamily' /\ Lineage'
  BY DEF TypeOK, RowsWhole, OneUserPerFamily, Lineage, Exists, RevokeWhere
<1>5. HandlersJustified'
  BY <1>1, HandlersStable DEF TypeOK, RevokeWhere
<1> QED
  BY <1>3, <1>4, <1>5

\* Reuse detection, logout and logout-all preserve the invariant.
LEMMA RevocationsIInv ==
    ASSUME IInv, NEW h \in Handlers,
           \/ RevokeFamily(h)
           \/ \E t \in RefreshTokens : RevokeToken(h, t)
           \/ \E u \in Users : RevokeAllForUser(h, u)
    PROVE  IInv'
<1>1. CASE RevokeFamily(h)
  <2> DEFINE S == {t \in RefreshTokens : family[t] = req[h].family}
  <2>1. req[h].family \in Families
    BY <1>1 DEF IInv, HandlersJustified, RequestJustified, RevokeFamily
  <2>2. \A t \in S : Exists(t)
    BY <2>1, NullAssumption DEF IInv, RowsWhole
  <2>3. /\ RevokeWhere(S) /\ Finish(h) /\ UNCHANGED <<account, now>>
        /\ reused' \subseteq Families
    BY <1>1, <2>1 DEF RevokeFamily, IInv, TypeOK
  <2> QED
    BY <2>2, <2>3, RevokeIInv
<1>2. ASSUME NEW t \in RefreshTokens, RevokeToken(h, t)
      PROVE  IInv'
  BY <1>2, RevokeIInv DEF RevokeToken, IInv, TypeOK
<1>3. ASSUME NEW u \in Users, RevokeAllForUser(h, u)
      PROVE  IInv'
  <2> DEFINE S == {t \in RefreshTokens : userId[t] = u}
  <2>1. \A t \in S : Exists(t)
    BY NullAssumption DEF Exists
  <2>2. /\ RevokeWhere(S) /\ UNCHANGED <<account, req, now>>
        /\ reused' \subseteq Families
    BY <1>3 DEF RevokeAllForUser, IInv, TypeOK
  <2> QED
    BY <2>1, <2>2, RevokeIInv
<1> QED
  BY <1>1, <1>2, <1>3

\* The first token of a family preserves the invariant.
LEMMA IssueTokenPairIInv ==
    ASSUME IInv, NEW h \in Handlers, NEW t \in RefreshTokens, NEW f \in Families,
           IssueTokenPair(h, t, f)
    PROVE  IInv'
<1> USE DEF IInv, IssueTokenPair, CreateToken
<1>1. req[h].user \in Users /\ now + refreshTtlMs \in Nat /\ now \in Nat
  BY TtlAssumption DEF HandlersJustified, RequestJustified, TypeOK
<1>2. req' \in [Handlers -> Request] /\ \A g \in Handlers : req'[g] \in {req[g], NoRequest}
  BY RequestTypes DEF TypeOK, Finish
<1>3. TypeOK'
  BY <1>1, <1>2 DEF TypeOK
<1>4. RowsWhole'
  BY <1>1, TtlAssumption, NullAssumption DEF TypeOK, RowsWhole, Exists
<1>5. OneUserPerFamily'
  BY <1>1 DEF TypeOK, OneUserPerFamily, Exists
<1>6. Lineage'
  <2> SUFFICES ASSUME NEW s \in RefreshTokens, replacedBy[s] # Null
               PROVE  /\ replacedBy[s] # s /\ Exists(s)' /\ Exists(replacedBy[s])'
                      /\ revoked'[s] /\ family'[replacedBy[s]] = family'[s]
                      /\ expiresAt'[s] <= expiresAt'[replacedBy[s]]
                      /\ expiresAt'[replacedBy[s]] <= expiresAt'[s] + refreshTtlMs
    BY DEF Lineage, Exists
  <2>1. s # t /\ replacedBy[s] # t /\ replacedBy[s] \in RefreshTokens
    BY DEF Lineage, TypeOK, Exists
  <2> QED
    BY <2>1 DEF Lineage, TypeOK, Exists
<1>7. HandlersJustified'
  BY <1>1, <1>2, HandlersStable DEF TypeOK, Exists
<1> QED
  BY <1>3, <1>4, <1>5, <1>6, <1>7

\* The transaction of rotateRefreshToken preserves the invariant, whatever
\* happened to the old token since it was read.
LEMMA RotateIInv ==
    ASSUME IInv, NEW h \in Handlers, NEW n \in RefreshTokens, Rotate(h, n)
    PROVE  IInv'
<1> PICK t \in RefreshTokens : t = req[h].token
  BY DEF IInv, HandlersJustified, RequestJustified, Rotate
<1> PICK u \in Users : u = req[h].user
  BY DEF IInv, TypeOK, HandlersJustified, RequestJustified, Rotate, Exists
<1> PICK f \in Families : f = req[h].family
  BY DEF IInv, TypeOK, HandlersJustified, RequestJustified, Rotate, RowsWhole
<1> PICK e \in Nat : e = req[h].expiresAt
  BY DEF IInv, TypeOK, Request
<1>1. /\ Exists(t) /\ u = userId[t] /\ f = family[t]
      /\ expiresAt[t] <= e /\ e <= expiresAt[t] + refreshTtlMs
      /\ e <= now + refreshTtlMs
  BY DEF IInv, HandlersJustified, RequestJustified, Rotate
<1>2. /\ ~Exists(n) /\ n # t
      /\ userId' = [userId EXCEPT ![n] = u]
      /\ family' = [family EXCEPT ![n] = f]
      /\ expiresAt' = [expiresAt EXCEPT ![n] = e]
      /\ revoked' = [revoked EXCEPT ![t] = TRUE]
      /\ replacedBy' = [replacedBy EXCEPT ![t] = n]
      /\ Finish(h) /\ UNCHANGED <<account, now, reused>>
  BY <1>1 DEF Rotate, CreateToken
<1> USE DEF IInv
<1>3. req' \in [Handlers -> Request] /\ \A g \in Handlers : req'[g] \in {req[g], NoRequest}
  BY <1>2, RequestTypes DEF TypeOK, Finish
<1>4. TypeOK'
  BY <1>2, <1>3 DEF TypeOK
<1>5. RowsWhole'
  BY <1>1, <1>2, TtlAssumption, NullAssumption DEF TypeOK, RowsWhole, Exists
<1>6. OneUserPerFamily'
  BY <1>1, <1>2 DEF TypeOK, OneUserPerFamily, Exists
<1>7. Lineage'
  <2> SUFFICES ASSUME NEW s \in RefreshTokens, NEW r \in RefreshTokens, replacedBy'[s] = r
               PROVE  /\ r # s /\ Exists(s)' /\ Exists(r)'
                      /\ revoked'[s] /\ family'[r] = family'[s]
                      /\ expiresAt'[s] <= expiresAt'[r]
                      /\ expiresAt'[r] <= expiresAt'[s] + refreshTtlMs
    BY <1>4 DEF Lineage, TypeOK
  <2>1. CASE s = t
    <3>1. r = n
      BY <1>2, <2>1 DEF TypeOK
    <3>2. userId'[s] = u /\ userId'[r] = u /\ family'[s] = f /\ family'[r] = f
          /\ expiresAt'[s] = expiresAt[t] /\ expiresAt'[r] = e /\ revoked'[s] /\ r # s
      BY <1>1, <1>2, <2>1, <3>1 DEF TypeOK
    <3> QED
      BY <1>1, <3>2, NullAssumption DEF Exists
  <2>2. CASE s # t
    <3>1. replacedBy[s] = r /\ r # Null
      BY <1>2, <2>2, NullAssumption DEF TypeOK
    <3>2. /\ r # s /\ Exists(s) /\ Exists(r) /\ revoked[s] /\ family[r] = family[s]
          /\ expiresAt[s] <= expiresAt[r] /\ expiresAt[r] <= expiresAt[s] + refreshTtlMs
      BY <3>1 DEF Lineage
    <3>3. s # n /\ r # n
      BY <1>2, <3>2
    <3>4. revoked'[s]
      BY <1>2, <2>2, <3>2 DEF TypeOK
    <3>5. /\ userId'[s] = userId[s] /\ userId'[r] = userId[r]
          /\ family'[s] = family[s] /\ family'[r] = family[r]
          /\ expiresAt'[s] = expiresAt[s] /\ expiresAt'[r] = expiresAt[r]
      BY <1>2, <3>3 DEF TypeOK
    <3> QED
      BY <3>2, <3>4, <3>5 DEF Exists
  <2> QED
    BY <2>1, <2>2
<1>8. HandlersJustified'
  BY <1>2, <1>3, HandlersStable DEF TypeOK, Exists
<1> QED
  BY <1>4, <1>5, <1>6, <1>7, <1>8

\* Deactivation and the passing of time preserve the invariant.
LEMMA QuietIInv ==
    ASSUME IInv, Tick \/ (\E h \in Handlers, u \in Users : Deactivate(h, u)) \/ UNCHANGED vars
    PROVE  IInv'
<1> USE DEF IInv
<1>1. /\ UNCHANGED <<userId, family, revoked, replacedBy, expiresAt, req, reused>>
      /\ now' \in Nat /\ now <= now'
      /\ account' \in [Users -> {"none", "active", "disabled"}]
  BY DEF Tick, Deactivate, vars, rows, TypeOK
<1>2. TypeOK'
  BY <1>1 DEF TypeOK
<1>3. RowsWhole' /\ OneUserPerFamily' /\ Lineage'
  BY <1>1, TtlAssumption DEF TypeOK, RowsWhole, OneUserPerFamily, Lineage, Exists
<1>4. HandlersJustified'
  BY <1>1, HandlersStable
<1> QED
  BY <1>2, <1>3, <1>4

\* Every step preserves the invariant.
LEMMA NextIInv == IInv /\ [Next]_vars => IInv'
  BY StartIInv, RevocationsIInv, IssueTokenPairIInv, RotateIInv, QuietIInv DEF Next

\* The inductive invariant holds in every reachable state.
THEOREM Invariance == Spec => []IInv
  BY InitIInv, NextIInv, PTL DEF Spec

\* Type correctness: rows, requests and clock stay well formed.
THEOREM TypeCorrect == Spec => []TypeOK
<1>1. IInv => TypeOK
  BY DEF IInv
<1> QED
  BY <1>1, Invariance, PTL

\* No rotation, however it overlaps others, moves a family to another user.
THEOREM FamilyHasOneUser == Spec => []OneUserPerFamily
<1>1. IInv => OneUserPerFamily
  BY DEF IInv
<1> QED
  BY <1>1, Invariance, PTL

\* replacedByTokenHash is right about every rotation.
THEOREM LineageIsRight == Spec => []Lineage
<1>1. IInv => Lineage
  BY DEF IInv
<1> QED
  BY <1>1, Invariance, PTL

-----------------------------------------------------------------------------
(* What each step does to the sessions *)

\* A login opens its family with one live token.
LEMMA IssueEffect ==
    ASSUME IInv, NEW h \in Handlers, NEW t \in RefreshTokens, NEW f \in Families,
           IssueTokenPair(h, t, f)
    PROVE  /\ ~Opened(f) /\ Opened(f)' /\ Live(f)' = {t}
           /\ \A g \in Families : g # f => Live(g)' = Live(g) /\ Opened(g)' = Opened(g)
<1>1. /\ family[t] = Null /\ ~revoked[t] /\ revoked' = revoked
      /\ family' = [family EXCEPT ![t] = f]
      /\ \A s \in RefreshTokens : family[s] # f
  BY DEF IInv, RowsWhole, IssueTokenPair, CreateToken
<1>2. \A s \in RefreshTokens : family'[s] = IF s = t THEN f ELSE family[s]
  BY <1>1 DEF IInv, TypeOK
<1>3. ~Opened(f) /\ Opened(f)' /\ Live(f)' = {t}
  BY <1>1, <1>2 DEF Opened, Live
<1>4. ASSUME NEW g \in Families, g # f
      PROVE  Live(g)' = Live(g) /\ Opened(g)' = Opened(g)
  BY <1>1, <1>2, <1>4, NullAssumption DEF Opened, Live
<1> QED
  BY <1>3, <1>4

\* A rotation replaces the old token, live or not, by the new one.
LEMMA RotateEffect ==
    ASSUME IInv, NEW h \in Handlers, NEW n \in RefreshTokens, Rotate(h, n)
    PROVE  \E t \in RefreshTokens, f \in Families :
             /\ t = req[h].token /\ f = req[h].family /\ family[t] = f
             /\ Live(f)' = (Live(f) \ {t}) \cup {n}
             /\ \A g \in Families : /\ g # f => Live(g)' = Live(g)
                                    /\ Opened(g)' = Opened(g)
<1> PICK t \in RefreshTokens : t = req[h].token
  BY DEF IInv, HandlersJustified, RequestJustified, Rotate
<1> PICK f \in Families : f = req[h].family
  BY DEF IInv, TypeOK, HandlersJustified, RequestJustified, Rotate, RowsWhole
<1>1. /\ family[t] = f /\ family[n] = Null /\ ~revoked[n] /\ n # t
      /\ family' = [family EXCEPT ![n] = f]
      /\ revoked' = [revoked EXCEPT ![t] = TRUE]
  BY DEF IInv, RowsWhole, HandlersJustified, RequestJustified, Rotate, CreateToken
<1>2. /\ \A s \in RefreshTokens : family'[s] = IF s = n THEN f ELSE family[s]
      /\ \A s \in RefreshTokens : s # t => (revoked'[s] <=> revoked[s])
      /\ revoked'[t]
  BY <1>1 DEF IInv, TypeOK
<1>3. Live(f)' = (Live(f) \ {t}) \cup {n}
  BY <1>1, <1>2 DEF Live
<1>4. ASSUME NEW g \in Families
      PROVE  /\ g # f => Live(g)' = Live(g)
             /\ Opened(g)' = Opened(g)
  BY <1>1, <1>2, NullAssumption DEF Live, Opened
<1> QED
  BY <1>1, <1>3, <1>4

\* A revocation opens nothing and revives nothing.
LEMMA RevokeEffect ==
    ASSUME IInv, NEW S \in SUBSET RefreshTokens, RevokeWhere(S)
    PROVE  \A g \in Families : Live(g)' = Live(g) \ S /\ Opened(g)' = Opened(g)
  BY DEF RevokeWhere, Live, Opened

\* A session that has ended stays ended, whatever requests overlap, unless a
\* rotation of it was in flight when it ended.
THEOREM EndedStaysEnded == Spec => SessionsStayEnded
<1> DEFINE Kept(f) == Opened(f) /\ Live(f) = {} /\ ~InRotation(f)
                        => Live(f)' = {} /\ ~InRotation(f)'
<1>1. ASSUME IInv, [Next]_vars, NEW f \in Families, Opened(f), Live(f) = {}, ~InRotation(f)
      PROVE  Live(f)' = {} /\ ~InRotation(f)'
  <2> USE <1>1
  <2>0. TypeOK
    BY DEF IInv
  <2>1. ASSUME UNCHANGED <<family, revoked>>,
               \A h \in Handlers : req'[h].pc = "rotate" /\ req'[h].family = f
                                     => req'[h] = req[h]
        PROVE  Live(f)' = {} /\ ~InRotation(f)'
    BY <2>1 DEF Live, InRotation
  <2>2. ASSUME NEW h \in Handlers, NEW u \in Users,
               Register(h, u) \/ ValidateCredentials(h, u) \/ Deactivate(h, u)
        PROVE  Live(f)' = {} /\ ~InRotation(f)'
    BY <2>0, <2>1, <2>2 DEF Register, ValidateCredentials, Deactivate, Issuing, TypeOK, rows
  <2>3. ASSUME NEW h \in Handlers, NEW t \in RefreshTokens, PresentRevoked(h, t)
        PROVE  Live(f)' = {} /\ ~InRotation(f)'
    BY <2>0, <2>1, <2>3 DEF PresentRevoked, Revoking, TypeOK, rows
  <2>4. ASSUME NEW h \in Handlers, NEW t \in RefreshTokens, PresentLive(h, t)
        PROVE  Live(f)' = {} /\ ~InRotation(f)'
    <3>1. family[t] # f
      BY <2>4 DEF PresentLive, Live
    <3> QED
      BY <2>0, <2>1, <2>4, <3>1 DEF PresentLive, Rotating, TypeOK, rows
  <2>5. ASSUME NEW h \in Handlers, Fail(h)
        PROVE  Live(f)' = {} /\ ~InRotation(f)'
    BY <2>0, <2>1, <2>5 DEF Fail, Finish, NoRequest, TypeOK, rows
  <2>6. ASSUME NEW h \in Handlers, NEW t \in RefreshTokens, NEW g \in Families,
               IssueTokenPair(h, t, g)
        PROVE  Live(f)' = {} /\ ~InRotation(f)'
    <3>1. Live(f)' = {}
      BY <2>6, IssueEffect
    <3> QED
      BY <2>0, <2>6, <3>1 DEF IssueTokenPair, Finish, NoRequest, TypeOK, InRotation
  <2>7. ASSUME NEW h \in Handlers, NEW n \in RefreshTokens, Rotate(h, n)
        PROVE  Live(f)' = {} /\ ~InRotation(f)'
    <3>1. req[h].family # f
      BY <2>7 DEF Rotate, InRotation
    <3>2. Live(f)' = {}
      BY <2>7, <3>1, RotateEffect
    <3> QED
      BY <2>0, <2>7, <3>2 DEF Rotate, Finish, NoRequest, TypeOK, InRotation
  <2>8. ASSUME NEW S \in SUBSET RefreshTokens, RevokeWhere(S),
               req' = req \/ \E h \in Handlers : Finish(h)
        PROVE  Live(f)' = {} /\ ~InRotation(f)'
    <3>1. Live(f)' = {}
      BY <2>8, RevokeEffect
    <3> QED
      BY <2>0, <2>8, <3>1 DEF Finish, NoRequest, TypeOK, InRotation
  <2>9. ASSUME NEW h \in Handlers, RevokeFamily(h)
        PROVE  Live(f)' = {} /\ ~InRotation(f)'
    BY <2>8, <2>9 DEF RevokeFamily
  <2>10. ASSUME NEW h \in Handlers, NEW t \in RefreshTokens, RevokeToken(h, t)
         PROVE  Live(f)' = {} /\ ~InRotation(f)'
    BY <2>8, <2>10 DEF RevokeToken
  <2>11. ASSUME NEW h \in Handlers, NEW u \in Users, RevokeAllForUser(h, u)
         PROVE  Live(f)' = {} /\ ~InRotation(f)'
    BY <2>8, <2>11 DEF RevokeAllForUser
  <2>12. CASE Tick \/ UNCHANGED vars
    BY <2>1, <2>12 DEF Tick, vars, rows
  <2> QED
    BY <2>2, <2>3, <2>4, <2>5, <2>6, <2>7, <2>9, <2>10, <2>11, <2>12 DEF Next
<1>2. IInv /\ [Next]_vars => [\A f \in Families : Kept(f)]_vars
  BY <1>1
<1> QED
  BY <1>2, Invariance, PTL DEF Spec, SessionsStayEnded

\* A disabled account with no request in flight never gets another token.
THEOREM DisabledIsShutOut == Spec => DisabledGetsNoToken
<1> DEFINE Shut(u) == account[u] = "disabled" /\ ~Minting(u)
                        => /\ ~Minting(u)'
                           /\ \A t \in RefreshTokens : userId'[t] = u => userId[t] = u
<1>1. ASSUME IInv, [Next]_vars, NEW u \in Users, account[u] = "disabled", ~Minting(u)
      PROVE  /\ ~Minting(u)'
             /\ \A t \in RefreshTokens : userId'[t] = u => userId[t] = u
  <2> USE <1>1
  <2>0. TypeOK
    BY DEF IInv
  <2>1. ASSUME \A h \in Handlers : req'[h].pc \in {"issue", "rotate"} /\ req'[h].user = u
                                     => req'[h] = req[h]
        PROVE  ~Minting(u)'
    BY <2>1 DEF Minting
  <2>2. ASSUME NEW h \in Handlers, NEW v \in Users, Register(h, v) \/ ValidateCredentials(h, v)
        PROVE  ~Minting(u)' /\ userId' = userId
    BY <2>0, <2>1, <2>2 DEF Register, ValidateCredentials, Issuing, TypeOK, rows
  <2>3. ASSUME NEW h \in Handlers, NEW t \in RefreshTokens, PresentRevoked(h, t)
        PROVE  ~Minting(u)' /\ userId' = userId
    BY <2>0, <2>1, <2>3 DEF PresentRevoked, Revoking, TypeOK, rows
  <2>4. ASSUME NEW h \in Handlers, NEW t \in RefreshTokens, PresentLive(h, t)
        PROVE  ~Minting(u)' /\ userId' = userId
    BY <2>0, <2>1, <2>4 DEF PresentLive, Rotating, TypeOK, rows
  <2>5. ASSUME NEW h \in Handlers, Fail(h) \/ RevokeFamily(h)
        PROVE  ~Minting(u)' /\ userId' = userId
    BY <2>0, <2>1, <2>5 DEF Fail, RevokeFamily, RevokeWhere, Finish, NoRequest, TypeOK, rows
  <2>6. ASSUME NEW h \in Handlers, NEW t \in RefreshTokens, NEW v,
               Finish(h), v # u, userId' = [userId EXCEPT ![t] = v]
        PROVE  /\ ~Minting(u)'
               /\ \A s \in RefreshTokens : userId'[s] = u => userId[s] = u
    BY <2>0, <2>1, <2>6 DEF Finish, NoRequest, TypeOK
  <2>7. ASSUME NEW h \in Handlers, NEW t \in RefreshTokens,
               (\E f \in Families : IssueTokenPair(h, t, f)) \/ Rotate(h, t)
        PROVE  /\ ~Minting(u)'
               /\ \A s \in RefreshTokens : userId'[s] = u => userId[s] = u
    <3>1. req[h].user # u
      BY <2>7 DEF IssueTokenPair, Rotate, Minting
    <3> QED
      BY <2>6, <2>7, <3>1 DEF IssueTokenPair, Rotate, CreateToken
  <2>8. ASSUME UNCHANGED <<userId, req>>
        PROVE  ~Minting(u)' /\ userId' = userId
    BY <2>8 DEF Minting
  <2> QED
    BY <2>2, <2>3, <2>4, <2>5, <2>7, <2>8
       DEF Next, RevokeToken, RevokeAllForUser, RevokeWhere, Deactivate, Tick, vars, rows
<1>2. IInv /\ [Next]_vars => [\A u \in Users : Shut(u)]_vars
  BY <1>1
<1> QED
  BY <1>2, Invariance, PTL DEF Spec, DisabledGetsNoToken

-----------------------------------------------------------------------------
(* Live tokens, counted *)

Tokens(f) == {t \in RefreshTokens : family[t] = f}
Tips(f) == {t \in Tokens(f) : replacedBy[t] = Null}

\* No two tokens share a replacement.
LinksInjective ==
    \A s, t \in RefreshTokens : replacedBy[s] # Null /\ replacedBy[s] = replacedBy[t] => s = t

\* In every family as many tokens have no replacement as replace no other.
TipsCounted ==
    \A f \in Families : /\ IsFiniteSet(Tokens(f))
                        /\ Cardinality(Tips(f)) = Cardinality(Unlinked(f))

LinksInv == LinksInjective /\ TipsCounted

\* A step that leaves families and links alone.
LEMMA LinksKept ==
    ASSUME LinksInv, UNCHANGED <<family, replacedBy>>
    PROVE  LinksInv'
<1>1. \A f : Tokens(f)' = Tokens(f) /\ Tips(f)' = Tips(f) /\ Unlinked(f)' = Unlinked(f)
  BY DEF Tokens, Tips, Unlinked
<1> QED
  BY <1>1 DEF LinksInv, LinksInjective, TipsCounted

\* A login: the new token has no replacement, and replaces none.
LEMMA LinksIssue ==
    ASSUME IInv, LinksInv, NEW h \in Handlers, NEW t \in RefreshTokens, NEW f \in Families,
           IssueTokenPair(h, t, f)
    PROVE  LinksInv'
<1>1. /\ family[t] = Null /\ replacedBy[t] = Null /\ replacedBy' = replacedBy
      /\ \A s \in RefreshTokens : replacedBy[s] # t /\ family[s] # f
      /\ \A s \in RefreshTokens : family'[s] = IF s = t THEN f ELSE family[s]
  BY NullAssumption DEF IInv, TypeOK, RowsWhole, Lineage, IssueTokenPair, CreateToken, Exists
<1>2. LinksInjective'
  BY <1>1 DEF LinksInv, LinksInjective
<1>3. Tokens(f)' = {t} /\ Tips(f)' = {t} /\ Unlinked(f)' = {t}
  BY <1>1 DEF Tokens, Tips, Unlinked
<1>4. ASSUME NEW g \in Families, g # f
      PROVE  Tokens(g)' = Tokens(g) /\ Tips(g)' = Tips(g) /\ Unlinked(g)' = Unlinked(g)
  BY <1>1, <1>4, NullAssumption DEF Tokens, Tips, Unlinked
<1>5. IsFiniteSet(Tokens(f)') /\ Cardinality(Tips(f)') = Cardinality(Unlinked(f)')
  BY <1>3, FS_Singleton
<1>6. TipsCounted'
  BY <1>4, <1>5 DEF LinksInv, TipsCounted
<1> QED
  BY <1>2, <1>6 DEF LinksInv

\* A rotation: the new token takes the place of the old one, or, when the old one
\* has been replaced since it was read, of the replacement whose link it takes.
LEMMA LinksRotate ==
    ASSUME IInv, LinksInv, NEW h \in Handlers, NEW n \in RefreshTokens, Rotate(h, n)
    PROVE  LinksInv'
<1> PICK t \in RefreshTokens : t = req[h].token
  BY DEF IInv, HandlersJustified, RequestJustified, Rotate
<1> PICK f \in Families : f = req[h].family
  BY DEF IInv, TypeOK, HandlersJustified, RequestJustified, Rotate, RowsWhole
<1>1. /\ family[t] = f /\ n # t /\ family[n] = Null /\ replacedBy[n] = Null
      /\ \A s \in RefreshTokens : replacedBy[s] # n
      /\ \A s \in RefreshTokens : family'[s] = IF s = n THEN f ELSE family[s]
      /\ \A s \in RefreshTokens : replacedBy'[s] = IF s = t THEN n ELSE replacedBy[s]
  <2>1. ~Exists(n) /\ Exists(t) /\ family[t] = f
    BY DEF IInv, HandlersJustified, RequestJustified, Rotate, CreateToken
  <2>2. family' = [family EXCEPT ![n] = f] /\ replacedBy' = [replacedBy EXCEPT ![t] = n]
    BY DEF Rotate, CreateToken
  <2> QED
    BY <2>1, <2>2, NullAssumption DEF IInv, TypeOK, RowsWhole, Lineage, Exists
<1>2. LinksInjective'
  BY <1>1 DEF LinksInv, LinksInjective
<1>3. /\ Tokens(f)' = Tokens(f) \cup {n} /\ n \notin Tokens(f) /\ t \in Tokens(f)
      /\ n \notin Tips(f) /\ n \notin Unlinked(f)
  BY <1>1, NullAssumption DEF Tokens, Tips, Unlinked
<1>4. IsFiniteSet(Tokens(f)) /\ Tips(f) \subseteq Tokens(f) /\ Unlinked(f) \subseteq Tokens(f)
  BY DEF LinksInv, TipsCounted, Tokens, Tips, Unlinked
<1>5. IsFiniteSet(Tips(f)) /\ IsFiniteSet(Unlinked(f)) /\ IsFiniteSet(Tips(f) \ {t})
  BY <1>4, FS_Subset
<1>6. /\ Cardinality(Tips(f)) = Cardinality(Unlinked(f))
      /\ Cardinality(Tips(f)) \in Nat /\ Cardinality(Tips(f) \ {t}) \in Nat
  BY <1>5, FS_CardinalityType DEF LinksInv, TipsCounted
<1>7. Cardinality(Tips(f)') = Cardinality(Unlinked(f)')
  <2>1. CASE replacedBy[t] = Null
    <3>1. /\ Tips(f)' = (Tips(f) \ {t}) \cup {n} /\ t \in Tips(f)
          /\ Unlinked(f)' = Unlinked(f)
      BY <1>1, <2>1, NullAssumption DEF Tokens, Tips, Unlinked
    <3>2. Cardinality(Tips(f) \ {t}) = Cardinality(Tips(f)) - 1
      BY <1>5, <3>1, FS_RemoveElement
    <3>3. Cardinality(Tips(f)') = Cardinality(Tips(f) \ {t}) + 1
      <4>1. n \notin Tips(f) \ {t}
        BY <1>3
      <4>2. Cardinality((Tips(f) \ {t}) \cup {n}) = Cardinality(Tips(f) \ {t}) + 1
        BY <1>5, <4>1, FS_AddElement
      <4> QED
        BY <3>1, <4>2
    <3> QED
      BY <1>6, <3>1, <3>2, <3>3
  <2>2. CASE replacedBy[t] # Null
    <3> PICK r \in RefreshTokens : r = replacedBy[t]
      BY <2>2 DEF IInv, TypeOK
    <3>1. family[r] = f /\ r # n /\ r # Null
      BY <1>1, <2>2 DEF IInv, Lineage
    <3>2. \A s \in RefreshTokens : s # t => replacedBy[s] # r
      BY <3>1 DEF LinksInv, LinksInjective
    <3>3. Tips(f)' = Tips(f) \cup {n}
      BY <1>1, <2>2, NullAssumption DEF Tokens, Tips
    <3>4. Unlinked(f)' = Unlinked(f) \cup {r} /\ r \notin Unlinked(f)
      <4>1. \A s \in RefreshTokens : replacedBy'[s] # r
        BY <1>1, <3>1, <3>2
      <4>2. \A x \in RefreshTokens : x # r => (x \in Unlinked(f)' <=> x \in Unlinked(f))
        BY <1>1, NullAssumption DEF Unlinked
      <4>3. r \in Unlinked(f)' /\ r \notin Unlinked(f)
        BY <1>1, <3>1, <4>1 DEF Unlinked
      <4> QED
        BY <4>2, <4>3 DEF Unlinked
    <3>5. /\ Cardinality(Tips(f)') = Cardinality(Tips(f)) + 1
          /\ Cardinality(Unlinked(f)') = Cardinality(Unlinked(f)) + 1
      <4>1. Cardinality(Tips(f) \cup {n}) = Cardinality(Tips(f)) + 1
        BY <1>3, <1>5, FS_AddElement
      <4>2. Cardinality(Unlinked(f) \cup {r}) = Cardinality(Unlinked(f)) + 1
        BY <1>5, <3>4, FS_AddElement
      <4> QED
        BY <3>3, <3>4, <4>1, <4>2
    <3> QED
      BY <1>6, <3>5
  <2> QED
    BY <2>1, <2>2
<1>8. IsFiniteSet(Tokens(f)')
  BY <1>3, <1>4, FS_AddElement
<1>9. ASSUME NEW g \in Families, g # f
      PROVE  Tokens(g)' = Tokens(g) /\ Tips(g)' = Tips(g) /\ Unlinked(g)' = Unlinked(g)
  <2>1. Tokens(g)' = Tokens(g) /\ Tips(g)' = Tips(g)
    BY <1>1, <1>9, NullAssumption DEF Tokens, Tips
  <2>2. \A s \in RefreshTokens : family[s] = g => s # n /\ replacedBy[t] # s
    BY <1>1, <1>9, NullAssumption DEF IInv, Lineage
  <2>3. Unlinked(g)' = Unlinked(g)
    BY <1>1, <1>9, <2>2 DEF Unlinked
  <2> QED
    BY <2>1, <2>3
<1>10. TipsCounted'
  BY <1>7, <1>8, <1>9 DEF LinksInv, TipsCounted
<1> QED
  BY <1>2, <1>10 DEF LinksInv

\* Every step keeps the count.
LEMMA LinksStep == IInv /\ LinksInv /\ [Next]_vars => LinksInv'
<1> SUFFICES ASSUME IInv, LinksInv, [Next]_vars PROVE LinksInv'
  OBVIOUS
<1>1. \/ UNCHANGED <<family, replacedBy>>
      \/ \E h \in Handlers, t \in RefreshTokens, f \in Families : IssueTokenPair(h, t, f)
      \/ \E h \in Handlers, n \in RefreshTokens : Rotate(h, n)
  BY DEF Next, Register, ValidateCredentials, PresentRevoked, PresentLive, RevokeFamily,
         RevokeToken, RevokeAllForUser, RevokeWhere, Deactivate, Fail, Tick, vars, rows
<1> QED
  BY <1>1, LinksKept, LinksIssue, LinksRotate

\* There is no token at first.
LEMMA LinksInit == Init => LinksInv
<1> SUFFICES ASSUME Init PROVE LinksInv
  OBVIOUS
<1>1. \A f \in Families : Tokens(f) = {} /\ Tips(f) = {} /\ Unlinked(f) = {}
  BY NullAssumption DEF Init, Tokens, Tips, Unlinked
<1> QED
  BY <1>1, FS_EmptySet DEF Init, LinksInv, LinksInjective, TipsCounted

\* A live token has no replacement, so the live ones are no more than those.
LEMMA LiveAreTips == IInv /\ LinksInv => LiveTokensTraced
<1> SUFFICES ASSUME IInv, LinksInv, NEW f \in Families
             PROVE  Cardinality(Live(f)) <= Cardinality(Unlinked(f))
  BY DEF LiveTokensTraced
<1>1. Live(f) \subseteq Tips(f)
  BY DEF IInv, Lineage, Live, Tips, Tokens
<1>2. IsFiniteSet(Tips(f))
  <2>1. IsFiniteSet(Tokens(f)) /\ Tips(f) \subseteq Tokens(f)
    BY DEF LinksInv, TipsCounted, Tips
  <2> QED
    BY <2>1, FS_Subset
<1>3. Cardinality(Live(f)) <= Cardinality(Tips(f))
  BY <1>1, <1>2, FS_Subset
<1> QED
  BY <1>3 DEF LinksInv, TipsCounted

\* Whatever rotations overlap: for each live token of a family beyond the first
\* there is a row that no rotation on record led to.
THEOREM NoUntracedToken == Spec => []LiveTokensTraced
  BY LinksInit, LinksStep, LiveAreTips, Invariance, PTL DEF Spec

-----------------------------------------------------------------------------
(* The sessions, with any requests in flight *)

MappedSession == [f \in Families |-> SessionOf(f)]
MappedRotating == {f \in Families : InRotation(f)}

\* A step that leaves the rows alone leaves the sessions as they are.
LEMMA SessionKept ==
    ASSUME UNCHANGED rows
    PROVE  UNCHANGED MappedSession
<1>1. \A f \in Families : SessionOf(f)' = SessionOf(f)
  BY DEF rows, SessionOf, Live, Opened
<1> QED
  BY <1>1 DEF MappedSession

\* Only a request that rotates before or after it has anything to do with it.
LEMMA RotatingKept ==
    ASSUME TypeOK, NEW h \in Handlers, NEW q,
           req[h].pc # "rotate", q.pc # "rotate", req' = [req EXCEPT ![h] = q]
    PROVE  UNCHANGED MappedRotating
<1>1. \A g \in Handlers : req'[g] = IF g = h THEN q ELSE req[g]
  BY DEF TypeOK
<1>2. \A f \in Families : InRotation(f)' <=> InRotation(f)
  BY <1>1 DEF InRotation
<1> QED
  BY <1>2 DEF MappedRotating

\* A rotation that is done or dies may have been the last one of its session.
LEMMA RotatingEnds ==
    ASSUME TypeOK, NEW h \in Handlers, req[h].pc = "rotate", Finish(h)
    PROVE  MappedRotating' \in {MappedRotating, MappedRotating \ {req[h].family}}
<1>1. \A g \in Handlers : req'[g] = IF g = h THEN NoRequest ELSE req[g]
  BY DEF TypeOK, Finish
<1>2. ASSUME NEW f \in Families, f # req[h].family
      PROVE  InRotation(f)' <=> InRotation(f)
  BY <1>1, <1>2 DEF InRotation, NoRequest
<1>3. InRotation(req[h].family)
  BY DEF InRotation
<1> QED
  BY <1>2, <1>3 DEF MappedRotating

\* A token that passes the checks belongs to an open session.
LEMMA PresentLiveAdmits ==
    ASSUME IInv, NEW h \in Handlers, NEW t \in RefreshTokens, PresentLive(h, t)
    PROVE  Sessions!Admit(family[t]) /\ family[t] \in Families
<1>1. /\ family[t] \in Families /\ t \in Live(family[t])
      /\ req[h].pc = "idle" /\ UNCHANGED rows
  BY DEF PresentLive, Live, IInv, TypeOK, RowsWhole
<1>2. SessionOf(family[t]) = "open"
  BY <1>1 DEF SessionOf, Opened, Live
<1>3. \A g \in Handlers : req'[g] = IF g = h
                                    THEN Rotating(userId[t], t, family[t], now + refreshTtlMs)
                                    ELSE req[g]
  BY DEF PresentLive, IInv, TypeOK
<1>4. \A f \in Families : InRotation(f)' <=> InRotation(f) \/ f = family[t]
  BY <1>1, <1>3 DEF InRotation, Rotating
<1>5. MappedRotating' = MappedRotating \cup {family[t]}
  BY <1>1, <1>4 DEF MappedRotating
<1>6. MappedSession[family[t]] = "open" /\ UNCHANGED MappedSession
  BY <1>1, <1>2, SessionKept DEF MappedSession
<1> QED
  BY <1>1, <1>5, <1>6 DEF Sessions!Admit, MappedSession, MappedRotating

\* A login opens its session.
LEMMA IssueOpens ==
    ASSUME IInv, NEW h \in Handlers, NEW t \in RefreshTokens, NEW f \in Families,
           IssueTokenPair(h, t, f)
    PROVE  Sessions!Open(f)
<1>1. /\ SessionOf(f) = "unused" /\ SessionOf(f)' = "open"
      /\ \A g \in Families : g # f => SessionOf(g)' = SessionOf(g)
  BY IssueEffect DEF SessionOf
<1>2. MappedSession[f] = "unused" /\ MappedSession' = [MappedSession EXCEPT ![f] = "open"]
  BY <1>1 DEF MappedSession
<1>3. UNCHANGED MappedRotating
  BY RotatingKept DEF IssueTokenPair, Finish, NoRequest, IInv
<1> QED
  BY <1>2, <1>3 DEF Sessions!Open, MappedSession, MappedRotating

\* The transaction of a rotation leaves its session open.
LEMMA RotateOpens ==
    ASSUME IInv, NEW h \in Handlers, NEW n \in RefreshTokens, Rotate(h, n)
    PROVE  \E f \in Families : Sessions!Rotate(f)
<1>1. PICK t \in RefreshTokens, f \in Families :
             /\ t = req[h].token /\ f = req[h].family /\ family[t] = f
             /\ Live(f)' = (Live(f) \ {t}) \cup {n}
             /\ \A g \in Families : /\ g # f => Live(g)' = Live(g)
                                    /\ Opened(g)' = Opened(g)
  BY RotateEffect
<1>2. Opened(f)
  BY <1>1 DEF Opened
<1>3. \A g \in Families : SessionOf(g)' = IF g = f THEN "open" ELSE SessionOf(g)
  BY <1>1, <1>2 DEF SessionOf
<1>4. MappedSession' = [MappedSession EXCEPT ![f] = "open"]
  BY <1>3 DEF MappedSession
<1>5. f \in MappedRotating /\ MappedRotating' \in {MappedRotating, MappedRotating \ {f}}
  BY <1>1, RotatingEnds DEF Rotate, IInv, MappedRotating, InRotation
<1> QED
  BY <1>4, <1>5 DEF Sessions!Rotate, MappedSession, MappedRotating

\* A revocation ends the sessions it leaves without a live token.
LEMMA RevokeEnds ==
    ASSUME IInv, NEW S \in SUBSET RefreshTokens, RevokeWhere(S), UNCHANGED MappedRotating
    PROVE  Sessions!Next
<1> DEFINE ends == {f \in Families : SessionOf(f) = "open" /\ Live(f) \ S = {}}
<1>1. \A f \in Families : Live(f)' = Live(f) \ S /\ Opened(f)' = Opened(f)
  BY RevokeEffect
<1>2. \A f \in Families : SessionOf(f)' = IF f \in ends THEN "ended" ELSE SessionOf(f)
  BY <1>1 DEF SessionOf
<1>3. /\ \A f \in ends : MappedSession[f] = "open"
      /\ MappedSession' = [f \in Families |-> IF f \in ends THEN "ended" ELSE MappedSession[f]]
  BY <1>2 DEF MappedSession
<1>4. ends \in SUBSET Families /\ Sessions!End(ends)
  BY <1>3 DEF Sessions!End, MappedSession, MappedRotating
<1> QED
  BY <1>4 DEF Sessions!Next

\* A request that fails gives up its rotation, if that is what it was.
LEMMA FailDrops ==
    ASSUME IInv, NEW h \in Handlers, Fail(h)
    PROVE  Sessions!Next \/ UNCHANGED <<MappedSession, MappedRotating>>
<1>1. UNCHANGED MappedSession
  BY SessionKept DEF Fail
<1>2. CASE req[h].pc = "rotate"
  <2>1. req[h].family \in Families
    BY <1>2 DEF IInv, TypeOK, HandlersJustified, RequestJustified, RowsWhole
  <2>2. MappedRotating' \in {MappedRotating, MappedRotating \ {req[h].family}}
    BY <1>2, RotatingEnds DEF Fail, IInv
  <2>3. MappedRotating' = MappedRotating \/ Sessions!Drop(req[h].family)
    BY <1>1, <2>2 DEF Sessions!Drop, MappedSession, MappedRotating
  <2> QED
    BY <1>1, <2>1, <2>3 DEF Sessions!Next
<1>3. CASE req[h].pc # "rotate"
  BY <1>1, <1>3, RotatingKept DEF Fail, Finish, NoRequest, IInv
<1> QED
  BY <1>2, <1>3

\* Every step is a step of Sessions, or changes no session.
LEMMA SessionsStep ==
    ASSUME IInv, [Next]_vars
    PROVE  Sessions!Next \/ UNCHANGED <<MappedSession, MappedRotating>>
<1>0. TypeOK
  BY DEF IInv
<1>1. ASSUME NEW h \in Handlers, NEW t \in RefreshTokens, NEW f \in Families,
             IssueTokenPair(h, t, f)
      PROVE  Sessions!Next
  BY <1>1, IssueOpens DEF Sessions!Next
<1>2. ASSUME NEW h \in Handlers, NEW t \in RefreshTokens, PresentLive(h, t)
      PROVE  Sessions!Next
  BY <1>2, PresentLiveAdmits DEF Sessions!Next
<1>3. ASSUME NEW h \in Handlers, NEW n \in RefreshTokens, Rotate(h, n)
      PROVE  Sessions!Next
  BY <1>3, RotateOpens DEF Sessions!Next
<1>4. ASSUME NEW h \in Handlers, RevokeFamily(h)
      PROVE  Sessions!Next
  <2>1. UNCHANGED MappedRotating
    BY <1>0, <1>4, RotatingKept DEF RevokeFamily, Finish, NoRequest
  <2> QED
    BY <1>4, <2>1, RevokeEnds DEF RevokeFamily
<1>5. ASSUME UNCHANGED req
      PROVE  UNCHANGED MappedRotating
  <2>1. \A f \in Families : InRotation(f)' <=> InRotation(f)
    BY <1>5 DEF InRotation
  <2> QED
    BY <2>1 DEF MappedRotating
<1>6. ASSUME NEW h \in Handlers, NEW t \in RefreshTokens, RevokeToken(h, t)
      PROVE  Sessions!Next
  BY <1>5, <1>6, RevokeEnds DEF RevokeToken
<1>7. ASSUME NEW h \in Handlers, NEW u \in Users, RevokeAllForUser(h, u)
      PROVE  Sessions!Next
  BY <1>5, <1>7, RevokeEnds DEF RevokeAllForUser
<1>8. ASSUME NEW h \in Handlers, NEW u \in Users, Register(h, u) \/ ValidateCredentials(h, u)
      PROVE  UNCHANGED <<MappedSession, MappedRotating>>
  BY <1>0, <1>8, SessionKept, RotatingKept DEF Register, ValidateCredentials, Issuing
<1>9. ASSUME NEW h \in Handlers, NEW t \in RefreshTokens, PresentRevoked(h, t)
      PROVE  UNCHANGED <<MappedSession, MappedRotating>>
  BY <1>0, <1>9, SessionKept, RotatingKept DEF PresentRevoked, Revoking
<1>10. CASE Tick \/ (\E h \in Handlers, u \in Users : Deactivate(h, u)) \/ UNCHANGED vars
  <2>1. UNCHANGED rows /\ UNCHANGED req
    BY <1>10 DEF Tick, Deactivate, vars
  <2> QED
    BY <1>5, <2>1, SessionKept
<1> QED
  BY <1>1, <1>2, <1>3, <1>4, <1>6, <1>7, <1>8, <1>9, <1>10, FailDrops DEF Next

\* No session is open, and none in rotation, at first.
LEMMA SessionsInit == Init => Sessions!Init
  BY NullAssumption DEF Init, Sessions!Init, SessionOf, Opened, InRotation, NoRequest

\* With any requests in flight: a session is open from its login to its end, it
\* is rotated only while it is open, and once it has ended and the rotations let
\* through before are through it has ended for good.
THEOREM SessionsRefinement == Spec => ImplementsSessions
<1>1. IInv /\ [Next]_vars => [Sessions!Next]_<<MappedSession, MappedRotating>>
  BY SessionsStep
<1> QED
  BY <1>1, SessionsInit, Invariance, PTL
     DEF Spec, ImplementsSessions, Sessions!Spec, MappedSession, MappedRotating
===============================================================================
