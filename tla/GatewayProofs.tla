---------------------------- MODULE GatewayProofs ----------------------------
(***************************************************************************)
(* Proofs about Gateway, for any clients, tokens, clocks and delays.       *)
(***************************************************************************)
EXTENDS Gateway, RateLimiterProofs

\* Everything the gateway does to the limiter is the limiter's own step.
LEMMA GatewayProjects ==
    ASSUME [GatewayNext]_gatewayVars
    PROVE  [Next]_vars
<1>1. ASSUME NEW r \in Requests, NEW in \in Clients, NEW skew \in Skews, Limit(r, in, skew)
      PROVE  Next
  <2>1. in \in Inbound
    BY ClientsAssumption
  <2>2. KeyOf(in) \in Keys
    BY <2>1, KeysAssumption DEF KeyOf, GatewayKeys, Inbound
  <2> QED
    BY <1>1, <2>2 DEF Limit, Next
<1>2. ASSUME UNCHANGED gatewayVars
      PROVE  UNCHANGED vars
  BY <1>2 DEF gatewayVars
<1> QED
  BY <1>1, <1>2 DEF GatewayNext, Next, Pass

-----------------------------------------------------------------------------
(* The inductive invariant *)

\* A call is that of a request received, under the key of the request.
CallsRouted ==
    \A r \in Requests : Called(r) => inbound[r] \in Inbound /\ call[r].key = KeyOf(inbound[r])

\* Who is let through was accepted by the script.
DecisionsBacked == \A r \in Requests : decision[r] = "allowed" => reply[r].ran /\ reply[r].allowed

\* Only calls get decided on.
DecisionsCalled == \A r \in Requests : decision[r] # "none" => Called(r)

\* A log holds calls under its own key.
LogsOwn ==
    \A k \in Keys : \A e \in zset[k] :
        e.member \in Requests /\ Called(e.member) /\ call[e.member].key = k

GwInv ==
    /\ WInv
    /\ inbound \in [Requests -> Inbound \cup {Nothing}]
    /\ CallsRouted /\ DecisionsBacked /\ DecisionsCalled /\ LogsOwn

\* The invariant holds initially.
LEMMA GwInitInv == GatewayInit => GwInv
<1> SUFFICES ASSUME GatewayInit PROVE GwInv
  OBVIOUS
<1>1. WInv
  BY InitWInv DEF GatewayInit
<1>2. \A r \in Requests : ~Called(r)
  BY DEF GatewayInit, Init, Called, NoCall
<1> QED
  BY <1>1, <1>2 DEF GatewayInit, Init, GwInv, CallsRouted, DecisionsBacked, DecisionsCalled, LogsOwn

\* A request that has just arrived has not been called.
LEMMA ArrivesUncalled ==
    ASSUME GwInv, NEW r \in Requests, NEW in \in Clients, Arrives(r, in)
    PROVE  /\ ~Called(r) /\ in \in Inbound
           /\ inbound' \in [Requests -> Inbound \cup {Nothing}]
           /\ inbound'[r] = in /\ \A q \in Requests : q # r => inbound'[q] = inbound[q]
<1>1. Nothing \notin Inbound
  BY IdentityAssumption DEF Nothing, Inbound
<1>2. inbound[r] = Nothing
  BY DEF Arrives, Received
<1> QED
  BY <1>1, <1>2, ClientsAssumption DEF Arrives, GwInv, CallsRouted

\* The script of r changes the log of r's key, to which it may add r.
LEMMA ScriptLogs ==
    ASSUME GwInv, NEW r \in Requests, SlidingWindow(r)
    PROVE  /\ \A k \in Keys : \A e \in zset'[k] : e \in zset[k] \/ (k = call[r].key /\ e.member = r)
           /\ \A q \in Requests : q # r => reply'[q] = reply[q]
           /\ UNCHANGED <<call, decision>> /\ Called(r) /\ ~reply[r].ran
<1> DEFINE k == call[r].key
           e == [member |-> r, score |-> call[r].stamp]
<1>1. zset' = [zset EXCEPT ![k] = Pruned(k, call[r].stamp) \cup {e}]
      \/ zset' = [zset EXCEPT ![k] = Pruned(k, call[r].stamp)]
  BY DEF SlidingWindow
<1>2. Pruned(k, call[r].stamp) \subseteq zset[k] /\ e.member = r
  BY DEF Pruned, Log
<1>3. k \in Keys
  BY ScriptTimes DEF GwInv
<1> HIDE DEF e
<1>4. \A j \in Keys : \A x \in zset'[j] : x \in zset[j] \/ (j = k /\ x.member = r)
  BY <1>1, <1>2, <1>3 DEF GwInv, WInv, IInv, TypeOK
<1>5. \E y : reply' = [reply EXCEPT ![r] = y]
  BY DEF SlidingWindow
<1>6. \A q \in Requests : q # r => reply'[q] = reply[q]
  BY <1>5 DEF GwInv, WInv, IInv, TypeOK
<1> QED
  BY <1>4, <1>6 DEF SlidingWindow

\* Every step of the gateway preserves the invariant.
LEMMA GwNextInv ==
    ASSUME GwInv, [GatewayNext]_gatewayVars
    PROVE  GwInv'
<1> USE DEF GwInv
<1>0. WInv' /\ TypeOK
  BY GatewayProjects, NextWInv DEF WInv, IInv
<1>1. ASSUME NEW r \in Requests, NEW in \in Clients, Pass(r, in)
      PROVE  GwInv'
  <2>1. UNCHANGED vars /\ Arrives(r, in)
    BY <1>1 DEF Pass
  <2>2. CallsRouted'
    BY <2>1, ArrivesUncalled DEF vars, CallsRouted, Called
  <2> QED
    BY <1>0, <2>1, <2>2, ArrivesUncalled DEF vars, DecisionsBacked, DecisionsCalled, LogsOwn, Called
<1>2. ASSUME NEW r \in Requests, NEW in \in Clients, NEW skew \in Skews, Limit(r, in, skew)
      PROVE  GwInv'
  <2> DEFINE c == [key |-> KeyOf(in), stamp |-> now + skew, sentAt |-> now]
  <2>1. /\ Arrives(r, in) /\ call' = [call EXCEPT ![r] = c]
        /\ UNCHANGED <<zset, reply, decision>>
    BY <1>2 DEF Limit, Consume
  <2>2. c.key = KeyOf(in) /\ KeyOf(in) # Null
    <3>1. KeyOf(in) \in Keys
      BY ClientsAssumption, KeysAssumption DEF KeyOf, GatewayKeys, Inbound
    <3> QED
      BY <3>1, NullAssumption
  <2> HIDE DEF c
  <2>3. call'[r] = c /\ \A q \in Requests : q # r => call'[q] = call[q]
    BY <1>0, <2>1 DEF TypeOK
  <2>4. ~Called(r) /\ \A q \in Requests : Called(q) => Called(q)' /\ call'[q] = call[q]
    BY <2>1, <2>3, ArrivesUncalled DEF Called
  <2>5. CallsRouted'
    BY <2>1, <2>2, <2>3, ArrivesUncalled DEF CallsRouted, Called
  <2>6. DecisionsBacked' /\ DecisionsCalled' /\ LogsOwn'
    BY <2>1, <2>4 DEF DecisionsBacked, DecisionsCalled, LogsOwn
  <2> QED
    BY <1>0, <2>1, <2>5, <2>6, ArrivesUncalled
<1>3. ASSUME NEW r \in Requests, SlidingWindow(r), UNCHANGED inbound
      PROVE  GwInv'
  <2>1. CallsRouted' /\ DecisionsCalled'
    BY <1>3, ScriptLogs DEF CallsRouted, DecisionsCalled, Called
  <2>2. DecisionsBacked'
    <3>1. decision[r] # "allowed"
      BY <1>3, ScriptLogs DEF DecisionsBacked
    <3> QED
      BY <1>3, <3>1, ScriptLogs DEF DecisionsBacked
  <2>3. LogsOwn'
    BY <1>3, ScriptLogs DEF LogsOwn, Called
  <2> QED
    BY <1>0, <1>3, <2>1, <2>2, <2>3
<1>4. ASSUME NEW r \in Requests, Return(r) \/ TimeOut(r) \/ RedisFails(r), UNCHANGED inbound
      PROVE  GwInv'
  <2>1. /\ Called(r)
        /\ \E d : /\ decision' = [decision EXCEPT ![r] = d]
                  /\ d = "allowed" => reply[r].ran /\ reply[r].allowed
        /\ UNCHANGED <<zset, call, reply>>
    BY <1>4 DEF Return, TimeOut, RedisFails, Waiting
  <2>2. DecisionsBacked' /\ DecisionsCalled'
    BY <1>0, <2>1 DEF TypeOK, DecisionsBacked, DecisionsCalled, Called
  <2>3. CallsRouted' /\ LogsOwn'
    BY <1>4, <2>1 DEF CallsRouted, LogsOwn, Called
  <2> QED
    BY <1>0, <1>4, <2>2, <2>3
<1>5. ASSUME UNCHANGED <<zset, call, reply, decision, inbound>>
      PROVE  GwInv'
  BY <1>0, <1>5 DEF CallsRouted, DecisionsBacked, DecisionsCalled, LogsOwn, Called
<1> QED
  BY <1>1, <1>2, <1>3, <1>4, <1>5 DEF GatewayNext, gatewayVars, vars, Tick, Respond

\* The invariant holds in every reachable state.
LEMMA GwInvariance == GatewaySpec => []GwInv
  BY GwInitInv, GwNextInv, PTL DEF GatewaySpec

-----------------------------------------------------------------------------
(* What the gateway promises *)

\* The gateway uses the limiter as the limiter is meant to be used: every behaviour
\* of use() is, of the limiter, one of its own.
THEOREM GatewayUsesLimiter == GatewaySpec => Spec
<1>1. GatewayInit => Init
  BY DEF GatewayInit
<1>2. [GatewayNext]_gatewayVars => [Next]_vars
  BY GatewayProjects
<1> QED
  BY <1>1, <1>2, PTL DEF GatewaySpec, Spec

\* What the limiter promises it promises behind the gateway, whatever requests
\* come in and whatever tokens they carry (WindowLimited and RetryExact).
THEOREM LimiterBehindGateway == GatewaySpec => []WindowLimited /\ RetryExact
  BY GatewayUsesLimiter, WindowIsLimited, RetryIsExact, PTL

\* Whatever tokens they carry, the logins and refreshes of an address that the limiter
\* allows stay within authMaxRequests: GatewayMiddleware.use counts them for the address.
\* It says nothing of those that go through while the limiter fails open.
THEOREM AuthQuotaHolds == GatewaySpec => []AuthQuota
<1>1. ASSUME GwInv, NEW ip \in Ips, NEW t \in 0..(MaxTime + MaxSkew)
      PROVE  Cardinality({r \in Requests :
                /\ isAuthRateLimitScope(inbound[r].path) /\ inbound[r].ip = ip
                /\ decision[r] = "allowed"
                /\ t - (windowMs - MaxDelay - MaxSkew) < call[r].stamp /\ call[r].stamp <= t})
              <= authMaxRequests
  <2> DEFINE k == <<"auth", ip>>
             S == Stamps(k, t - (windowMs - MaxDelay - MaxSkew), t)
             T == {r \in Requests :
                     /\ isAuthRateLimitScope(inbound[r].path) /\ inbound[r].ip = ip
                     /\ decision[r] = "allowed"
                     /\ t - (windowMs - MaxDelay - MaxSkew) < call[r].stamp /\ call[r].stamp <= t}
  <2> SUFFICES Cardinality(T) <= authMaxRequests
    OBVIOUS
  <2>1. k \in Keys /\ limit[k] = authMaxRequests
    BY KeysAssumption DEF GatewayKeys, GatewayLimits
  <2>2. Cardinality(S) <= authMaxRequests
    BY <1>1, <2>1 DEF GwInv, WInv, WindowLimited
  <2>3. \A r \in T : call[r].key = k /\ reply[r].allowed
    BY <1>1 DEF GwInv, CallsRouted, DecisionsBacked, DecisionsCalled, KeyOf
  <2>4. T \subseteq S
    BY <2>3 DEF Stamps
  <2>5. IsFiniteSet(S)
    BY RequestsAssumption, FS_Subset DEF Stamps
  <2> HIDE DEF S, T
  <2>6. Cardinality(T) <= Cardinality(S) /\ IsFiniteSet(T)
    BY <2>4, <2>5, FS_Subset
  <2>7. Cardinality(T) \in Nat /\ Cardinality(S) \in Nat /\ authMaxRequests \in Nat
    BY <2>5, <2>6, FS_CardinalityType, QuotaAssumption
  <2> QED
    BY <2>2, <2>6, <2>7
<1>2. GwInv => AuthQuota
  BY <1>1 DEF AuthQuota
<1> QED
  BY <1>2, GwInvariance, PTL

\* A user is turned away only for requests of the same user: no two users share a
\* key, and an address is no user.
THEOREM OwnQuotaHolds == GatewaySpec => []OwnQuota
<1>1. ASSUME GwInv, NEW r \in Requests, decision[r] = "denied", inbound[r].user # Null,
             ~isAuthRateLimitScope(inbound[r].path), NEW e \in zset[call[r].key]
      PROVE  inbound[e.member].user = inbound[r].user
  <2> DEFINE q == e.member
  <2>1. Called(r) /\ inbound[r] \in Inbound /\ call[r].key = <<"general", inbound[r].user>>
    BY <1>1 DEF GwInv, DecisionsCalled, CallsRouted, KeyOf
  <2>2. call[r].key \in Keys
    BY <1>1, <2>1 DEF GwInv, WInv, IInv, TypeOK, Call, Called
  <2>3. /\ q \in Requests /\ inbound[q] \in Inbound /\ call[r].key = KeyOf(inbound[q])
    BY <1>1, <2>2 DEF GwInv, LogsOwn, CallsRouted
  <2> HIDE DEF q
  <2>4. inbound[r].user = IF inbound[q].user # Null THEN inbound[q].user ELSE inbound[q].ip
    BY <2>1, <2>3 DEF KeyOf
  <2>5. inbound[q].ip \in Ips /\ inbound[r].user \in Users
    BY <1>1, <2>1, <2>3 DEF Inbound
  <2>6. inbound[q].user = inbound[r].user
    BY <2>4, <2>5, IdentityAssumption
  <2> QED
    BY <2>6 DEF q
<1>2. GwInv => OwnQuota
  BY <1>1 DEF OwnQuota
<1> QED
  BY <1>2, GwInvariance, PTL

==============================================================================
