------------------------------- MODULE Gateway -------------------------------
(***************************************************************************)
(* api-gateway: the pipeline GatewayMiddleware runs for every request,     *)
(* over the rate limiter its replicas share.                               *)
(*                                                                         *)
(* A path stands for every path that is routed and limited like it; the    *)
(* prefix is stripped.  Left out: the headers, and what the services       *)
(* behind the gateway answer.                                              *)
(***************************************************************************)
EXTENDS RateLimiter

CONSTANTS
    Ips,              \* client addresses
    Users,            \* the sub claims of tokens that verify
    Clients,          \* the requests clients may send
    authMaxRequests, generalMaxRequests  \* rateLimit.*

VARIABLES
    inbound,  \* the requests received
    answer    \* what became of them

gatewayVars == <<vars, inbound, answer>>

Paths == {"/healthz", "/dashboard", "/auth/login", "/auth/refresh", "/auth/logout",
          "/users", "/leads", "/ai", "/other"}

resolveRoute(path) ==
    CASE path \in {"/healthz", "/dashboard"} -> "local"
      [] path \in {"/auth/login", "/auth/refresh", "/auth/logout", "/users"} -> "user"
      [] path = "/leads" -> "lead"
      [] path = "/ai" -> "ai"
      [] OTHER -> "not-found"

isAuthRateLimitScope(path) == path \in {"/auth/login", "/auth/refresh"}

\* A request: its path, its address, and whom its token names, if it verifies.
Inbound == [path : Paths, ip : Ips, user : Users \cup {Null}]
Nothing == [path |-> "/other", ip |-> Null, user |-> Null]

\* The limiter's keys.
GatewayKeys == {"auth", "general"} \X (Ips \cup Users)
GatewayLimits ==
    [k \in GatewayKeys |-> IF k[1] = "auth" THEN authMaxRequests ELSE generalMaxRequests]

ASSUME KeysAssumption == Keys = GatewayKeys /\ limit = GatewayLimits
ASSUME IdentityAssumption == Null \notin Ips /\ Null \notin Users /\ Ips \cap Users = {}
ASSUME ClientsAssumption == Clients \subseteq Inbound /\ Requests \subseteq Nat
ASSUME QuotaAssumption == authMaxRequests \in Nat /\ generalMaxRequests \in Nat

GatewayInit ==
    /\ Init
    /\ inbound = [r \in Requests |-> Nothing]
    /\ answer = [r \in Requests |-> "none"]

Received(r) == inbound[r] # Nothing

-----------------------------------------------------------------------------

\* Mutant: a login is counted for whoever its token names.
KeyOf_ByUser(in) ==
    <<IF isAuthRateLimitScope(in.path) THEN "auth" ELSE "general",
      IF in.user # Null THEN in.user ELSE in.ip>>

\* Mutant: every request is counted for its address.
KeyOf_ByIp(in) == <<IF isAuthRateLimitScope(in.path) THEN "auth" ELSE "general", in.ip>>

\* scope and identity
KeyOf(in) ==
    IF isAuthRateLimitScope(in.path) THEN <<"auth", in.ip>>
    ELSE <<"general", IF in.user # Null THEN in.user ELSE in.ip>>

\* Requests are numbered as they arrive.
Arrives(r, in) ==
    /\ ~Received(r) /\ \A q \in Requests : q < r => Received(q)
    /\ inbound' = [inbound EXCEPT ![r] = in]

\* use() for a request that is never limited: no route, or /healthz.
Pass(r, in) ==
    /\ Arrives(r, in)
    /\ resolveRoute(in.path) = "not-found" \/ in.path = "/healthz"
    /\ answer' = [answer EXCEPT ![r] =
                    IF resolveRoute(in.path) = "not-found" THEN "404" ELSE "local"]
    /\ UNCHANGED vars

\* use() up to the await of consume().  Verifying the token before it touches
\* nothing that is shared.
Limit(r, in, skew) ==
    /\ Arrives(r, in)
    /\ resolveRoute(in.path) # "not-found" /\ in.path # "/healthz"
    /\ Consume(r, KeyOf(in), skew)
    /\ UNCHANGED answer

\* What a proxy may answer: what its service does, or that it is unavailable.
buildProxy(service) == {service, "502"}

\* The rest of use(), in the turn in which consume() returns: 429, or on to the
\* controller or to a proxy.
Respond(r) ==
    /\ LET route == resolveRoute(inbound[r].path) IN
       \E a \in IF decision'[r] = "denied" THEN {"429"}
                ELSE IF route = "local" THEN {"local"} ELSE buildProxy(route) :
          answer' = [answer EXCEPT ![r] = a]
    /\ UNCHANGED inbound

GatewayNext ==
    \/ \E r \in Requests, in \in Clients : Pass(r, in)
    \/ \E r \in Requests, in \in Clients, skew \in Skews : Limit(r, in, skew)
    \/ \E r \in Requests : SlidingWindow(r) /\ UNCHANGED <<inbound, answer>>
    \/ \E r \in Requests : (Return(r) \/ TimeOut(r) \/ RedisFails(r)) /\ Respond(r)
    \/ Tick /\ UNCHANGED <<inbound, answer>>

GatewaySpec == GatewayInit /\ [][GatewayNext]_gatewayVars

\* The gateway's timers fire and the clock goes on.  Nothing is assumed of Redis:
\* its scripts may never run, and commands may neither return nor be rejected.
FairGatewaySpec ==
    /\ GatewaySpec
    /\ \A r \in Requests : WF_gatewayVars(TimeOut(r) /\ Respond(r))
    /\ WF_gatewayVars(Tick /\ UNCHANGED <<inbound, answer>>)

-----------------------------------------------------------------------------
(* Properties *)

\* Whatever tokens they carry, the logins and refreshes of one address that the
\* limiter allows stay within authMaxRequests (the window as in WindowLimited); those
\* it lets through because Redis fails or is late are not counted by anybody.
AuthQuota ==
    \A ip \in Ips, t \in 0..(MaxTime + MaxSkew) :
        Cardinality({r \in Requests :
            /\ isAuthRateLimitScope(inbound[r].path) /\ inbound[r].ip = ip
            /\ decision[r] = "allowed"
            /\ t - (windowMs - MaxDelay - MaxSkew) < call[r].stamp /\ call[r].stamp <= t})
          <= authMaxRequests

\* A user is turned away only for what the same user has sent, from whatever
\* address, and never for others behind the same address.
OwnQuota ==
    \A r \in Requests :
        decision[r] = "denied" /\ inbound[r].user # Null
            /\ ~isAuthRateLimitScope(inbound[r].path)
          => \A e \in zset[call[r].key] : inbound[e.member].user = inbound[r].user

\* "a slow or unresponsive Redis must never turn into an indefinite hang": a
\* request that asks the limiter is answered, though Redis need not.
Answered == \A r \in Requests : Called(r) ~> answer[r] # "none"

===============================================================================
