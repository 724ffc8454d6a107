----------------------------- MODULE RateLimiter -----------------------------
(***************************************************************************)
(* The gateway's sliding-window rate limiter: a log of accepted requests   *)
(* per key in one Redis, shared by every gateway replica.                  *)
(*                                                                         *)
(* A request is stamped with its replica's clock when consume() is called, *)
(* and the script runs on Redis some time later, so scripts need not run   *)
(* in the order of their stamps.  A script whose caller has given up may   *)
(* still run.                                                              *)
(***************************************************************************)
EXTENDS Integers, FiniteSets

CONSTANTS
    Keys,       \* ratelimit:{scope}:{identity}
    Requests,   \* the calls of consume(); each is the member it adds
    limit,      \* the limit of each key
    windowMs,   \* rateLimit.windowMs
    timeoutMs,  \* REDIS_TIMEOUT_MS
    Skews,      \* how far ahead the replicas' clocks may be
    MaxDelay,   \* bound: a script runs at most this long after the call
    MaxTime,    \* bound: the clock stops here
    Null

ASSUME LimitAssumption == limit \in [Keys -> Nat]
ASSUME TimesAssumption ==
    /\ windowMs \in Nat \ {0} /\ timeoutMs \in Nat \ {0}
    /\ MaxDelay \in Nat /\ MaxTime \in Nat
    /\ Skews \subseteq Nat /\ 0 \in Skews /\ \E s \in Skews : \A t \in Skews : t <= s
ASSUME RequestsAssumption == IsFiniteSet(Requests)
ASSUME NullAssumption == Null \notin Keys /\ Null \notin Requests

VARIABLES
    now,       \* the time
    zset,      \* the log: members and their scores
    expireAt,  \* when Redis drops the key
    call,      \* the arguments of the calls made
    reply,     \* what the script returned
    decision   \* what consume() returned

vars == <<now, zset, expireAt, call, reply, decision>>

Entry == [member : Requests, score : Nat]
Call == [key : Keys \cup {Null}, stamp : Nat, sentAt : Nat]
Reply == [ran : BOOLEAN, allowed : BOOLEAN, remaining : Nat, retryAfterMs : Int]
Decisions == {"none", "allowed", "denied", "failedOpen"}

NoCall == [key |-> Null, stamp |-> 0, sentAt |-> 0]
NoReply == [ran |-> FALSE, allowed |-> FALSE, remaining |-> 0, retryAfterMs |-> 0]

TypeOK ==
    /\ now \in Nat
    /\ zset \in [Keys -> SUBSET Entry]
    /\ expireAt \in [Keys -> Nat]
    /\ call \in [Requests -> Call]
    /\ reply \in [Requests -> Reply]
    /\ decision \in [Requests -> Decisions]

Init ==
    /\ now = 0
    /\ zset = [k \in Keys |-> {}]
    /\ expireAt = [k \in Keys |-> 0]
    /\ call = [r \in Requests |-> NoCall]
    /\ reply = [r \in Requests |-> NoReply]
    /\ decision = [r \in Requests |-> "none"]

Called(r) == call[r].key # Null

-----------------------------------------------------------------------------
(* SLIDING_WINDOW_LUA *)

\* The log as the script finds it: Redis drops a key that has expired.
Log(k) == IF expireAt[k] <= now THEN {} ELSE zset[k]

\* Mutant: the bound of ZREMRANGEBYSCORE is exclusive.
Pruned_Exclusive(k, stamp) == {e \in Log(k) : e.score >= stamp - windowMs}

\* Mutant: a fixed window, keyed by floor(now / windowMs).
Pruned_FixedWindow(k, stamp) ==
    {e \in Log(k) : e.score \div windowMs = stamp \div windowMs}

\* ZREMRANGEBYSCORE: scores up to and including stamp - windowMs go.
Pruned(k, stamp) == {e \in Log(k) : e.score > stamp - windowMs}

oldest(S) == CHOOSE e \in S : \A f \in S : e.score <= f.score

Allows(k, S) == Cardinality(S) < limit[k]

retryAfter(S, stamp) ==
    IF S = {} THEN windowMs ELSE oldest(S).score + windowMs - stamp

\* The script of request r, atomic on Redis.
SlidingWindow(r) ==
    LET k == call[r].key
        stamp == call[r].stamp
        S == Pruned(k, stamp)
    IN
    /\ Called(r) /\ ~reply[r].ran
    /\ now <= call[r].sentAt + MaxDelay
    /\ IF Allows(k, S)
       THEN /\ zset' = [zset EXCEPT ![k] = S \cup {[member |-> r, score |-> stamp]}]
            /\ expireAt' = [expireAt EXCEPT ![k] = now + windowMs]
            /\ reply' = [reply EXCEPT ![r] =
                 [ran |-> TRUE, allowed |-> TRUE,
                  remaining |-> limit[k] - Cardinality(S) - 1, retryAfterMs |-> 0]]
       ELSE /\ zset' = [zset EXCEPT ![k] = S]
            /\ reply' = [reply EXCEPT ![r] =
                 [ran |-> TRUE, allowed |-> FALSE, remaining |-> 0,
                  retryAfterMs |-> retryAfter(S, stamp)]]
            /\ UNCHANGED expireAt
    /\ UNCHANGED <<now, call, decision>>

-----------------------------------------------------------------------------
(* consume *)

\* Up to the await.  Bound: the clock leaves time for the timer.
Consume(r, k, skew) ==
    /\ ~Called(r)
    /\ now + timeoutMs <= MaxTime
    /\ call' = [call EXCEPT ![r] = [key |-> k, stamp |-> now + skew, sentAt |-> now]]
    /\ UNCHANGED <<now, zset, expireAt, reply, decision>>

Waiting(r) == Called(r) /\ decision[r] = "none"

\* The reply is in.
Return(r) ==
    /\ Waiting(r) /\ reply[r].ran
    /\ decision' = [decision EXCEPT ![r] = IF reply[r].allowed THEN "allowed" ELSE "denied"]
    /\ UNCHANGED <<now, zset, expireAt, call, reply>>

\* Mutant: the time is only looked at once Redis has answered.
TimeOut_AfterReply(r) ==
    /\ Waiting(r) /\ reply[r].ran /\ call[r].sentAt + timeoutMs <= now
    /\ decision' = [decision EXCEPT ![r] = "failedOpen"]
    /\ UNCHANGED <<now, zset, expireAt, call, reply>>

\* withTimeout's timer, whatever the script has done or will do.
TimeOut(r) ==
    /\ Waiting(r) /\ call[r].sentAt + timeoutMs <= now
    /\ decision' = [decision EXCEPT ![r] = "failedOpen"]
    /\ UNCHANGED <<now, zset, expireAt, call, reply>>

\* The command is rejected: a lost connection, say.
RedisFails(r) ==
    /\ Waiting(r)
    /\ decision' = [decision EXCEPT ![r] = "failedOpen"]
    /\ UNCHANGED <<now, zset, expireAt, call, reply>>

Tick ==
    /\ now < MaxTime
    /\ now' = now + 1
    /\ UNCHANGED <<zset, expireAt, call, reply, decision>>

Next ==
    \/ \E r \in Requests, k \in Keys, skew \in Skews : Consume(r, k, skew)
    \/ \E r \in Requests : SlidingWindow(r) \/ Return(r) \/ TimeOut(r) \/ RedisFails(r)
    \/ Tick

Spec == Init /\ [][Next]_vars

-----------------------------------------------------------------------------
(* Properties *)

\* The script never lets a log grow past its limit, whatever replicas, clocks
\* and delays do ("both replicas could read 99 of 100 used").
LogBounded ==
    \A k \in Keys : IsFiniteSet(zset[k]) /\ Cardinality(zset[k]) <= limit[k]

Stamps(k, from, to) ==
    {r \in Requests : /\ call[r].key = k /\ reply[r].allowed
                      /\ from < call[r].stamp /\ call[r].stamp <= to}

MaxSkew == CHOOSE s \in Skews : \A t \in Skews : t <= s

\* What is left of "100 requests per 60s ... for any 60-second window" when
\* clocks differ and scripts run late: the limit holds for every window that is
\* shorter by the difference of the clocks and the delay of a script; exactly as
\* promised when both are 0.
WindowLimited ==
    \A k \in Keys, t \in 0..(MaxTime + MaxSkew) :
        Cardinality(Stamps(k, t - (windowMs - MaxDelay - MaxSkew), t)) <= limit[k]

\* A log S that denies a request of key k stamped t.
Denies(S, k, t) == Cardinality({e \in S : e.score > t - windowMs}) >= limit[k]

\* The script denies r.
Denied(r) == reply'[r].ran /\ ~reply[r].ran /\ ~reply'[r].allowed

WaitIsExact(r) ==
    LET k == call[r].key
        back == call[r].stamp + reply'[r].retryAfterMs
    IN limit[k] > 0 => /\ call[r].stamp < back
                       /\ ~Denies(zset'[k], k, back)
                       /\ Denies(zset'[k], k, back - 1)

\* A denied request is told the exact time to wait: from then on, and not
\* before, one of the entries that denied it has left the log (retryAfterMs, at
\* the inclusive bound of the prune, for stamps out of order too).
RetryExact == [][\A r \in Requests : Denied(r) => WaitIsExact(r)]_vars

===============================================================================
