-------------------------- MODULE RateLimiterProofs --------------------------
(* Proofs about RateLimiter, for any keys, limits, clocks and delays.        *)
EXTENDS RateLimiter, FiniteSetTheorems, WellFoundedInduction, TLAPS

\* What the script counts is finite and within the limit, and type correctness
\* rests on it: the remaining requests are a difference.
IInv == TypeOK /\ LogBounded

\* A nonempty set of naturals has a least element.
LEMMA LeastNatural ==
    ASSUME NEW T \in SUBSET Nat, T # {}
    PROVE  \E n \in T : \A m \in T : n <= m
<1>1. PICK n \in T : \A m \in T : ~(<<m, n>> \in OpToRel(<, Nat))
  BY NatLessThanWellFounded, WFMin
<1>2. \A m \in T : ~(m < n)
  BY <1>1 DEF OpToRel
<1> QED
  BY <1>2

\* oldest() finds an entry whose score is least.
LEMMA OldestEntry ==
    ASSUME NEW S \in SUBSET Entry, S # {}
    PROVE  oldest(S) \in S /\ \A f \in S : oldest(S).score <= f.score
<1> DEFINE T == {e.score : e \in S}
<1>1. T \in SUBSET Nat /\ T # {}
  BY DEF Entry
<1>2. PICK n \in T : \A m \in T : n <= m
  BY <1>1, LeastNatural
<1>3. \E e \in S : \A f \in S : e.score <= f.score
  BY <1>2
<1> QED
  BY <1>3 DEF oldest

\* What is left after the prune is part of the log, and no longer than it.
LEMMA PrunedLog ==
    ASSUME IInv, NEW k \in Keys, NEW stamp \in Nat
    PROVE  /\ Pruned(k, stamp) \in SUBSET Entry
           /\ IsFiniteSet(Pruned(k, stamp))
           /\ Cardinality(Pruned(k, stamp)) \in Nat
           /\ Cardinality(Pruned(k, stamp)) <= limit[k]
<1> DEFINE S == Pruned(k, stamp)
<1>1. S \in SUBSET zset[k]
  BY DEF Pruned, Log
<1>2. IsFiniteSet(zset[k]) /\ Cardinality(zset[k]) <= limit[k]
  BY DEF IInv, LogBounded
<1>3. IsFiniteSet(S) /\ Cardinality(S) <= Cardinality(zset[k])
  BY <1>1, <1>2, FS_Subset
<1>4. Cardinality(S) \in Nat /\ Cardinality(zset[k]) \in Nat
  BY <1>2, <1>3, FS_CardinalityType
<1>5. limit[k] \in Nat
  BY LimitAssumption
<1>6. S \in SUBSET Entry
  BY <1>1 DEF IInv, TypeOK
<1> QED
  BY <1>2, <1>3, <1>4, <1>5, <1>6

\* The wait a denied request is told is an integer.
LEMMA RetryAfterType ==
    ASSUME NEW S \in SUBSET Entry, NEW stamp \in Nat
    PROVE  retryAfter(S, stamp) \in Int
<1>1. windowMs \in Nat
  BY TimesAssumption
<1>2. CASE S = {}
  BY <1>1, <1>2 DEF retryAfter
<1>3. CASE S # {}
  <2>1. oldest(S).score \in Nat
    BY <1>3, OldestEntry DEF Entry
  <2> QED
    BY <1>1, <1>3, <2>1 DEF retryAfter
<1> QED
  BY <1>2, <1>3

\* The initial state satisfies the invariant.
LEMMA InitIInv == Init => IInv
<1> SUFFICES ASSUME Init PROVE IInv
  OBVIOUS
<1>1. TypeOK
  BY DEF Init, TypeOK, Call, Reply, NoCall, NoReply, Decisions
<1>2. LogBounded
  BY FS_EmptySet, LimitAssumption DEF Init, LogBounded
<1> QED
  BY <1>1, <1>2 DEF IInv

\* The script preserves the invariant: it adds one entry, and only to a log
\* that it has found shorter than the limit.
LEMMA ScriptIInv ==
    ASSUME IInv, NEW r \in Requests, SlidingWindow(r)
    PROVE  IInv'
<1> DEFINE k == call[r].key
           stamp == call[r].stamp
           S == Pruned(k, stamp)
           e == [member |-> r, score |-> stamp]
<1>1. k \in Keys /\ stamp \in Nat
  BY DEF IInv, TypeOK, Call, SlidingWindow, Called
<1>2. /\ S \in SUBSET Entry /\ IsFiniteSet(S)
      /\ Cardinality(S) \in Nat /\ Cardinality(S) <= limit[k]
  BY <1>1, PrunedLog
<1>3. limit[k] \in Nat /\ now \in Nat /\ windowMs \in Nat
  BY <1>1, LimitAssumption, TimesAssumption DEF IInv, TypeOK
<1>4. UNCHANGED <<now, call, decision>>
  BY DEF SlidingWindow
<1> HIDE DEF S, k, stamp
<1>5. CASE Allows(k, S)
  <2>1. /\ zset' = [zset EXCEPT ![k] = S \cup {e}]
        /\ expireAt' = [expireAt EXCEPT ![k] = now + windowMs]
        /\ reply' = [reply EXCEPT ![r] =
             [ran |-> TRUE, allowed |-> TRUE,
              remaining |-> limit[k] - Cardinality(S) - 1, retryAfterMs |-> 0]]
    BY <1>5 DEF SlidingWindow, S, k, stamp
  <2>2. e \in Entry
    BY <1>1 DEF Entry
  <2>3. IsFiniteSet(S \cup {e}) /\ Cardinality(S \cup {e}) <= Cardinality(S) + 1
    <3> HIDE DEF e
    <3>1. /\ IsFiniteSet(S \cup {e})
          /\ Cardinality(S \cup {e}) = IF e \in S THEN Cardinality(S) ELSE Cardinality(S) + 1
      BY <1>2, FS_AddElement
    <3> QED
      BY <1>2, <3>1
  <2>4. Cardinality(S) < limit[k]
    BY <1>5 DEF Allows
  <2>5. Cardinality(S \cup {e}) \in Nat
    BY <2>3, FS_CardinalityType
  <2>6. Cardinality(S \cup {e}) <= limit[k]
    BY <1>2, <1>3, <2>3, <2>4, <2>5
  <2>7. TypeOK'
    <3>1. limit[k] - Cardinality(S) - 1 \in Nat /\ now + windowMs \in Nat
      BY <1>2, <1>3, <2>4
    <3>2. [ran |-> TRUE, allowed |-> TRUE,
           remaining |-> limit[k] - Cardinality(S) - 1, retryAfterMs |-> 0] \in Reply
      BY <3>1 DEF Reply
    <3>3. S \cup {e} \in SUBSET Entry
      BY <1>2, <2>2
    <3> QED
      BY <1>1, <1>4, <2>1, <3>1, <3>2, <3>3 DEF IInv, TypeOK
  <2>8. LogBounded'
    BY <1>1, <2>1, <2>3, <2>6 DEF IInv, TypeOK, LogBounded
  <2> QED
    BY <2>7, <2>8 DEF IInv
<1>6. CASE ~Allows(k, S)
  <2>1. /\ zset' = [zset EXCEPT ![k] = S]
        /\ expireAt' = expireAt
        /\ reply' = [reply EXCEPT ![r] =
             [ran |-> TRUE, allowed |-> FALSE, remaining |-> 0,
              retryAfterMs |-> retryAfter(S, stamp)]]
    BY <1>6 DEF SlidingWindow, S, k, stamp
  <2>2. TypeOK'
    <3>1. [ran |-> TRUE, allowed |-> FALSE, remaining |-> 0,
           retryAfterMs |-> retryAfter(S, stamp)] \in Reply
      BY <1>1, <1>2, RetryAfterType DEF Reply
    <3> QED
      BY <1>1, <1>2, <1>4, <2>1, <3>1 DEF IInv, TypeOK
  <2>3. LogBounded'
    BY <1>1, <1>2, <2>1 DEF IInv, TypeOK, LogBounded
  <2> QED
    BY <2>2, <2>3 DEF IInv
<1> QED
  BY <1>5, <1>6

\* Every step preserves the invariant.
LEMMA NextIInv == IInv /\ [Next]_vars => IInv'
<1> SUFFICES ASSUME IInv, [Next]_vars PROVE IInv'
  OBVIOUS
<1>1. ASSUME NEW r \in Requests, NEW k \in Keys, NEW skew \in Skews, Consume(r, k, skew)
      PROVE  IInv'
  <2>1. now \in Nat /\ now + skew \in Nat
    BY TimesAssumption DEF IInv, TypeOK
  <2>2. [key |-> k, stamp |-> now + skew, sentAt |-> now] \in Call
    BY <2>1 DEF Call
  <2> QED
    BY <1>1, <2>2 DEF Consume, IInv, TypeOK, LogBounded
<1>2. ASSUME NEW r \in Requests, SlidingWindow(r)
      PROVE  IInv'
  BY <1>2, ScriptIInv
<1>3. ASSUME NEW r \in Requests, Return(r) \/ TimeOut(r) \/ RedisFails(r)
      PROVE  IInv'
  <2>1. PICK d \in Decisions : decision' = [decision EXCEPT ![r] = d]
    BY <1>3 DEF Return, TimeOut, RedisFails, Decisions
  <2>2. UNCHANGED <<now, zset, expireAt, call, reply>>
    BY <1>3 DEF Return, TimeOut, RedisFails
  <2> QED
    BY <2>1, <2>2 DEF IInv, TypeOK, LogBounded
<1>4. CASE Tick
  BY <1>4 DEF Tick, IInv, TypeOK, LogBounded
<1>5. CASE UNCHANGED vars
  BY <1>5 DEF vars, IInv, TypeOK, LogBounded
<1> QED
  BY <1>1, <1>2, <1>3, <1>4, <1>5 DEF Next

\* The invariant holds always.
LEMMA Invariant == Spec => []IInv
  BY InitIInv, NextIInv, PTL DEF Spec

\* The limiter's log, calls and replies have their types; the remaining
\* requests a reply reports never go below zero.
THEOREM TypeCorrect == Spec => []TypeOK
<1>1. IInv => TypeOK
  BY DEF IInv
<1> QED
  BY <1>1, Invariant, PTL

\* No log grows past its limit, however many replicas run the script with
\* whatever clocks and delays (the race that running it as one script avoids).
THEOREM LogIsBounded == Spec => []LogBounded
<1>1. IInv => LogBounded
  BY DEF IInv
<1> QED
  BY <1>1, Invariant, PTL

\* Only the script of r answers r.
LEMMA DeniedByScript ==
    ASSUME IInv, [Next]_vars, NEW r \in Requests, Denied(r)
    PROVE  SlidingWindow(r)
<1>1. reply' # reply
  BY DEF Denied
<1>2. PICK q \in Requests : SlidingWindow(q)
  BY <1>1 DEF Next, vars, Consume, Return, TimeOut, RedisFails, Tick
<1>3. q = r
  <2>1. \E x : reply' = [reply EXCEPT ![q] = x]
    BY <1>2 DEF SlidingWindow
  <2> QED
    BY <2>1 DEF IInv, TypeOK, Denied
<1> QED
  BY <1>2, <1>3

\* A script that denies leaves exactly limit entries, and its wait ends when
\* the oldest of them is pruned.
LEMMA DenialIsExact ==
    ASSUME IInv, NEW r \in Requests, SlidingWindow(r), Denied(r)
    PROVE  WaitIsExact(r)
<1> DEFINE k == call[r].key
           stamp == call[r].stamp
           S == Pruned(k, stamp)
           back == stamp + reply'[r].retryAfterMs
           o == oldest(S)
           Later == {e \in S : e.score > back - windowMs}
<1>1. k \in Keys /\ stamp \in Nat
  BY DEF IInv, TypeOK, Call, SlidingWindow, Called
<1>2. /\ S \in SUBSET Entry /\ IsFiniteSet(S)
      /\ Cardinality(S) \in Nat /\ Cardinality(S) <= limit[k]
  BY <1>1, PrunedLog
<1>3. limit[k] \in Nat /\ windowMs \in Nat
  BY <1>1, LimitAssumption, TimesAssumption
<1>4. ~Allows(k, S)
  BY DEF SlidingWindow, Denied, IInv, TypeOK
<1>5. zset'[k] = S /\ reply'[r].retryAfterMs = retryAfter(S, stamp)
  BY <1>1, <1>4 DEF SlidingWindow, IInv, TypeOK
<1>6. \A e \in S : e.score \in Nat /\ e.score > stamp - windowMs
  BY <1>2 DEF Pruned, Entry
<1> SUFFICES ASSUME limit[k] > 0
             PROVE  stamp < back /\ ~Denies(S, k, back) /\ Denies(S, k, back - 1)
  BY <1>5 DEF WaitIsExact
<1> HIDE DEF S, k, stamp
<1>7. Cardinality(S) = limit[k]
  BY <1>2, <1>3, <1>4 DEF Allows
<1>8. S # {}
  BY <1>2, <1>7, FS_EmptySet
<1>9. o \in S /\ \A f \in S : o.score <= f.score
  BY <1>2, <1>8, OldestEntry
<1>10. back = o.score + windowMs
  BY <1>1, <1>3, <1>5, <1>6, <1>8, <1>9 DEF retryAfter
<1> HIDE DEF back, o
<1>11. stamp < back
  BY <1>1, <1>3, <1>6, <1>9, <1>10
<1>12. ~Denies(S, k, back)
  <2>1. Later \in SUBSET S /\ o \notin Later
    BY <1>3, <1>6, <1>9, <1>10
  <2>2. /\ IsFiniteSet(Later) /\ Cardinality(Later) <= Cardinality(S)
        /\ Cardinality(S) = Cardinality(Later) => S = Later
    BY <1>2, <2>1, FS_Subset
  <2>3. Cardinality(Later) # Cardinality(S)
    BY <1>9, <2>1, <2>2
  <2>4. Cardinality(Later) \in Nat
    BY <2>2, FS_CardinalityType
  <2>5. Cardinality(Later) < limit[k]
    BY <1>2, <1>7, <2>2, <2>3, <2>4
  <2> QED
    BY <1>3, <2>4, <2>5 DEF Denies
<1>13. Denies(S, k, back - 1)
  <2>1. {e \in S : e.score > back - 1 - windowMs} = S
    BY <1>3, <1>6, <1>9, <1>10
  <2> QED
    BY <1>2, <1>3, <1>7, <2>1 DEF Denies
<1> QED
  BY <1>11, <1>12, <1>13

\* The wait a denied request is told is exact, for any limit and window and for
\* stamps in any order.
THEOREM RetryIsExact == Spec => RetryExact
<1>1. IInv /\ [Next]_vars => [\A r \in Requests : Denied(r) => WaitIsExact(r)]_vars
  BY DeniedByScript, DenialIsExact
<1> QED
  BY <1>1, Invariant, PTL DEF Spec, RetryExact

-----------------------------------------------------------------------------
(* The window.  An accepted request leaves the log only when every script    *)
(* that can still run is stamped so much later that no window of the reduced *)
(* length holds both; so the requests of a window are entries of one log.    *)

\* Stamps are at most MaxSkew ahead of the call, which is in the past, and only
\* a call is answered.
CallsTimely ==
    \A r \in Requests :
        /\ Called(r) => /\ call[r].sentAt <= call[r].stamp
                        /\ call[r].stamp <= call[r].sentAt + MaxSkew
                        /\ call[r].sentAt <= now
        /\ reply[r].ran \/ reply[r].allowed => Called(r)

ExpiryBound == \A k \in Keys : expireAt[k] <= now + windowMs

EntryOf(r) == [member |-> r, score |-> call[r].stamp]

\* An accepted request is in the log, and the key has not expired, until a
\* request sent now could no longer be stamped within a window of it.
EntriesKept ==
    \A r \in Requests : reply[r].allowed =>
        /\ call[r].stamp + windowMs <= expireAt[call[r].key] + MaxSkew
        /\ now + MaxSkew < call[r].stamp + windowMs
             => EntryOf(r) \in zset[call[r].key]

WInv == IInv /\ CallsTimely /\ ExpiryBound /\ EntriesKept /\ WindowLimited

\* MaxSkew is the largest difference of the clocks.
LEMMA MaxSkewIsMax == MaxSkew \in Nat /\ \A s \in Skews : s \in Nat /\ s <= MaxSkew
  BY TimesAssumption DEF MaxSkew

\* Initially nothing has been called.
LEMMA InitWInv == Init => WInv
<1> SUFFICES ASSUME Init PROVE WInv
  OBVIOUS
<1>1. IInv
  BY InitIInv
<1>2. \A r \in Requests : ~Called(r) /\ ~reply[r].ran /\ ~reply[r].allowed
  BY DEF Init, Called, NoCall, NoReply
<1>3. CallsTimely /\ EntriesKept
  BY <1>2 DEF CallsTimely, EntriesKept
<1>4. ExpiryBound
  BY TimesAssumption DEF Init, ExpiryBound
<1>5. WindowLimited
  <2> SUFFICES ASSUME NEW k \in Keys, NEW t \in 0..(MaxTime + MaxSkew)
               PROVE  Cardinality(Stamps(k, t - (windowMs - MaxDelay - MaxSkew), t)) <= limit[k]
    BY DEF WindowLimited
  <2>1. Stamps(k, t - (windowMs - MaxDelay - MaxSkew), t) = {}
    BY <1>2 DEF Stamps
  <2> QED
    BY <2>1, FS_EmptySet, LimitAssumption
<1> QED
  BY <1>1, <1>3, <1>4, <1>5 DEF WInv

\* While calls and replies stay as they are, so do the windows.
LEMMA SameStamps ==
    ASSUME WindowLimited,
           \A r \in Requests : /\ reply'[r].allowed => reply[r].allowed
                               /\ reply[r].allowed => call'[r] = call[r]
    PROVE  WindowLimited'
<1> SUFFICES ASSUME NEW k \in Keys, NEW t \in 0..(MaxTime + MaxSkew)
             PROVE  Cardinality(Stamps(k, t - (windowMs - MaxDelay - MaxSkew), t)') <= limit[k]
  BY DEF WindowLimited
<1> DEFINE from == t - (windowMs - MaxDelay - MaxSkew)
<1>1. Stamps(k, from, t)' \in SUBSET Stamps(k, from, t)
  BY DEF Stamps
<1>2. IsFiniteSet(Stamps(k, from, t))
  BY RequestsAssumption, FS_Subset DEF Stamps
<1>3. Cardinality(Stamps(k, from, t)) <= limit[k]
  BY DEF WindowLimited
<1> HIDE DEF from
<1>4. /\ IsFiniteSet(Stamps(k, from, t)')
      /\ Cardinality(Stamps(k, from, t)') <= Cardinality(Stamps(k, from, t))
  BY <1>1, <1>2, FS_Subset
<1>5. Cardinality(Stamps(k, from, t)') \in Nat /\ Cardinality(Stamps(k, from, t)) \in Nat
  BY <1>2, <1>4, FS_CardinalityType
<1>6. limit[k] \in Nat
  BY LimitAssumption
<1> QED
  BY <1>3, <1>4, <1>5, <1>6 DEF from

\* When the script of r runs: where its stamp lies.
LEMMA ScriptTimes ==
    ASSUME WInv, NEW r \in Requests, SlidingWindow(r)
    PROVE  /\ call[r].key \in Keys /\ call[r].stamp \in Nat /\ now \in Nat
           /\ call[r].stamp <= now + MaxSkew
           /\ now <= call[r].stamp + MaxDelay
           /\ UNCHANGED <<now, call, decision>>
<1>1. call[r] \in Call /\ now \in Nat /\ call[r].key # Null
  BY DEF WInv, IInv, TypeOK, SlidingWindow, Called
<1>2. call[r].key \in Keys /\ call[r].stamp \in Nat /\ call[r].sentAt \in Nat
  BY <1>1 DEF Call
<1>3. /\ call[r].sentAt <= call[r].stamp
      /\ call[r].stamp <= call[r].sentAt + MaxSkew
      /\ call[r].sentAt <= now
  BY DEF WInv, CallsTimely, SlidingWindow
<1>4. now <= call[r].sentAt + MaxDelay /\ UNCHANGED <<now, call, decision>>
  BY DEF SlidingWindow
<1>5. MaxDelay \in Nat /\ MaxSkew \in Nat
  BY TimesAssumption, MaxSkewIsMax
<1> QED
  BY <1>1, <1>2, <1>3, <1>4, <1>5

\* A script neither prunes nor finds expired what EntriesKept speaks of.
LEMMA PruneKeeps ==
    ASSUME WInv, NEW k \in Keys, NEW stamp \in Nat, stamp <= now + MaxSkew,
           NEW q \in Requests, reply[q].allowed, call[q].key = k,
           now + MaxSkew < call[q].stamp + windowMs
    PROVE  EntryOf(q) \in Pruned(k, stamp)
<1>1. EntryOf(q) \in zset[k] /\ call[q].stamp + windowMs <= expireAt[k] + MaxSkew
  BY DEF WInv, EntriesKept
<1>2. /\ now \in Nat /\ expireAt[k] \in Nat /\ call[q].stamp \in Nat
      /\ windowMs \in Nat /\ MaxSkew \in Nat
  BY TimesAssumption, MaxSkewIsMax DEF WInv, IInv, TypeOK, Call
<1>3. ~(expireAt[k] <= now)
  BY <1>1, <1>2
<1>4. EntryOf(q).score = call[q].stamp
  BY DEF EntryOf
<1>5. call[q].stamp > stamp - windowMs
  BY <1>2
<1> QED
  BY <1>1, <1>3, <1>4, <1>5 DEF Pruned, Log

\* A script leaves every entry EntriesKept speaks of in the log, and adds its own.
LEMMA ScriptKeeps ==
    ASSUME WInv, NEW r \in Requests, SlidingWindow(r)
    PROVE  /\ \A q \in Requests : reply'[q].allowed /\ q # r => reply[q].allowed
           /\ CallsTimely' /\ ExpiryBound' /\ EntriesKept'
<1> DEFINE k == call[r].key
           stamp == call[r].stamp
           S == Pruned(k, stamp)
<1>1. /\ k \in Keys /\ stamp \in Nat /\ now \in Nat
      /\ stamp <= now + MaxSkew
      /\ UNCHANGED <<now, call, decision>>
  BY ScriptTimes
<1>2. windowMs \in Nat /\ MaxSkew \in Nat
  BY TimesAssumption, MaxSkewIsMax
<1>3. \E x : reply' = [reply EXCEPT ![r] = x]
  BY DEF SlidingWindow
<1>4. \A q \in Requests : q # r => reply'[q] = reply[q]
  BY <1>3 DEF WInv, IInv, TypeOK
<1>5. /\ \A j \in Keys : j # k => zset'[j] = zset[j] /\ expireAt'[j] = expireAt[j]
      /\ S \subseteq zset'[k]
      /\ expireAt'[k] = expireAt[k] \/ expireAt'[k] = now + windowMs
      /\ reply'[r].allowed => EntryOf(r) \in zset'[k] /\ expireAt'[k] = now + windowMs
  <2> HIDE DEF S
  <2>1. CASE Allows(k, S)
    <3>1. /\ zset' = [zset EXCEPT ![k] = S \cup {[member |-> r, score |-> stamp]}]
          /\ expireAt' = [expireAt EXCEPT ![k] = now + windowMs]
      BY <2>1 DEF SlidingWindow, S
    <3> QED
      BY <1>1, <3>1 DEF WInv, IInv, TypeOK, EntryOf
  <2>2. CASE ~Allows(k, S)
    <3>1. /\ zset' = [zset EXCEPT ![k] = S] /\ expireAt' = expireAt
          /\ reply' = [reply EXCEPT ![r] =
               [ran |-> TRUE, allowed |-> FALSE, remaining |-> 0,
                retryAfterMs |-> retryAfter(S, stamp)]]
      BY <2>2 DEF SlidingWindow, S
    <3>2. ~reply'[r].allowed
      BY <3>1 DEF WInv, IInv, TypeOK
    <3> QED
      BY <1>1, <3>1, <3>2 DEF WInv, IInv, TypeOK
  <2> QED
    BY <2>1, <2>2
<1>6. expireAt \in [Keys -> Nat] /\ \A j \in Keys : expireAt[j] <= now + windowMs
  BY DEF WInv, IInv, TypeOK, ExpiryBound
<1>7. CallsTimely'
  <2>1. Called(r)
    BY DEF SlidingWindow
  <2> QED
    BY <1>1, <1>4, <2>1 DEF WInv, CallsTimely, Called
<1>8. ExpiryBound'
  BY <1>1, <1>2, <1>5, <1>6 DEF ExpiryBound
<1>9. EntriesKept'
  <2> SUFFICES ASSUME NEW q \in Requests, reply'[q].allowed
               PROVE  /\ call[q].stamp + windowMs <= expireAt'[call[q].key] + MaxSkew
                      /\ now + MaxSkew < call[q].stamp + windowMs
                           => EntryOf(q) \in zset'[call[q].key]
    BY <1>1 DEF EntriesKept, EntryOf
  <2>1. CASE q = r
    BY <1>1, <1>2, <1>5, <2>1
  <2>2. CASE q # r
    <3>1. reply[q].allowed
      BY <1>4, <2>2
    <3>2. /\ call[q].stamp + windowMs <= expireAt[call[q].key] + MaxSkew
          /\ now + MaxSkew < call[q].stamp + windowMs
               => EntryOf(q) \in zset[call[q].key]
      BY <3>1 DEF WInv, EntriesKept
    <3>3. call[q].key \in Keys /\ call[q].stamp \in Nat
      BY <3>1 DEF WInv, IInv, TypeOK, Call, CallsTimely, Called
    <3>4. CASE call[q].key # k
      BY <1>5, <3>2, <3>3, <3>4
    <3>5. CASE call[q].key = k
      <4>1. call[q].stamp + windowMs <= expireAt'[k] + MaxSkew
        BY <1>1, <1>2, <1>5, <1>6, <3>2, <3>3, <3>5
      <4>2. ASSUME now + MaxSkew < call[q].stamp + windowMs
            PROVE  EntryOf(q) \in S
        BY <1>1, <3>1, <3>5, <4>2, PruneKeeps
      <4> QED
        BY <1>5, <3>5, <4>1, <4>2
    <3> QED
      BY <3>4, <3>5
  <2> QED
    BY <2>1, <2>2
<1> QED
  BY <1>4, <1>7, <1>8, <1>9

\* The accepted requests of a window that holds a request just accepted are all
\* in its log, which is within the limit.
LEMMA ScriptWindow ==
    ASSUME WInv, NEW r \in Requests, SlidingWindow(r)
    PROVE  WindowLimited'
<1>1. /\ call[r].key \in Keys /\ call[r].stamp \in Nat /\ now \in Nat
      /\ now <= call[r].stamp + MaxDelay
      /\ UNCHANGED <<now, call, decision>>
  BY ScriptTimes
<1>2. /\ \A q \in Requests : reply'[q].allowed /\ q # r => reply[q].allowed
      /\ CallsTimely' /\ EntriesKept'
  BY ScriptKeeps
<1>3. IInv'
  BY ScriptIInv DEF WInv
<1>4. CASE ~reply'[r].allowed
  <2>1. WindowLimited
    BY DEF WInv
  <2> QED
    BY <1>1, <1>2, <1>4, <2>1, SameStamps
<1>5. CASE reply'[r].allowed
  <2> SUFFICES ASSUME NEW k \in Keys, NEW t \in 0..(MaxTime + MaxSkew)
               PROVE  Cardinality(Stamps(k, t - (windowMs - MaxDelay - MaxSkew), t)') <= limit[k]
    BY DEF WindowLimited
  <2> DEFINE from == t - (windowMs - MaxDelay - MaxSkew)
             M == Stamps(k, from, t)
  <2>1. /\ windowMs \in Nat /\ MaxDelay \in Nat /\ MaxSkew \in Nat /\ MaxTime \in Nat
        /\ t \in Int /\ limit[k] \in Nat
    BY TimesAssumption, MaxSkewIsMax, LimitAssumption
  <2>2. CASE r \notin M'
    <3>1. M' \in SUBSET M
      BY <1>1, <1>2, <2>2 DEF Stamps
    <3>2. IsFiniteSet(M)
      BY RequestsAssumption, FS_Subset DEF Stamps
    <3>3. Cardinality(M) <= limit[k]
      BY DEF WInv, WindowLimited
    <3> HIDE DEF M
    <3>4. IsFiniteSet(M') /\ Cardinality(M') <= Cardinality(M)
      BY <3>1, <3>2, FS_Subset
    <3>5. Cardinality(M') \in Nat /\ Cardinality(M) \in Nat
      BY <3>2, <3>4, FS_CardinalityType
    <3> QED
      BY <2>1, <3>3, <3>4, <3>5 DEF M, from
  <2>3. CASE r \in M'
    <3>1. call[r].key = k /\ call[r].stamp <= t
      BY <1>1, <2>3 DEF Stamps
    <3>2. \A q \in M' : EntryOf(q) \in zset'[k]
      <4> SUFFICES ASSUME NEW q \in M' PROVE EntryOf(q) \in zset'[k]
        OBVIOUS
      <4>1. /\ q \in Requests /\ reply'[q].allowed /\ call[q].key = k
            /\ from < call[q].stamp
        BY <1>1 DEF Stamps
      <4>2. call[q].stamp \in Nat
        BY <4>1 DEF WInv, IInv, TypeOK, Call
      <4>3. now + MaxSkew < call[q].stamp + windowMs
        BY <1>1, <2>1, <3>1, <4>1, <4>2
      <4> QED
        BY <1>1, <1>2, <4>1, <4>3 DEF EntriesKept, EntryOf
    <3>3. IsFiniteSet(zset'[k]) /\ Cardinality(zset'[k]) <= limit[k]
      BY <1>3 DEF IInv, LogBounded
    <3> DEFINE f == [q \in M' |-> EntryOf(q)]
    <3>4. f \in Injection(M', zset'[k])
      <4>1. f \in [M' -> zset'[k]]
        BY <3>2
      <4>2. \A a, b \in M' : EntryOf(a) = EntryOf(b) => a = b
        BY DEF EntryOf
      <4> HIDE DEF M
      <4>3. IsInjective(f)
        BY <4>2 DEF IsInjective
      <4> QED
        BY <4>1, <4>3 DEF Injection
    <3> HIDE DEF f, M
    <3>5. IsFiniteSet(M') /\ Cardinality(M') <= Cardinality(zset'[k])
      BY <3>3, <3>4, FS_Injection
    <3>6. Cardinality(M') \in Nat /\ Cardinality(zset'[k]) \in Nat
      BY <3>3, <3>5, FS_CardinalityType
    <3> QED
      BY <2>1, <3>3, <3>5, <3>6 DEF M, from
  <2> QED
    BY <2>2, <2>3
<1> QED
  BY <1>4, <1>5

\* Every step preserves it all.
LEMMA NextWInv == WInv /\ [Next]_vars => WInv'
<1> SUFFICES ASSUME WInv, [Next]_vars PROVE WInv'
  OBVIOUS
<1>1. IInv'
  BY NextIInv DEF WInv
<1>2. now \in Nat /\ windowMs \in Nat /\ MaxSkew \in Nat
  BY TimesAssumption, MaxSkewIsMax DEF WInv, IInv, TypeOK
<1>3. ASSUME NEW r \in Requests, NEW k \in Keys, NEW skew \in Skews, Consume(r, k, skew)
      PROVE  WInv'
  <2>1. skew \in Nat /\ skew <= MaxSkew /\ k # Null
    BY MaxSkewIsMax, NullAssumption
  <2>2. /\ call' = [call EXCEPT ![r] = [key |-> k, stamp |-> now + skew, sentAt |-> now]]
        /\ UNCHANGED <<now, zset, expireAt, reply, decision>>
    BY <1>3 DEF Consume
  <2>3. ~reply[r].ran /\ ~reply[r].allowed
    BY <1>3 DEF Consume, WInv, CallsTimely
  <2>4. call'[r].key = k /\ call'[r].stamp = now + skew /\ call'[r].sentAt = now
    BY <2>2 DEF WInv, IInv, TypeOK
  <2>5. \A q \in Requests : q # r => call'[q] = call[q]
    BY <2>2 DEF WInv, IInv, TypeOK
  <2>6. CallsTimely'
    BY <1>2, <2>1, <2>2, <2>3, <2>4, <2>5 DEF WInv, CallsTimely, Called
  <2>7. ExpiryBound'
    BY <2>2 DEF WInv, ExpiryBound
  <2>8. EntriesKept'
    BY <2>2, <2>3, <2>5 DEF WInv, EntriesKept, EntryOf
  <2>9. WindowLimited'
    BY <2>2, <2>3, <2>5, SameStamps DEF WInv
  <2> QED
    BY <1>1, <2>6, <2>7, <2>8, <2>9 DEF WInv
<1>4. ASSUME NEW r \in Requests, SlidingWindow(r)
      PROVE  WInv'
  BY <1>1, <1>4, ScriptKeeps, ScriptWindow DEF WInv
<1>5. CASE UNCHANGED <<now, zset, expireAt, call, reply>>
  <2>1. WindowLimited'
    BY <1>5, SameStamps DEF WInv
  <2>2. CallsTimely' /\ ExpiryBound' /\ EntriesKept'
    BY <1>5 DEF WInv, CallsTimely, Called, ExpiryBound, EntriesKept, EntryOf
  <2> QED
    BY <1>1, <2>1, <2>2 DEF WInv
<1>6. CASE Tick
  <2>1. now' = now + 1 /\ UNCHANGED <<zset, expireAt, call, reply, decision>>
    BY <1>6 DEF Tick
  <2>2. WindowLimited'
    BY <2>1, SameStamps DEF WInv
  <2>3. \A r \in Requests : call[r].stamp \in Nat /\ call[r].sentAt \in Nat
    BY DEF WInv, IInv, TypeOK, Call
  <2>4. CallsTimely'
    BY <1>2, <2>1, <2>3 DEF WInv, CallsTimely, Called
  <2>5. ExpiryBound'
    <3>1. \A k \in Keys : expireAt[k] \in Nat
      BY DEF WInv, IInv, TypeOK
    <3> QED
      BY <1>2, <2>1, <3>1 DEF WInv, ExpiryBound
  <2>6. EntriesKept'
    BY <1>2, <2>1, <2>3 DEF WInv, EntriesKept, EntryOf
  <2> QED
    BY <1>1, <2>2, <2>4, <2>5, <2>6 DEF WInv
<1>7. ASSUME NEW r \in Requests, Return(r) \/ TimeOut(r) \/ RedisFails(r)
      PROVE  WInv'
  BY <1>5, <1>7 DEF Return, TimeOut, RedisFails
<1>8. CASE UNCHANGED vars
  BY <1>5, <1>8 DEF vars
<1> QED
  BY <1>3, <1>4, <1>6, <1>7, <1>8 DEF Next

\* Of the requests of a key, no more than its limit are accepted in any window
\* that is shorter than windowMs by the difference of the clocks and the delay of
\* a script, for any number of requests, replicas, limits, clocks and delays.
THEOREM WindowIsLimited == Spec => []WindowLimited
<1>1. WInv => WindowLimited
  BY DEF WInv
<1> QED
  BY <1>1, InitWInv, NextWInv, PTL DEF Spec

===============================================================================
