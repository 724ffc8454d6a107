------------------------------- MODULE PolicyQa -------------------------------
(***************************************************************************)
(* ai-orchestrator, tier1-qa: questions about policy, answered from the    *)
(* semantic cache on Redis or by the model from document_chunks.           *)
(*                                                                         *)
(* A handler is one POST /ai/qa/ask in flight on some replica, from one    *)
(* await to the next; every Redis command runs at some time after it was   *)
(* sent.  A question stands for its embedding, an answer for the chunks it *)
(* is grounded on.  Left out: the wording, and the tracing.                *)
(***************************************************************************)
EXTENDS DocumentStore

CONSTANTS
    Questions,            \* embeddings of the questions asked
    EntryIds,             \* ids of cache entries (randomUUID)
    Handlers,             \* questions that can be in flight at the same time
    ttl,                  \* semanticCache.ttlSeconds
    similarityThreshold,  \* semanticCache.similarityThreshold, as a cosineSimilarity
    maxCandidates,        \* semanticCache.maxCandidates
    RETRIEVAL_TOP_K,      \* 4 in the code
    LastAsk,              \* bound: no question is asked after this time
    MaxTime               \* bound: the clock stops here

ASSUME QuestionsAssumption == Questions \subseteq Seq(Int) /\ <<>> \notin Questions
Entry == [question : Questions, context : SUBSET Row, cachedAt : Nat, setAt : Nat]

ASSUME CacheAssumption ==
    /\ ttl \in Nat \ {0} /\ maxCandidates \in Nat \ {0} /\ RETRIEVAL_TOP_K \in Nat
    /\ similarityThreshold \in Int \X (Nat \ {0})
    /\ Null \notin EntryIds /\ Null \notin Entry /\ LastAsk \in Nat /\ MaxTime \in Nat

VARIABLES
    now,    \* Date.now(), also the clock of Redis
    index,  \* semcache:index: the ids in the sorted set; the score is cachedAt
    entry,  \* semcache:entry: what was set under an id, Null before that
    ask     \* the questions in flight, and those answered from the cache

cacheVars == <<now, index, entry>>
vars == <<storeVars, cacheVars, ask>>

Stored == {i \in EntryIds : entry[i] # Null}

\* SET ... EX: Redis drops the key once its time has passed.
Live(i) == entry[i] # Null /\ now <= entry[i].setAt + ttl

\* What lookup() keeps from one command to the next, and what ask() keeps after
\* a miss.  known is history: the entries there were when the lookup began.
LookingUp(pc, question, known, cutoff, ids, best) ==
    [pc |-> pc, question |-> question, known |-> known, cutoff |-> cutoff,
     ids |-> ids, best |-> best, context |-> {}, cachedAt |-> 0]

Answering(pc, question, known, context, cachedAt) ==
    [pc |-> pc, question |-> question, known |-> known, cutoff |-> 0,
     ids |-> {}, best |-> Null, context |-> context, cachedAt |-> cachedAt]

NoAsk == LookingUp("idle", Null, {}, 0, {}, Null)

QaInit ==
    /\ StoreInit
    /\ now = 0
    /\ index = {}
    /\ entry = [i \in EntryIds |-> Null]
    /\ ask = [h \in Handlers |-> NoAsk]

At(h, pc) == ask[h].pc = pc
Done(h) == ask[h].pc \in {"idle", "hit"}
Step(h, q) == ask' = [ask EXCEPT ![h] = q]

-----------------------------------------------------------------------------
(* RedisSemanticCacheService.lookup *)

\* ask() up to its first await.  Bounds: questions are asked up to LastAsk,
\* and overlap while an id is left for each.
StartAsk(h, question) ==
    /\ Done(h) /\ now <= LastAsk
    /\ LET others == {k \in Handlers : ~Done(k)} IN
         others = {} \/ Cardinality(others) < Cardinality(EntryIds \ Stored)
    /\ Step(h, LookingUp("embed", question, {}, 0, {}, Null))
    /\ UNCHANGED <<storeVars, cacheVars>>

\* Mutant: the seconds are not subtracted.
EmbedQuery_NoTtl(h) ==
    /\ At(h, "embed")
    /\ Step(h, LookingUp("prune", ask[h].question, Stored, now, {}, Null))
    /\ UNCHANGED <<storeVars, cacheVars>>

\* The embedding is in; lookup() computes its cutoff and sends the prune.
EmbedQuery(h) ==
    /\ At(h, "embed")
    /\ Step(h, LookingUp("prune", ask[h].question, Stored, now - ttl, {}, Null))
    /\ UNCHANGED <<storeVars, cacheVars>>

\* ZREMRANGEBYSCORE, at a time when the cutoff may be old.
Prune(h) ==
    /\ At(h, "prune")
    /\ index' = {i \in index : entry[i].cachedAt > ask[h].cutoff}
    /\ Step(h, LookingUp("scan", ask[h].question, ask[h].known, 0, {}, Null))
    /\ UNCHANGED <<storeVars, now, entry>>

\* Mutant: ZRANGE, the oldest candidates.
Scan_Oldest(h) ==
    /\ At(h, "scan")
    /\ \E ids \in First(maxCandidates, index) :
       /\ \A i \in ids, j \in index \ ids : entry[i].cachedAt <= entry[j].cachedAt
       /\ Step(h, LookingUp(IF ids = {} THEN "retrieve" ELSE "fetch",
                            ask[h].question, ask[h].known, 0, ids, Null))
    /\ UNCHANGED <<storeVars, cacheVars>>

\* ZREVRANGE: the newest candidates.
Scan(h) ==
    /\ At(h, "scan")
    /\ \E ids \in First(maxCandidates, index) :
       /\ \A i \in ids, j \in index \ ids : entry[i].cachedAt >= entry[j].cachedAt
       /\ Step(h, LookingUp(IF ids = {} THEN "retrieve" ELSE "fetch",
                            ask[h].question, ask[h].known, 0, ids, Null))
    /\ UNCHANGED <<storeVars, cacheVars>>

Similarity(h, i) == cosineSimilarity(ask[h].question, entry[i].question)

\* Mutant: the first candidate is good enough.
Best_First(h, found) ==
    {T \in First(1, found) : \A i \in T, j \in found \ T :
        entry[i].cachedAt >= entry[j].cachedAt}

\* The candidate with the best score; of several, the newest.
Best(h, found) ==
    {T \in First(1, found) : \A i \in T, j \in found \ T :
        /\ AtLeast(Similarity(h, i), Similarity(h, j))
        /\ \/ ~AtLeast(Similarity(h, j), Similarity(h, i))
           \/ entry[i].cachedAt >= entry[j].cachedAt}

isHit(h, i) == AtLeast(Similarity(h, i), similarityThreshold)

\* ask() is answered from the cache, or goes on.
afterLookup(best) == IF best # Null THEN "hit" ELSE "retrieve"

\* MGET, and the scan of what it returns.  An id whose entry is gone is stale.
Fetch(h) ==
    LET found == {i \in ask[h].ids : Live(i)} IN
    /\ At(h, "fetch")
    /\ \E T \in Best(h, found) :
         LET best == IF \E i \in T : isHit(h, i) THEN CHOOSE i \in T : TRUE ELSE Null IN
         Step(h, LookingUp(IF ask[h].ids # found THEN "heal" ELSE afterLookup(best),
                           ask[h].question, ask[h].known, 0, ask[h].ids \ found, best))
    /\ UNCHANGED <<storeVars, cacheVars>>

\* ZREM of the stale ids.
Heal(h) ==
    /\ At(h, "heal")
    /\ index' = index \ ask[h].ids
    /\ Step(h, LookingUp(afterLookup(ask[h].best),
                         ask[h].question, ask[h].known, 0, {}, ask[h].best))
    /\ UNCHANGED <<storeVars, now, entry>>

-----------------------------------------------------------------------------
(* QaService.ask on a miss, and RedisSemanticCacheService.store *)

Retrieve(h) ==
    /\ At(h, "retrieve")
    /\ \E context \in similaritySearch(ask[h].question, RETRIEVAL_TOP_K, "policy:") :
          Step(h, Answering("invoke", ask[h].question, ask[h].known, context, 0))
    /\ UNCHANGED <<storeVars, cacheVars>>

\* The model has answered; store() takes the time and sends its transaction.
Invoke(h) ==
    /\ At(h, "invoke")
    /\ Step(h, Answering("store", ask[h].question, {}, ask[h].context, now))
    /\ UNCHANGED <<storeVars, cacheVars>>

\* MULTI SET EX, ZADD, EXEC under a fresh id; then the question is answered.
Store(h, i) ==
    /\ At(h, "store")
    /\ entry[i] = Null
    /\ entry' = [entry EXCEPT ![i] =
                   [question |-> ask[h].question, context |-> ask[h].context,
                    cachedAt |-> ask[h].cachedAt, setAt |-> now]]
    /\ index' = index \cup {i}
    /\ Step(h, NoAsk)
    /\ UNCHANGED <<storeVars, now>>

\* A call throws or the replica dies: the question is answered 500 or not at all.
AskFails(h) ==
    /\ ~Done(h)
    /\ Step(h, NoAsk)
    /\ UNCHANGED <<storeVars, cacheVars>>

Tick ==
    /\ now < MaxTime
    /\ now' = now + 1
    /\ UNCHANGED <<storeVars, index, entry, ask>>

QaNext ==
    \/ \E h \in Handlers, question \in Questions : StartAsk(h, question)
    \/ \E h \in Handlers : EmbedQuery(h) \/ Prune(h) \/ Scan(h) \/ Fetch(h) \/ Heal(h)
    \/ \E h \in Handlers : Retrieve(h) \/ Invoke(h) \/ AskFails(h)
    \/ \E h \in Handlers, i \in EntryIds : Store(h, i)
    \/ StoreNext /\ UNCHANGED <<cacheVars, ask>>
    \/ Tick

QaSpec == QaInit /\ [][QaNext]_vars

-----------------------------------------------------------------------------
(* Properties *)

\* No answer that is still within its ttl falls out of the index: neither the
\* prune, whose cutoff was taken before an await, nor the self-heal, whose MGET
\* was, ever drops the id of one (lookup() in several commands, against the
\* transaction of store()).
LiveEntriesIndexed ==
    \A i \in Stored : Live(i) /\ entry[i].cachedAt > now - ttl => i \in index

\* An entry h's lookup() has to consider: set before the lookup began, younger than
\* the ttl to this moment, and not behind maxCandidates newer ones.
Eligible(h, i) ==
    /\ i \in ask[h].known
    /\ entry[i].cachedAt > now - ttl
    /\ Cardinality({j \in Stored \ {i} : entry[j].cachedAt >= entry[i].cachedAt})
         < maxCandidates

\* "Returns the best cached answer for a semantically-similar prior query": what
\* is served from the cache answers a question that is similar enough, and no
\* eligible entry answers a more similar one.
HitIsBest ==
    \A h \in Handlers : At(h, "hit") =>
        /\ isHit(h, ask[h].best)
        /\ \A i \in Stored : Eligible(h, i)
              => AtLeast(Similarity(h, ask[h].best), Similarity(h, i))

\* The model is called "only ... on a genuine cache miss" (qa.service.ts): when
\* no eligible entry answers a question that is similar enough.
MissGenuine ==
    \A h \in Handlers : ask[h].pc \in {"retrieve", "invoke"} =>
        \A i \in Stored : Eligible(h, i) => ~isHit(h, i)

\* What an answer is grounded on, in flight or cached, are policy chunks that
\* are in the store for as long as the answer is served, although ingestions
\* fail half way and are repeated meanwhile (ask(), store(), insertChunks()).
AnswersGrounded ==
    LET Grounded(context) == \A c \in context : c \in chunks /\ c.source = "policy:" IN
    /\ \A h \in Handlers : Grounded(ask[h].context)
    /\ \A i \in Stored : Grounded(entry[i].context)

\* lookup() takes several commands of Redis, and yet which answer a question gets
\* is decided at one moment, that of the last command before the verdict: PolicyQa
\* implements AnswerCache.  The self-heal and the index are not seen.
PhaseOf(q) ==
    CASE q.pc = "embed" -> "asked"
      [] q.pc \in {"prune", "scan", "fetch"} -> "looking"
      [] q.pc = "heal" -> IF q.best # Null THEN "hit" ELSE "missed"
      [] q.pc = "retrieve" -> "missed"
      [] q.pc = "invoke" -> "grounded"
      [] q.pc = "store" -> "answered"
      [] OTHER -> q.pc

View(q) == [phase |-> PhaseOf(q), question |-> q.question, known |-> q.known,
            best |-> q.best, context |-> q.context, cachedAt |-> q.cachedAt]

Cache == INSTANCE AnswerCache WITH
             Askers <- Handlers, Nothing <- Null,
             Few <- {S \in SUBSET EntryIds : Cardinality(S) < maxCandidates},
             Similar <- {p \in Questions \X Questions :
                AtLeast(cosineSimilarity(p[1], p[2]), similarityThreshold)},
             NoFarther <- {p \in Questions \X Questions \X Questions :
                AtLeast(cosineSimilarity(p[1], p[2]), cosineSimilarity(p[1], p[3]))},
             policies <- {c \in chunks : c.source = "policy:"},
             cached <- entry, asked <- [h \in Handlers |-> View(ask[h])]
ImplementsCache == Cache!Spec
===============================================================================
