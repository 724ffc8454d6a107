----------------------------- MODULE Underwriting -----------------------------
(***************************************************************************)
(* ai-orchestrator, tier2-underwriting: the graph that advises on a lead,  *)
(* beside lead-service, which it asks for the lead.                        *)
(*                                                                         *)
(* A run is one POST /ai/underwriting/run in flight on some replica, from  *)
(* one await to the next; its record is the graph's state.  What the       *)
(* models answer is any value their schemas admit.  How a question ranks   *)
(* the policy chunks is the business of DocumentStore: here any topK of    *)
(* them may come first.  A call of a model touches nothing shared, and is  *)
(* part of the step behind it.  Left out: the question and the columns of  *)
(* a run that nothing reads (rationale, confidence, used_sql_template,     *)
(* retrieved_source_ids), and the tracing.                                 *)
(***************************************************************************)
EXTENDS LeadService, FiniteSets

CONSTANTS
    Runs,              \* underwriting runs that can be in flight at the same time
    Chunks,            \* policy chunks that may be ingested
    RETRIEVAL_TOP_K,   \* 10 in the code
    RERANK_TOP_N,      \* 4 in the code
    PRIOR_RUNS_LIMIT,  \* the LIMIT of PRIOR_RUNS_FOR_LEAD: 5 in the code
    Decisions,         \* those of the synthesis schema
    MaxRuns            \* bound: runs per lead, on record or in flight

UnderwritingDecisionValue == {"APPROVE", "DECLINE", "REFER"}

ASSUME UwAssumption ==
    /\ RETRIEVAL_TOP_K \in Nat \ {0} /\ RERANK_TOP_N \in Nat \ {0}
    /\ PRIOR_RUNS_LIMIT \in Nat /\ MaxRuns \in Nat
    /\ Decisions \subseteq UnderwritingDecisionValue

VARIABLES
    corpus,  \* the policy rows of document_chunks
    runs,    \* underwriting_runs, per lead, by created_at: the decisions
    uw       \* the runs in flight

uwVars == <<corpus, runs, uw>>
allVars == <<vars, uwVars>>

SQL_TEMPLATES == {"PRIOR_RUNS_FOR_LEAD", "DECISION_COUNTS_FOR_LEAD"}

\* since and base are history: how many rows and chunks there were at the start.
NoRun == [pc |-> "idle", lead |-> Null, leadSnapshot |-> Null,
          sqlTemplateId |-> Null, sqlResult |-> Null, rerankedDocs |-> {},
          warnings |-> 0, since |-> 0, base |-> 0]

\* The graph's state behind the router, the dbAgent and the reranker node.
Started(pc, l, snapshot) ==
    [pc |-> pc, lead |-> l, leadSnapshot |-> snapshot,
     sqlTemplateId |-> Null, sqlResult |-> Null, rerankedDocs |-> {},
     warnings |-> 0, since |-> Len(runs[l]), base |-> Cardinality(corpus)]

Queried(q, templateId, result) ==
    [pc |-> "reranker", lead |-> q.lead, leadSnapshot |-> q.leadSnapshot,
     sqlTemplateId |-> templateId, sqlResult |-> result, rerankedDocs |-> q.rerankedDocs,
     warnings |-> q.warnings, since |-> q.since, base |-> q.base]

Reranked(q, top, warnings) ==
    [pc |-> "synthesis", lead |-> q.lead, leadSnapshot |-> q.leadSnapshot,
     sqlTemplateId |-> q.sqlTemplateId, sqlResult |-> q.sqlResult, rerankedDocs |-> top,
     warnings |-> warnings, since |-> q.since, base |-> q.base]

UwInit ==
    /\ Init
    /\ corpus = {}
    /\ runs = [l \in Leads |-> <<>>]
    /\ uw = [r \in Runs |-> NoRun]

At(r, pc) == uw[r].pc = pc
Update(r, state) == uw' = [uw EXCEPT ![r] = state]

\* @Roles() of POST /ai/underwriting/run and GET /ai/underwriting/runs/:leadId
UnderwritingRoles == {"LOAN_OFFICER", "UNDERWRITER", "ADMIN"}

\* The roles guard: the claim is trusted.
canActivate(t) == t.role \in UnderwritingRoles

-----------------------------------------------------------------------------

\* What lead-service answers: GET /leads/:id reads the row.
getLeadSnapshot(l) == [status |-> status[l], creditScoreSnapshot |-> score[l]]

\* The conditional edge behind the router; the edges behind the other nodes are
\* in their actions.
nodeAfterRouter(needsFinancialLookup) ==
    IF needsFinancialLookup THEN "dbAgent" ELSE "reranker"

\* What the models may answer to a state of the graph: all their schemas admit.
router(l) == BOOLEAN
selectTemplate(l) == SQL_TEMPLATES
synthesize(state) == Decisions

\* run() up to the answer of the router's model.  lead-service decides with the
\* caller's own token; any answer but 200 ends the request before it changed
\* anything.
RunUnderwriting(r, t, l) ==
    /\ At(r, "idle")
    /\ canActivate(t)
    /\ Len(runs[l]) + Cardinality({k \in Runs : uw[k].lead = l}) < MaxRuns
    /\ findAccessibleOrThrow(l, t)
    /\ \E needsFinancialLookup \in router(l) :
         Update(r, Started(nodeAfterRouter(needsFinancialLookup), l, getLeadSnapshot(l)))
    /\ UNCHANGED <<vars, corpus, runs>>

\* Mutant: ORDER BY created_at without DESC.
runTemplate_Oldest(templateId, rows) ==
    LET n == Len(rows) k == IF n < PRIOR_RUNS_LIMIT THEN n ELSE PRIOR_RUNS_LIMIT IN
    IF templateId = "PRIOR_RUNS_FOR_LEAD"
    THEN [i \in 1..k |-> rows[i]]
    ELSE [d \in {rows[i] : i \in 1..n} |->
             Cardinality({i \in 1..n : rows[i] = d})]

\* The newest decisions, newest first; or how often each was taken.
runTemplate(templateId, rows) ==
    LET n == Len(rows) k == IF n < PRIOR_RUNS_LIMIT THEN n ELSE PRIOR_RUNS_LIMIT IN
    IF templateId = "PRIOR_RUNS_FOR_LEAD"
    THEN [i \in 1..k |-> rows[n + 1 - i]]
    ELSE [d \in {rows[i] : i \in 1..n} |->
             Cardinality({i \in 1..n : rows[i] = d})]

\* The model picks a template, the node runs it.
DbAgent(r) ==
    /\ At(r, "dbAgent")
    /\ \E templateId \in selectTemplate(uw[r].lead) :
         Update(r, Queried(uw[r], templateId, runTemplate(templateId, runs[uw[r].lead])))
    /\ UNCHANGED <<vars, corpus, runs>>

FirstOf(k, S) ==
    {T \in SUBSET S : Cardinality(T) = IF Cardinality(S) < k THEN Cardinality(S) ELSE k}

\* Cohere returns indices of the documents it was sent, topN of them.
rerank(found) == FirstOf(RERANK_TOP_N, found)

\* Mutant: no warning when the search finds nothing.
Reranker_NoWarning(r) ==
    /\ At(r, "reranker")
    /\ \E found \in FirstOf(RETRIEVAL_TOP_K, corpus) :
         \E top \in rerank(found) :
            Update(r, Reranked(uw[r], top, uw[r].warnings))
    /\ UNCHANGED <<vars, corpus, runs>>

\* The search; without a match a warning is left and Cohere is not called.
Reranker(r) ==
    /\ At(r, "reranker")
    /\ \E found \in FirstOf(RETRIEVAL_TOP_K, corpus) :
         \E top \in rerank(found) :
            Update(r, Reranked(uw[r], top,
                               IF found = {} THEN uw[r].warnings + 1 ELSE uw[r].warnings))
    /\ UNCHANGED <<vars, corpus, runs>>

\* underwritingRun.create
CreateRun(l, d) == runs' = [runs EXCEPT ![l] = Append(@, d)]

\* The model decides; then the row, and the answer to the client.
Synthesis(r) ==
    /\ At(r, "synthesis")
    /\ \E d \in synthesize(uw[r]) : CreateRun(uw[r].lead, d)
    /\ Update(r, NoRun)
    /\ UNCHANGED <<vars, corpus>>

\* A call throws or the replica dies: no row is written.
RunFails(r) ==
    /\ ~At(r, "idle")
    /\ Update(r, NoRun)
    /\ UNCHANGED <<vars, corpus, runs>>

\* GET /ai/underwriting/runs/:leadId does not ask lead-service, and changes nothing.
ListRuns(t, l) == canActivate(t) /\ UNCHANGED allVars

\* insertChunk(), of DocumentStore.
InsertPolicyChunk(c) ==
    /\ corpus' = corpus \cup {c}
    /\ UNCHANGED <<vars, runs, uw>>

UwNext ==
    \/ Next /\ UNCHANGED uwVars
    \/ \E r \in Runs, t \in Tokens, l \in Leads : RunUnderwriting(r, t, l)
    \/ \E r \in Runs : DbAgent(r) \/ Reranker(r) \/ Synthesis(r) \/ RunFails(r)
    \/ \E t \in Tokens, l \in Leads : ListRuns(t, l)
    \/ \E c \in Chunks : InsertPolicyChunk(c)

UwSpec == UwInit /\ [][UwNext]_allVars

-----------------------------------------------------------------------------
(* Properties *)

\* The lead a run reasons about is one the lead has been, whatever the run's
\* caller and lead-service's other callers do meanwhile: its status is one of the
\* lead's history, and from CREDIT_CHECKED on it comes with the score that was
\* recorded by then (getLeadSnapshot(), one read of a row that transition()
\* writes in one transaction).
SnapshotTrue ==
    \A r \in Runs : ~At(r, "idle") =>
        LET snapshot == uw[r].leadSnapshot IN
        /\ snapshot.status \in Reached(uw[r].lead)
        /\ snapshot.status \notin {"CREATED", "KYC_UPLOADED"}
              => snapshot.creditScoreSnapshot \in Scores

\* The first n of a lead's runs give this result.
LookedUp(templateId, result, rows, n) ==
    IF templateId = "PRIOR_RUNS_FOR_LEAD"
    THEN /\ Len(result) = Cardinality({i \in 1..n : n < i + PRIOR_RUNS_LIMIT})
         /\ \A i \in DOMAIN result : result[i] = rows[n + 1 - i]
    ELSE /\ \A i \in 1..n : rows[i] \in DOMAIN result
         /\ \A d \in DOMAIN result :
               result[d] = Cardinality({i \in 1..n : rows[i] = d})

\* No decision on a lead that was on record when a run began is missing from
\* the history the run is given, and none is in it twice or out of order, though
\* other runs for the lead end between any two of its nodes (runTemplate()).
HistorySeen ==
    \A r \in Runs : uw[r].sqlTemplateId # Null =>
        \E n \in uw[r].since..Len(runs[uw[r].lead]) :
            LookedUp(uw[r].sqlTemplateId, uw[r].sqlResult, runs[uw[r].lead], n)

\* A run that began with policy on record never decides "on lead data alone":
\* it cites as many chunks as there were, up to RERANK_TOP_N of the
\* RETRIEVAL_TOP_K; one that found none says so to its client; and only chunks
\* that are stored are cited (the reranker node and run()).
DecisionsGrounded ==
    \A r \in Runs : At(r, "synthesis") =>
        /\ uw[r].rerankedDocs \subseteq corpus
        /\ (uw[r].rerankedDocs = {}) <=> (uw[r].warnings = 1)
        /\ LET cited == Cardinality(uw[r].rerankedDocs) IN
             \/ cited >= uw[r].base
             \/ cited >= RETRIEVAL_TOP_K
             \/ cited >= RERANK_TOP_N

===============================================================================
