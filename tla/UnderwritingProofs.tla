-------------------------- MODULE UnderwritingProofs --------------------------
(***************************************************************************)
(* Proofs about Underwriting, for any runs, chunks, leads and requests.    *)
(***************************************************************************)
EXTENDS Underwriting, LeadServiceProofs, FiniteSetTheorems

-----------------------------------------------------------------------------
(* What runTemplate returns *)

\* What a template gives of the first n rows.
Answer(templateId, rows, n) ==
    LET k == IF n < PRIOR_RUNS_LIMIT THEN n ELSE PRIOR_RUNS_LIMIT IN
    IF templateId = "PRIOR_RUNS_FOR_LEAD"
    THEN [i \in 1..k |-> rows[n + 1 - i]]
    ELSE [d \in {rows[i] : i \in 1..n} |-> Cardinality({i \in 1..n : rows[i] = d})]

\* It does not depend on the rows behind them.
LEMMA AnswerPrefix ==
    ASSUME NEW templateId, NEW rows, NEW more, NEW n \in Nat,
           \A i \in 1..n : more[i] = rows[i]
    PROVE  Answer(templateId, more, n) = Answer(templateId, rows, n)
<1> DEFINE k == IF n < PRIOR_RUNS_LIMIT THEN n ELSE PRIOR_RUNS_LIMIT
<1>1. k \in Nat /\ k <= n
  BY UwAssumption
<1>2. \A i \in 1..k : n + 1 - i \in 1..n
  BY <1>1
<1>3. [i \in 1..k |-> more[n + 1 - i]] = [i \in 1..k |-> rows[n + 1 - i]]
  BY <1>2
<1>4. {more[i] : i \in 1..n} = {rows[i] : i \in 1..n}
  OBVIOUS
<1>5. \A d : {i \in 1..n : more[i] = d} = {i \in 1..n : rows[i] = d}
  OBVIOUS
<1>6. [d \in {more[i] : i \in 1..n} |-> Cardinality({i \in 1..n : more[i] = d})]
        = [d \in {rows[i] : i \in 1..n} |-> Cardinality({i \in 1..n : rows[i] = d})]
  BY <1>4, <1>5
<1> QED
  BY <1>3, <1>6 DEF Answer

\* The last k of n numbers are k.
LEMMA LastOnes ==
    ASSUME NEW n \in Nat, NEW k \in Nat, k <= n
    PROVE  Cardinality((n - k + 1)..n) = k
<1>1. n - k + 1 \in Int /\ n \in Int
  OBVIOUS
<1>2. \A a, b \in Int : Cardinality(a..b) = IF a > b THEN 0 ELSE b - a + 1
  BY FS_Interval
<1>3. Cardinality((n - k + 1)..n) = IF n - k + 1 > n THEN 0 ELSE n - (n - k + 1) + 1
  BY <1>1, <1>2
<1> QED
  BY <1>3

\* The newest decisions, newest first, or how often each was taken.
LEMMA AnswerLookedUp ==
    ASSUME NEW templateId, NEW rows, NEW n \in Nat
    PROVE  LookedUp(templateId, Answer(templateId, rows, n), rows, n)
<1> DEFINE k == IF n < PRIOR_RUNS_LIMIT THEN n ELSE PRIOR_RUNS_LIMIT
           result == Answer(templateId, rows, n)
<1>0. k \in Nat /\ k <= n /\ PRIOR_RUNS_LIMIT \in Nat
  BY UwAssumption
<1>1. CASE templateId = "PRIOR_RUNS_FOR_LEAD"
  <2>1. result = [i \in 1..k |-> rows[n + 1 - i]]
    BY <1>1 DEF Answer
  <2>2. Len(result) = k /\ DOMAIN result = 1..k
    BY <1>0, <2>1
  <2>3. {i \in 1..n : n < i + PRIOR_RUNS_LIMIT} = (n - k + 1)..n
    BY <1>0
  <2>4. Cardinality((n - k + 1)..n) = k
    <3> HIDE DEF k, result
    <3> QED
      BY <1>0, LastOnes
  <2> QED
    BY <1>1, <2>1, <2>2, <2>3, <2>4 DEF LookedUp
<1>2. CASE templateId # "PRIOR_RUNS_FOR_LEAD"
  BY <1>2 DEF Answer, LookedUp
<1> QED
  BY <1>1, <1>2

-----------------------------------------------------------------------------
(* What the searches return *)

\* k of the elements of S, or all of them.
LEMMA FirstOfSize ==
    ASSUME NEW S, IsFiniteSet(S), NEW k \in Nat, NEW T \in FirstOf(k, S)
    PROVE  /\ T \subseteq S /\ IsFiniteSet(T) /\ Cardinality(T) \in Nat /\ Cardinality(S) \in Nat
           /\ Cardinality(T) = IF Cardinality(S) < k THEN Cardinality(S) ELSE k
           /\ T = {} <=> Cardinality(T) = 0
<1>1. T \subseteq S /\ Cardinality(T) = IF Cardinality(S) < k THEN Cardinality(S) ELSE k
  BY DEF FirstOf
<1>2. IsFiniteSet(T)
  BY <1>1, FS_Subset
<1> QED
  BY <1>1, <1>2, FS_CardinalityType, FS_EmptySet

-----------------------------------------------------------------------------
(* The inductive invariant *)

\* What a run knows of its lead is what the lead has been, and its marks lie in the past.
RunKnown(r) ==
    ~At(r, "idle") => \E l \in Leads :
        /\ uw[r].lead = l /\ status[l] # "NONE"
        /\ uw[r].since \in 0..Len(runs[l])
        /\ uw[r].base \in 0..Cardinality(corpus)
        /\ At(r, "synthesis") \/ uw[r].warnings = 0
        /\ uw[r].leadSnapshot.status \in Reached(l)
        /\ uw[r].leadSnapshot.status \notin {"CREATED", "KYC_UPLOADED"}
              => uw[r].leadSnapshot.creditScoreSnapshot \in Scores

\* What a run was told of earlier decisions is the answer there was at some time
\* after it began.
RunTold(r) ==
    uw[r].sqlTemplateId # Null =>
        /\ ~At(r, "idle")
        /\ \E n \in uw[r].since..Len(runs[uw[r].lead]) :
              uw[r].sqlResult = Answer(uw[r].sqlTemplateId, runs[uw[r].lead], n)

\* What a run cites.
RunCites(r) ==
    At(r, "synthesis") =>
        /\ uw[r].rerankedDocs \subseteq corpus
        /\ (uw[r].rerankedDocs = {}) <=> (uw[r].warnings = 1)
        /\ \/ Cardinality(uw[r].rerankedDocs) >= uw[r].base
           \/ Cardinality(uw[r].rerankedDocs) >= RETRIEVAL_TOP_K
           \/ Cardinality(uw[r].rerankedDocs) >= RERANK_TOP_N

RunOK(r) == RunKnown(r) /\ RunTold(r) /\ RunCites(r)

UwInv ==
    /\ IInv
    /\ IsFiniteSet(corpus)
    /\ runs \in [Leads -> Seq(Decisions)]
    /\ uw = [r \in Runs |-> uw[r]]
    /\ \A r \in Runs : RunOK(r)

\* The invariant says what the properties ask.
LEMMA UwInvImplies == UwInv => SnapshotTrue /\ HistorySeen /\ DecisionsGrounded
<1> SUFFICES ASSUME UwInv PROVE SnapshotTrue /\ HistorySeen /\ DecisionsGrounded
  OBVIOUS
<1>1. SnapshotTrue
  BY DEF UwInv, RunOK, RunKnown, SnapshotTrue
<1>2. ASSUME NEW r \in Runs, uw[r].sqlTemplateId # Null
      PROVE  \E n \in uw[r].since..Len(runs[uw[r].lead]) :
                LookedUp(uw[r].sqlTemplateId, uw[r].sqlResult, runs[uw[r].lead], n)
  <2>1. /\ uw[r].lead \in Leads /\ uw[r].since \in 0..Len(runs[uw[r].lead])
        /\ \E n \in uw[r].since..Len(runs[uw[r].lead]) :
              uw[r].sqlResult = Answer(uw[r].sqlTemplateId, runs[uw[r].lead], n)
    BY <1>2 DEF UwInv, RunOK, RunKnown, RunTold
  <2>2. Len(runs[uw[r].lead]) \in Nat
    BY <2>1 DEF UwInv
  <2> QED
    BY <2>1, <2>2, AnswerLookedUp
<1>3. DecisionsGrounded
  BY DEF UwInv, RunOK, RunCites, DecisionsGrounded
<1> QED
  BY <1>1, <1>2, <1>3 DEF HistorySeen

\* The invariant holds initially.
LEMMA UwInitInv == UwInit => UwInv
<1> SUFFICES ASSUME UwInit PROVE UwInv
  OBVIOUS
<1>1. IInv /\ IsFiniteSet(corpus)
  BY InitIInv, FS_EmptySet DEF UwInit
<1>2. \A r \in Runs : RunOK(r)
  BY DEF UwInit, NoRun, RunOK, RunKnown, RunTold, RunCites, At
<1> QED
  BY <1>1, <1>2 DEF UwInit, UwInv

-----------------------------------------------------------------------------
(* Its preservation *)

\* What runs rely on is not taken back.
UwGrows ==
    /\ LeadsKept
    /\ corpus \subseteq corpus' /\ IsFiniteSet(corpus')
    /\ \A l \in Leads : /\ Len(runs[l]) <= Len(runs'[l]) /\ Len(runs'[l]) \in Nat
                        /\ \A i \in 1..Len(runs[l]) : runs'[l][i] = runs[l][i]

\* A run that does not move keeps what it has.
LEMMA RunStable ==
    ASSUME UwInv, UwGrows, NEW r \in Runs, uw'[r] = uw[r]
    PROVE  RunOK(r)'
<1> DEFINE l == uw[r].lead
<1>0. RunKnown(r) /\ RunTold(r) /\ RunCites(r)
  BY DEF UwInv, RunOK
<1>1. CASE At(r, "idle")
  BY <1>0, <1>1 DEF At, RunOK, RunKnown, RunTold, RunCites
<1>2. CASE ~At(r, "idle")
  <2>1. /\ l \in Leads /\ uw[r].since \in 0..Len(runs[l]) /\ Len(runs[l]) \in Nat
        /\ Len(runs[l]) <= Len(runs'[l]) /\ Len(runs'[l]) \in Nat
    BY <1>0, <1>2 DEF RunKnown, UwGrows, UwInv
  <2>2. Cardinality(corpus) <= Cardinality(corpus') /\ Cardinality(corpus) \in Nat
          /\ Cardinality(corpus') \in Nat
    BY FS_Subset, FS_CardinalityType DEF UwInv, UwGrows
  <2>3. RunKnown(r)'
    <3>1. PICK m \in Leads :
             /\ uw[r].lead = m /\ status[m] # "NONE"
             /\ uw[r].leadSnapshot.status \in Reached(m)
             /\ uw[r].since \in 0..Len(runs[m])
             /\ uw[r].base \in 0..Cardinality(corpus)
             /\ At(r, "synthesis") \/ uw[r].warnings = 0
             /\ uw[r].leadSnapshot.status \notin {"CREATED", "KYC_UPLOADED"}
                   => uw[r].leadSnapshot.creditScoreSnapshot \in Scores
      BY <1>0, <1>2 DEF RunKnown
    <3>2. status'[m] # "NONE" /\ Reached(m) \subseteq Reached(m)'
      BY <3>1 DEF UwGrows, LeadsKept
    <3>3. uw[r].leadSnapshot.status \in Reached(m)'
      BY <3>1, <3>2
    <3>4. uw[r].since \in 0..Len(runs'[m]) /\ uw[r].base \in 0..Cardinality(corpus')
      BY <2>1, <2>2, <3>1
    <3> QED
      BY <3>1, <3>2, <3>3, <3>4 DEF RunKnown, At
  <2>4. RunTold(r)'
    <3>1. ASSUME uw[r].sqlTemplateId # Null
          PROVE  \E n \in uw[r].since..Len(runs'[l]) :
                    uw[r].sqlResult = Answer(uw[r].sqlTemplateId, runs'[l], n)
      <4>1. PICK n \in uw[r].since..Len(runs[l]) :
               uw[r].sqlResult = Answer(uw[r].sqlTemplateId, runs[l], n)
        BY <1>0, <3>1 DEF RunTold
      <4>2. n \in Nat /\ n <= Len(runs[l]) /\ \A i \in 1..n : runs'[l][i] = runs[l][i]
        BY <2>1, <4>1 DEF UwGrows
      <4>3. Answer(uw[r].sqlTemplateId, runs'[l], n) = Answer(uw[r].sqlTemplateId, runs[l], n)
        BY <4>2, AnswerPrefix
      <4> QED
        BY <2>1, <4>1, <4>2, <4>3
    <3> HIDE DEF l
    <3>2. uw'[r].lead = l /\ uw[r].lead = l
      BY DEF l
    <3> QED
      BY <1>2, <3>1, <3>2 DEF RunTold, At
  <2>5. RunCites(r)'
    BY <1>0 DEF RunCites, At, UwGrows
  <2> QED
    BY <2>3, <2>4, <2>5 DEF RunOK
<1> QED
  BY <1>1, <1>2

\* A step of one run has to establish what that run has.
LEMMA RunMoves ==
    ASSUME UwInv, UwGrows, IInv', NEW r \in Runs, NEW q, uw' = [uw EXCEPT ![r] = q],
           runs' \in [Leads -> Seq(Decisions)], uw'[r] = q => RunOK(r)'
    PROVE  UwInv'
<1>1. /\ uw'[r] = q /\ \A s \in Runs : s # r => uw'[s] = uw[s]
      /\ uw' = [s \in Runs |-> uw'[s]]
  BY DEF UwInv
<1>2. \A s \in Runs : RunOK(s)'
  BY <1>1, RunStable
<1> QED
  BY <1>1, <1>2 DEF UwInv, UwGrows

\* A run that ends, whatever its end, is idle.
LEMMA RunEnds ==
    ASSUME NEW r \in Runs, uw'[r] = NoRun
    PROVE  RunOK(r)'
  BY DEF RunOK, RunKnown, RunTold, RunCites, At, NoRun

\* A status a lead has been in, past the first two, comes with its score.
LEMMA CheckedScored ==
    ASSUME IInv, NEW l \in Leads, status[l] \notin {"NONE", "CREATED", "KYC_UPLOADED"}
    PROVE  score[l] \in Scores
<1>0. status[l] \in LeadStatus /\ status[l] \in Reached(l)
  BY DEF IInv, TypeOK, AuditMatchesStatus, findByIdOrThrow, Moves, Reached
<1>1. \A s \in Reached(l) : s # "CREATED" =>
         \E from \in Reached(l) : assertValidTransition(from, s)
  BY ReachedByRow
<1>2. "CREDIT_CHECKED" \in Reached(l)
  <2>1. "BANK_HANDOFF" \in Reached(l) => "APPROVED" \in Reached(l)
    BY <1>1 DEF assertValidTransition, ALLOWED_TRANSITIONS
  <2>2. "APPROVED" \in Reached(l) \/ "DECLINED" \in Reached(l) => "CREDIT_CHECKED" \in Reached(l)
    BY <1>1 DEF assertValidTransition, ALLOWED_TRANSITIONS
  <2>3. "FUNDED" \in Reached(l) \/ "FUNDING_REJECTED" \in Reached(l) => "BANK_HANDOFF" \in Reached(l)
    BY <1>1 DEF assertValidTransition, ALLOWED_TRANSITIONS
  <2> QED
    BY <1>0, <2>1, <2>2, <2>3 DEF LeadStatus
<1> QED
  BY <1>2 DEF IInv, SnapshotsKept, TypeOK

\* What a lead has been does not change while lead-service rests.
LEMMA SameReached == UNCHANGED vars => \A l \in Leads : Reached(l)' = Reached(l)
  BY DEF Reached, vars

\* Every step keeps the invariant.
LEMMA UwNextInv ==
    ASSUME UwInv, [UwNext]_allVars
    PROVE  UwInv'
<1>0. /\ IInv /\ IsFiniteSet(corpus) /\ runs \in [Leads -> Seq(Decisions)]
      /\ \A l \in Leads : Len(runs[l]) \in Nat
      /\ Cardinality(corpus) \in Nat
  BY FS_CardinalityType DEF UwInv
<1>1. CASE [Next]_vars /\ UNCHANGED uwVars
  <2>1. IInv' /\ UwGrows
    BY <1>0, <1>1, NextIInv, NextKept DEF UwGrows, uwVars
  <2>2. \A r \in Runs : RunOK(r)'
    BY <1>1, <2>1, RunStable DEF uwVars
  <2> QED
    BY <1>1, <2>1, <2>2 DEF UwInv, uwVars
<1>2. ASSUME UNCHANGED <<vars, corpus, runs>>
      PROVE  IInv' /\ UwGrows /\ runs' \in [Leads -> Seq(Decisions)]
  <2>1. [Next]_vars
    BY <1>2
  <2> QED
    BY <1>0, <1>2, <2>1, NextIInv, NextKept DEF UwGrows
<1>3. ASSUME NEW r \in Runs, NEW t \in Tokens, NEW l \in Leads, RunUnderwriting(r, t, l)
      PROVE  UwInv'
  <2> PICK pc \in {"dbAgent", "reranker"} : uw' = [uw EXCEPT ![r] = Started(pc, l, getLeadSnapshot(l))]
    BY <1>3 DEF RunUnderwriting, Update, nodeAfterRouter
  <2>1. UNCHANGED <<vars, corpus, runs>> /\ status[l] # "NONE"
    BY <1>3 DEF RunUnderwriting, findAccessibleOrThrow, findByIdOrThrow
  <2>2. status[l] \in Reached(l)
    BY <1>0, <2>1 DEF IInv, AuditMatchesStatus, findByIdOrThrow, Moves, Reached
  <2>3. status[l] \notin {"CREATED", "KYC_UPLOADED"} => score[l] \in Scores
    BY <1>0, <2>1, CheckedScored
  <2>4. Reached(l)' = Reached(l)
    BY <2>1 DEF Reached, vars
  <2>5. ASSUME uw'[r] = Started(pc, l, getLeadSnapshot(l))
        PROVE  RunOK(r)'
    <3>1. /\ uw'[r].pc = pc /\ uw'[r].lead = l /\ uw'[r].sqlTemplateId = Null
          /\ uw'[r].since = Len(runs[l]) /\ uw'[r].base = Cardinality(corpus)
          /\ uw'[r].warnings = 0
          /\ uw'[r].leadSnapshot.status = status[l]
          /\ uw'[r].leadSnapshot.creditScoreSnapshot = score[l]
      BY <2>5 DEF Started, getLeadSnapshot
    <3>2. RunKnown(r)'
      BY <1>0, <2>1, <2>2, <2>3, <2>4, <3>1 DEF RunKnown, At, vars
    <3> QED
      BY <3>1, <3>2 DEF RunOK, RunTold, RunCites, At
  <2> QED
    BY <1>2, <2>1, <2>5, RunMoves
<1>4. ASSUME NEW r \in Runs, DbAgent(r)
      PROVE  UwInv'
  <2> PICK l : l = uw[r].lead
    OBVIOUS
  <2> PICK id, result : /\ result = runTemplate(id, runs[l])
                        /\ uw' = [uw EXCEPT ![r] = Queried(uw[r], id, result)]
    BY <1>4 DEF DbAgent, Update
  <2>1. At(r, "dbAgent") /\ UNCHANGED <<vars, corpus, runs>> /\ RunKnown(r)
    BY <1>4 DEF DbAgent, UwInv, RunOK
  <2>2. /\ l \in Leads /\ Len(runs[l]) \in Nat
        /\ result = Answer(id, runs[l], Len(runs[l]))
    BY <1>0, <2>1 DEF RunKnown, At, runTemplate, Answer
  <2>3. ASSUME uw'[r] = Queried(uw[r], id, result)
        PROVE  RunOK(r)'
    <3>1. /\ uw'[r].pc = "reranker" /\ uw'[r].lead = l /\ uw'[r].sqlTemplateId = id
          /\ uw'[r].sqlResult = result /\ uw'[r].since = uw[r].since
          /\ uw'[r].base = uw[r].base /\ uw'[r].warnings = uw[r].warnings
          /\ uw'[r].leadSnapshot = uw[r].leadSnapshot
      BY <2>3 DEF Queried
    <3>2. RunKnown(r)'
      BY <2>1, <3>1, SameReached DEF RunKnown, At, vars
    <3>3. uw[r].since \in 0..Len(runs[l])
      BY <2>1 DEF RunKnown, At
    <3>4. RunTold(r)'
      <4>1. Len(runs[l]) \in uw[r].since..Len(runs[l])
        BY <2>2, <3>3
      <4>2. /\ runs' = runs /\ uw'[r].pc # "idle"
            /\ uw'[r].sqlResult = Answer(uw'[r].sqlTemplateId, runs'[uw'[r].lead], Len(runs[l]))
            /\ Len(runs[l]) \in uw'[r].since..Len(runs'[uw'[r].lead])
        BY <2>1, <2>2, <3>1, <4>1
      <4> QED
        BY <4>2 DEF RunTold, At
    <3> QED
      BY <3>1, <3>2, <3>4 DEF RunOK, RunCites, At
  <2> QED
    BY <1>2, <2>1, <2>3, RunMoves
<1>5. ASSUME NEW r \in Runs, Reranker(r)
      PROVE  UwInv'
  <2> PICK found \in FirstOf(RETRIEVAL_TOP_K, corpus) : \E top \in FirstOf(RERANK_TOP_N, found) :
           uw' = [uw EXCEPT ![r] =
              Reranked(uw[r], top, IF found = {} THEN uw[r].warnings + 1 ELSE uw[r].warnings)]
    BY <1>5 DEF Reranker, Update, rerank
  <2>0. PICK top \in FirstOf(RERANK_TOP_N, found) :
           uw' = [uw EXCEPT ![r] =
              Reranked(uw[r], top, IF found = {} THEN uw[r].warnings + 1 ELSE uw[r].warnings)]
    OBVIOUS
  <2> PICK w : w = IF found = {} THEN uw[r].warnings + 1 ELSE uw[r].warnings
    OBVIOUS
  <2>1. At(r, "reranker") /\ UNCHANGED <<vars, corpus, runs>> /\ RunKnown(r) /\ RunTold(r)
    BY <1>5 DEF Reranker, UwInv, RunOK
  <2>2. w = IF found = {} THEN 1 ELSE 0
    BY <2>1 DEF RunKnown, At
  <2>3. /\ found \subseteq corpus /\ IsFiniteSet(found) /\ Cardinality(found) \in Nat
        /\ Cardinality(found) = IF Cardinality(corpus) < RETRIEVAL_TOP_K
                                THEN Cardinality(corpus) ELSE RETRIEVAL_TOP_K
        /\ found = {} <=> Cardinality(found) = 0
    BY <1>0, FirstOfSize, UwAssumption
  <2>4. /\ top \subseteq found /\ Cardinality(top) \in Nat
        /\ Cardinality(top) = IF Cardinality(found) < RERANK_TOP_N
                              THEN Cardinality(found) ELSE RERANK_TOP_N
        /\ top = {} <=> Cardinality(top) = 0
    BY <2>3, FirstOfSize, UwAssumption
  <2>5. top = {} <=> w = 1
    BY <2>2, <2>3, <2>4, UwAssumption
  <2>6. uw[r].base \in 0..Cardinality(corpus)
    BY <2>1 DEF RunKnown, At
  <2>7. \/ Cardinality(top) >= uw[r].base
        \/ Cardinality(top) >= RETRIEVAL_TOP_K
        \/ Cardinality(top) >= RERANK_TOP_N
    BY <1>0, <2>3, <2>4, <2>6, UwAssumption
  <2>8. ASSUME uw'[r] = Reranked(uw[r], top, w)
        PROVE  RunOK(r)'
    <3>1. /\ uw'[r].pc = "synthesis" /\ uw'[r].lead = uw[r].lead
          /\ uw'[r].sqlTemplateId = uw[r].sqlTemplateId
          /\ uw'[r].sqlResult = uw[r].sqlResult /\ uw'[r].since = uw[r].since
          /\ uw'[r].base = uw[r].base /\ uw'[r].warnings = w
          /\ uw'[r].leadSnapshot = uw[r].leadSnapshot /\ uw'[r].rerankedDocs = top
      BY <2>8 DEF Reranked
    <3>2. RunKnown(r)'
      BY <2>1, <3>1, SameReached DEF RunKnown, At, vars
    <3>3. RunTold(r)'
      BY <2>1, <3>1 DEF RunTold, At
    <3>4. RunCites(r)'
      BY <2>1, <2>3, <2>4, <2>5, <2>7, <3>1 DEF RunCites, At
    <3> QED
      BY <3>2, <3>3, <3>4 DEF RunOK
  <2> QED
    BY <1>2, <2>0, <2>1, <2>8, RunMoves
<1>6. ASSUME NEW r \in Runs, Synthesis(r)
      PROVE  UwInv'
  <2> PICK l : l = uw[r].lead
    OBVIOUS
  <2>1. /\ UNCHANGED <<vars, corpus>> /\ uw' = [uw EXCEPT ![r] = NoRun] /\ l \in Leads
    BY <1>6 DEF Synthesis, Update, At, UwInv, RunOK, RunKnown
  <2>2. PICK d \in Decisions : runs' = [runs EXCEPT ![l] = Append(runs[l], d)]
    BY <1>6 DEF Synthesis, CreateRun, synthesize
  <2>3. runs[l] \in Seq(Decisions)
    BY <1>0, <2>1
  <2>4. /\ Append(runs[l], d) \in Seq(Decisions) /\ Len(runs[l]) \in Nat
        /\ DOMAIN runs[l] = 1..Len(runs[l])
        /\ Len(Append(runs[l], d)) = Len(runs[l]) + 1
        /\ \A i \in DOMAIN runs[l] : Append(runs[l], d)[i] = runs[l][i]
    BY <2>3, AppendFacts
  <2>5. runs' \in [Leads -> Seq(Decisions)]
    BY <1>0, <2>2, <2>4
  <2>6. /\ runs'[l] = Append(runs[l], d)
        /\ \A m \in Leads : m # l => runs'[m] = runs[m]
    BY <1>0, <2>1, <2>2
  <2>7. IInv' /\ LeadsKept
    BY <1>0, <2>1, NextIInv, NextKept
  <2>8. ASSUME NEW m \in Leads
        PROVE  /\ Len(runs[m]) <= Len(runs'[m]) /\ Len(runs'[m]) \in Nat
               /\ \A i \in 1..Len(runs[m]) : runs'[m][i] = runs[m][i]
    <3>1. CASE m = l
      BY <2>4, <2>6, <3>1
    <3>2. CASE m # l
      BY <1>0, <2>6, <3>2
    <3> QED
      BY <3>1, <3>2
  <2>9. UwGrows
    BY <1>0, <2>1, <2>7, <2>8 DEF UwGrows
  <2> QED
    BY <2>1, <2>5, <2>7, <2>9, RunMoves, RunEnds
<1>7. ASSUME NEW r \in Runs, RunFails(r)
      PROVE  UwInv'
  <2>1. UNCHANGED <<vars, corpus, runs>> /\ uw' = [uw EXCEPT ![r] = NoRun]
    BY <1>7 DEF RunFails, Update
  <2> QED
    BY <1>2, <2>1, RunMoves, RunEnds
<1>8. ASSUME NEW c \in Chunks, InsertPolicyChunk(c)
      PROVE  UwInv'
  <2>1. corpus' = corpus \cup {c} /\ UNCHANGED <<vars, runs, uw>>
    BY <1>8 DEF InsertPolicyChunk
  <2>2. IInv' /\ LeadsKept
    BY <1>0, <2>1, NextIInv, NextKept
  <2>3. UwGrows
    BY <1>0, <2>1, <2>2, FS_AddElement DEF UwGrows
  <2>4. \A r \in Runs : RunOK(r)'
    BY <2>1, <2>3, RunStable
  <2> QED
    BY <2>1, <2>2, <2>3, <2>4 DEF UwInv, UwGrows
<1>9. ASSUME NEW t \in Tokens, NEW l \in Leads, ListRuns(t, l)
      PROVE  UNCHANGED allVars
  BY <1>9 DEF ListRuns
<1>10. CASE UNCHANGED allVars
  BY <1>1, <1>10 DEF allVars
<1> QED
  BY <1>1, <1>3, <1>4, <1>5, <1>6, <1>7, <1>8, <1>9, <1>10 DEF UwNext

-----------------------------------------------------------------------------
(* The theorems *)

\* UwInv is an invariant.
LEMMA UwInvariance == UwSpec => []UwInv
<1>1. UwInv /\ [UwNext]_allVars => UwInv'
  BY UwNextInv
<1> QED
  BY UwInitInv, <1>1, PTL DEF UwSpec

\* Underwriting only reads: beside it lead-service does what it does by itself.
THEOREM UnderwritingOnlyReads == UwSpec => Spec
<1>1. UwInit => Init
  BY DEF UwInit
<1>2. [UwNext]_allVars => [Next]_vars
  <2>1. ASSUME NEW r \in Runs, NEW t \in Tokens, NEW l \in Leads, RunUnderwriting(r, t, l)
        PROVE  UNCHANGED vars
    BY <2>1 DEF RunUnderwriting
  <2>2. ASSUME NEW r \in Runs, DbAgent(r) \/ Reranker(r) \/ Synthesis(r) \/ RunFails(r)
        PROVE  UNCHANGED vars
    BY <2>2 DEF DbAgent, Reranker, Synthesis, CreateRun, RunFails
  <2>3. ASSUME NEW t \in Tokens, NEW l \in Leads, ListRuns(t, l)
        PROVE  UNCHANGED vars
    BY <2>3 DEF ListRuns, allVars
  <2>4. ASSUME NEW c \in Chunks, InsertPolicyChunk(c)
        PROVE  UNCHANGED vars
    BY <2>4 DEF InsertPolicyChunk
  <2>5. ASSUME UNCHANGED allVars
        PROVE  UNCHANGED vars
    BY <2>5 DEF allVars
  <2> QED
    BY <2>1, <2>2, <2>3, <2>4, <2>5 DEF UwNext
<1> QED
  BY <1>1, <1>2, PTL DEF UwSpec, Spec

\* The lead a run of the graph reasons about is one the lead has been, with the
\* score that was on record by then: getLeadSnapshot() reads one row of
\* lead-service, which transition() writes in one transaction, and a history is
\* never taken back.
THEOREM SnapshotsAreTrue == UwSpec => []SnapshotTrue
  BY UwInvariance, UwInvImplies, PTL

\* No decision on record when a run began is missing from the history the run
\* is given, and none is in it twice or out of order: what runTemplate() returns
\* is the answer over a prefix of the lead's rows, and rows are only appended.
THEOREM HistoryIsSeen == UwSpec => []HistorySeen
  BY UwInvariance, UwInvImplies, PTL

\* A run that began with policy on record cites policy, one that cites none
\* says so, and only stored chunks are cited, for every RETRIEVAL_TOP_K and
\* RERANK_TOP_N of at least one.
THEOREM DecisionsAreGrounded == UwSpec => []DecisionsGrounded
  BY UwInvariance, UwInvImplies, PTL

===============================================================================
