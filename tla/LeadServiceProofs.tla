-------------------------- MODULE LeadServiceProofs --------------------------
(***************************************************************************)
(* Proofs about LeadService, for every set of leads, tokens, handlers,     *)
(* files and paths.                                                        *)
(***************************************************************************)
EXTENDS LeadService, TLAPS

\* Appending keeps the rows of a history and adds one at its end.
LEMMA AppendFacts ==
    ASSUME NEW S, NEW s \in Seq(S), NEW e \in S
    PROVE  /\ Append(s, e) \in Seq(S)
           /\ DOMAIN s = 1..Len(s) /\ Len(s) \in Nat
           /\ DOMAIN Append(s, e) = 1..(Len(s) + 1)
           /\ Len(Append(s, e)) = Len(s) + 1
           /\ \A i \in DOMAIN s : Append(s, e)[i] = s[i]
           /\ Append(s, e)[Len(s) + 1] = e
  OBVIOUS

\* An edge of the table joins two statuses; one that a role may drive by hand
\* does not start at CREATED.
LEMMA EdgeFacts ==
    ASSUME NEW from, NEW to, assertValidTransition(from, to)
    PROVE  /\ from \in LeadStatus /\ to \in LeadStatus
           /\ to # "CREATED"
           /\ to = "KYC_UPLOADED" <=> from = "CREATED"
           /\ from = "CREATED" => MANUAL_TRANSITION_ROLES(from, to) = {}
  BY DEF assertValidTransition, ALLOWED_TRANSITIONS, LeadStatus,
         MANUAL_TRANSITION_ROLES

\* One row more in the history of l, and no other history touched.
Recorded(l, row) ==
    LET n == Len(history[l]) IN
    /\ history' \in [Leads -> Seq(HistoryRow)]
    /\ outbox' \subseteq Event
    /\ \A m \in Leads : m # l => history'[m] = history[m]
    /\ n \in Nat /\ DOMAIN history[l] = 1..n /\ DOMAIN history'[l] = 1..(n + 1)
    /\ \A i \in DOMAIN history[l] : history'[l][i] = history[l][i]
    /\ history'[l][n + 1] = row

\* What RecordTransition does to one history.
LEMMA RecordFacts ==
    ASSUME TypeOK, NEW l \in Leads, NEW from \in LeadStatus \cup {Null},
           NEW to \in LeadStatus, NEW by \in Tokens, owner[l] \in Users,
           RecordTransition(l, from, to, by)
    PROVE  Recorded(l, [from |-> from, to |-> to, by |-> by])
<1> DEFINE row == [from |-> from, to |-> to, by |-> by]
<1>1. row \in HistoryRow
  BY DEF HistoryRow
<1>2. history[l] \in Seq(HistoryRow)
  BY DEF TypeOK
<1>3. history' = [history EXCEPT ![l] = Append(history[l], row)]
  BY DEF RecordTransition
<1>4. history'[l] = Append(history[l], row)
  BY <1>3 DEF TypeOK
<1>5. /\ Append(history[l], row) \in Seq(HistoryRow)
      /\ Len(history[l]) \in Nat
      /\ DOMAIN history[l] = 1..Len(history[l])
      /\ DOMAIN Append(history[l], row) = 1..(Len(history[l]) + 1)
      /\ \A i \in DOMAIN history[l] : Append(history[l], row)[i] = history[l][i]
      /\ Append(history[l], row)[Len(history[l]) + 1] = row
  BY <1>1, <1>2, AppendFacts
<1>6. history' \in [Leads -> Seq(HistoryRow)] /\ \A m \in Leads : m # l => history'[m] = history[m]
  BY <1>3, <1>5 DEF TypeOK
<1>7. outbox' \subseteq Event
  BY <1>5 DEF RecordTransition, TypeOK, Event
<1> HIDE DEF row
<1>8. Recorded(l, row)
  BY <1>4, <1>5, <1>6, <1>7 DEF Recorded
<1> QED
  BY <1>8 DEF row

-----------------------------------------------------------------------------

\* The initial state satisfies the invariant.
LEMMA InitIInv == Init => IInv
<1> SUFFICES ASSUME Init PROVE IInv
  OBVIOUS
<1> USE DEF Init
<1>1. TypeOK
  <2>1. NoRequest \in Request
    BY DEF NoRequest, Request, Pc
  <2>2. <<>> \in Seq(HistoryRow)
    OBVIOUS
  <2> QED
    BY <2>1, <2>2 DEF TypeOK
<1>2. RowsOwned
  BY DEF RowsOwned
<1>3. HandlersJustified
  BY DEF HandlersJustified, HandlerJustified, NoRequest
<1>4. AuditMatchesStatus
  BY DEF AuditMatchesStatus, findByIdOrThrow
<1>5. AuditRowsJustified
  BY DEF AuditRowsJustified
<1>6. SnapshotsKept
  BY DEF SnapshotsKept, Reached
<1>7. KycBacked
  BY DEF KycBacked
<1> QED
  BY <1>1, <1>2, <1>3, <1>4, <1>5, <1>6, <1>7 DEF IInv

-----------------------------------------------------------------------------
(* No step takes back what a waiting handler relies on. *)

Grows ==
    /\ \A l \in Leads : status[l] # "NONE" => status'[l] # "NONE"
    /\ \A l \in Leads : docs[l] \subseteq docs'[l]
    /\ \A p \in Paths : volume[p] # Null => volume'[p] = volume[p]
    /\ \A l \in Leads : Reached(l) \subseteq Reached(l)'

\* A handler that does not move keeps its justification.
LEMMA HandlerStable ==
    ASSUME Grows, NEW g \in Handlers, HandlerJustified(g), req'[g] = req[g]
    PROVE  HandlerJustified(g)'
  BY DEF Grows, HandlerJustified

\* So a step of one handler has to re-establish the justification of that
\* handler only.
LEMMA OneHandlerMoves ==
    ASSUME TypeOK, HandlersJustified, Grows, NEW h \in Handlers, NEW q,
           req' = [req EXCEPT ![h] = q],
           req'[h] = q => HandlerJustified(h)'
    PROVE  HandlersJustified'
<1>1. req'[h] = q /\ \A g \in Handlers : g # h => req'[g] = req[g]
  BY DEF TypeOK
<1>2. ASSUME NEW g \in Handlers PROVE HandlerJustified(g)'
  <2>1. CASE g = h
    BY <1>1, <2>1
  <2>2. CASE g # h
    BY <1>1, <2>2, HandlerStable DEF HandlersJustified
  <2> QED
    BY <2>1, <2>2
<1> QED
  BY <1>2 DEF HandlersJustified

\* An idle handler relies on nothing.
LEMMA FinishJustified ==
    ASSUME NEW h \in Handlers, req'[h] = NoRequest
    PROVE  HandlerJustified(h)'
  BY DEF HandlerJustified, NoRequest

\* NoRequest is a request.
LEMMA NoRequestType == NoRequest \in Request
  BY DEF NoRequest, Request, Pc

\* A step that writes neither the database nor the volume preserves all but
\* the handlers' part of the invariant.
LEMMA OnlyRequestsMove ==
    ASSUME IInv, UNCHANGED <<leadRow, history, volume, docs, outbox>>
    PROVE  /\ Grows
           /\ req' \in [Handlers -> Request] => TypeOK'
           /\ RowsOwned' /\ AuditMatchesStatus' /\ AuditRowsJustified'
           /\ SnapshotsKept' /\ KycBacked'
<1> USE DEF IInv, leadRow
<1>1. \A l \in Leads : Reached(l)' = Reached(l)
  BY DEF Reached
<1>2. Grows
  BY <1>1 DEF Grows
<1>3. req' \in [Handlers -> Request] => TypeOK'
  BY DEF TypeOK
<1>4. RowsOwned' /\ KycBacked'
  BY DEF RowsOwned, KycBacked
<1>5. AuditMatchesStatus'
  BY DEF AuditMatchesStatus, Moves, findByIdOrThrow
<1>6. AuditRowsJustified'
  BY DEF AuditRowsJustified, RowJustified
<1>7. SnapshotsKept'
  BY <1>1 DEF SnapshotsKept
<1> QED
  BY <1>2, <1>3, <1>4, <1>5, <1>6, <1>7

\* A history that gets one more row makes one more status reached.
LEMMA ReachedAppend ==
    ASSUME NEW l \in Leads, NEW n \in Nat, NEW to,
           status[l] # "NONE", status'[l] # "NONE",
           DOMAIN history[l] = 1..n, DOMAIN history'[l] = 1..(n + 1),
           \A i \in 1..n : history'[l][i] = history[l][i],
           history'[l][n + 1].to = to
    PROVE  Reached(l)' = Reached(l) \cup {to}
<1>1. \A s : s \in Reached(l)' <=> \/ s = "CREATED"
                                   \/ \E i \in 1..(n + 1) : s = history'[l][i].to
  BY DEF Reached
<1>2. \A s : s \in Reached(l) <=> \/ s = "CREATED"
                                  \/ \E i \in 1..n : s = history[l][i].to
  BY DEF Reached
<1>3. \A i : i \in 1..(n + 1) <=> i \in 1..n \/ i = n + 1
  OBVIOUS
<1>4. \A s : (\E i \in 1..(n + 1) : s = history'[l][i].to)
               <=> \/ \E i \in 1..n : s = history[l][i].to
                   \/ s = to
  BY <1>3
<1>5. \A s : s \in Reached(l)' <=> s \in Reached(l) \/ s = to
  BY <1>1, <1>2, <1>4
<1> HIDE DEF Reached
<1> QED
  BY <1>5

\* A justified row stays justified when the history only grows at its end.
LEMMA RowKept ==
    ASSUME TypeOK, NEW m \in Leads, NEW i \in DOMAIN history[m], RowJustified(m, i),
           \A j \in DOMAIN history[m] : history'[m][j] = history[m][j]
    PROVE  RowJustified(m, i)'
<1>1. history[m] \in Seq(HistoryRow)
  BY DEF TypeOK
<1>2. i \in Nat /\ 1..(i - 1) \subseteq DOMAIN history[m]
  BY <1>1
<1>3. history'[m][i] = history[m][i]
  OBVIOUS
<1>4. \A j \in 1..(i - 1) : history'[m][j] = history[m][j]
  BY <1>2
<1> QED
  BY <1>3, <1>4 DEF RowJustified

-----------------------------------------------------------------------------
(* One lemma per action *)

\* create()'s lead row preserves the invariant.
LEMMA CreateLeadIInv ==
    ASSUME IInv, NEW h \in Handlers, NEW t \in Tokens, NEW l \in Leads,
           CreateLead(h, t, l)
    PROVE  IInv'
<1> DEFINE q == Creating(l, t)
<1> USE DEF IInv
<1>1. status' = [status EXCEPT ![l] = "CREATED"] /\ status[l] = "NONE"
  BY DEF CreateLead
<1>2. /\ owner' = [owner EXCEPT ![l] = t.userId] /\ req' = [req EXCEPT ![h] = q]
      /\ UNCHANGED <<score, reason, history, volume, docs, outbox>>
  BY DEF CreateLead
<1>3. t.userId \in Users
  BY TokensAssumption
<1>4. history[l] = <<>>
  BY <1>1 DEF RowsOwned
<1>5. \A m \in Leads : /\ m # l => status'[m] = status[m] /\ owner'[m] = owner[m]
                       /\ status'[l] = "CREATED" /\ owner'[l] = t.userId
  BY <1>1, <1>2 DEF TypeOK
<1>6. TypeOK'
  <2>1. q \in Request
    BY DEF Creating, Request, Pc
  <2>2. "CREATED" \in LeadStatus
    BY DEF LeadStatus
  <2> QED
    BY <1>1, <1>2, <1>3, <2>1, <2>2 DEF TypeOK
<1>7. RowsOwned'
  BY <1>2, <1>3, <1>5 DEF RowsOwned
<1>8. \A m \in Leads : m # l => Reached(m)' = Reached(m)
  BY <1>2, <1>5 DEF Reached
<1>9. Reached(l)' = {"CREATED"}
  BY <1>2, <1>4, <1>5 DEF Reached
<1>10. Grows
  BY <1>1, <1>2, <1>4, <1>5, <1>8 DEF Grows, Reached
<1>11. HandlersJustified'
  <2>1. req'[h] = q => HandlerJustified(h)'
    BY <1>5 DEF HandlerJustified, Creating
  <2> QED
    BY <1>2, <1>10, <2>1, OneHandlerMoves
<1>12. AuditMatchesStatus'
  <2>1. Moves(l)' = {}
    BY <1>2, <1>4 DEF Moves
  <2>2. \A m \in Leads : Moves(m)' = Moves(m)
    BY <1>2 DEF Moves
  <2> QED
    BY <1>2, <1>5, <2>1, <2>2 DEF AuditMatchesStatus, findByIdOrThrow
<1>13. AuditRowsJustified'
  BY <1>2 DEF AuditRowsJustified, RowJustified
<1>14. SnapshotsKept'
  BY <1>2, <1>8, <1>9 DEF SnapshotsKept
<1>15. KycBacked'
  BY <1>2, <1>5 DEF KycBacked
<1> QED
  BY <1>6, <1>7, <1>11, <1>12, <1>13, <1>14, <1>15

\* The checks of upload() preserve the invariant.
LEMMA StartUploadIInv ==
    ASSUME IInv, NEW h \in Handlers, NEW t \in Tokens, NEW l \in Leads,
           NEW f \in Uploads, StartUpload(h, t, l, f)
    PROVE  IInv'
<1> DEFINE q == Uploading("saveFile", l, t, f, Null)
<1> USE DEF IInv
<1>1. /\ req' = [req EXCEPT ![h] = q] /\ status[l] # "NONE" /\ assertValidFile(f)
      /\ UNCHANGED <<leadRow, history, volume, docs, outbox>>
  BY DEF StartUpload, findAccessibleOrThrow, findByIdOrThrow
<1>2. q \in Request
  BY DEF Uploading, Request, Pc
<1>3. req' \in [Handlers -> Request]
  BY <1>1, <1>2 DEF TypeOK
<1>4. req'[h] = q => HandlerJustified(h)'
  BY <1>1 DEF HandlerJustified, Uploading, assertValidFile, leadRow
<1>5. HandlersJustified'
  BY <1>1, <1>4, OnlyRequestsMove, OneHandlerMoves
<1> QED
  BY <1>1, <1>3, <1>5, OnlyRequestsMove

\* The checks of updateStatus() preserve the invariant.
LEMMA StartUpdateStatusIInv ==
    ASSUME IInv, NEW h \in Handlers, NEW t \in Tokens, NEW l \in Leads,
           NEW to \in LeadStatus, NEW sc \in Scores \cup {Null},
           NEW rs \in Reasons \cup {Null}, StartUpdateStatus(h, t, l, to, sc, rs)
    PROVE  IInv'
<1> DEFINE q == Moving(l, t, status[l], to, sc, rs)
<1> USE DEF IInv
<1>1. /\ req' = [req EXCEPT ![h] = q] /\ status[l] # "NONE"
      /\ assertValidTransition(status[l], to)
      /\ t.role \in MANUAL_TRANSITION_ROLES(status[l], to)
      /\ requiresReason(to) => rs # Null
      /\ to = "CREDIT_CHECKED" => sc # Null
      /\ UNCHANGED <<leadRow, history, volume, docs, outbox>>
  BY DEF StartUpdateStatus, findByIdOrThrow, assertManualTransitionAllowed
<1>2. status[l] \in LeadStatus /\ status[l] # "CREATED"
  BY <1>1, EdgeFacts
<1>3. q \in Request
  BY <1>2 DEF Moving, Request, Pc
<1>4. req' \in [Handlers -> Request]
  BY <1>1, <1>3 DEF TypeOK
<1>5. status[l] \in Reached(l)
  <2>1. \E i \in DOMAIN history[l] : status[l] = history[l][i].to
    BY <1>1, <1>2 DEF AuditMatchesStatus, findByIdOrThrow, Moves
  <2> QED
    BY <2>1 DEF Reached
<1>6. docs[l] # {}
  BY <1>1, <1>2 DEF KycBacked
<1>7. req'[h] = q => HandlerJustified(h)'
  <2> SUFFICES ASSUME req'[h] = q PROVE HandlerJustified(h)'
    OBVIOUS
  <2>1. /\ q.pc = "commit" /\ q.lead = l /\ q.by = t /\ q.seen = status[l]
        /\ q.to = to /\ q.score = sc /\ q.reason = rs
    BY DEF Moving
  <2>2. Reached(l)' = Reached(l) /\ docs' = docs /\ status' = status
    BY <1>1 DEF Reached, leadRow
  <2> HIDE DEF q
  <2> QED
    BY <1>1, <1>2, <1>5, <1>6, <2>1, <2>2 DEF HandlerJustified
<1>8. HandlersJustified'
  BY <1>1, <1>7, OnlyRequestsMove, OneHandlerMoves
<1> QED
  BY <1>1, <1>4, <1>8, OnlyRequestsMove

\* Storing a file preserves the invariant.
LEMMA SaveFileIInv ==
    ASSUME IInv, NEW h \in Handlers, NEW p \in Paths, SaveFile(h, p)
    PROVE  IInv'
<1> DEFINE q == Uploading("insertDoc", req[h].lead, req[h].by, req[h].file, p)
<1> USE DEF IInv
<1>1. /\ req' = [req EXCEPT ![h] = q] /\ volume[p] = Null
      /\ volume' = [volume EXCEPT ![p] = req[h].file]
      /\ UNCHANGED <<leadRow, history, docs, outbox>>
  BY DEF SaveFile
<1>2. /\ req[h].lead \in Leads /\ status[req[h].lead] # "NONE" /\ req[h].by \in Tokens
      /\ req[h].file \in Uploads /\ assertValidFile(req[h].file)
  BY DEF SaveFile, HandlersJustified, HandlerJustified
<1>3. volume'[p] = req[h].file /\ \A x \in Paths : x # p => volume'[x] = volume[x]
  BY <1>1 DEF TypeOK
<1>4. \A l \in Leads : Reached(l)' = Reached(l) /\ Moves(l)' = Moves(l)
  BY <1>1 DEF Reached, Moves, leadRow
<1>5. Grows
  BY <1>1, <1>3, <1>4 DEF Grows, leadRow
<1>6. TypeOK'
  <2>1. q \in Request
    BY <1>2 DEF Uploading, Request, Pc
  <2> QED
    BY <1>1, <1>2, <2>1 DEF TypeOK, leadRow
<1>7. HandlersJustified'
  <2>1. volume'[p] # Null
    BY <1>2, <1>3, NullAssumption
  <2>2. req'[h] = q => HandlerJustified(h)'
    BY <1>1, <1>2, <1>3, <2>1 DEF HandlerJustified, Uploading, assertValidFile, leadRow
  <2> QED
    BY <1>1, <1>5, <2>2, OneHandlerMoves
<1>8. KycBacked'
  BY <1>1, <1>3 DEF KycBacked, TypeOK, leadRow, assertValidFile
<1>9. RowsOwned' /\ SnapshotsKept'
  BY <1>1, <1>4 DEF RowsOwned, SnapshotsKept, leadRow
<1>10. AuditMatchesStatus' /\ AuditRowsJustified'
  BY <1>1, <1>4 DEF AuditMatchesStatus, AuditRowsJustified, RowJustified, leadRow,
                    findByIdOrThrow
<1> QED
  BY <1>6, <1>7, <1>8, <1>9, <1>10

\* The document row preserves the invariant.
LEMMA InsertDocIInv ==
    ASSUME IInv, NEW h \in Handlers, InsertDoc(h)
    PROVE  IInv'
<1> DEFINE q == Uploading("markKyc", req[h].lead, req[h].by, req[h].file, req[h].path)
           l == req[h].lead
<1> USE DEF IInv
<1>1. /\ req' = [req EXCEPT ![h] = q]
      /\ docs' = [docs EXCEPT ![l] = docs[l] \cup {req[h].path}]
      /\ UNCHANGED <<leadRow, history, volume, outbox>>
  BY DEF InsertDoc
<1>2. /\ l \in Leads /\ status[l] # "NONE" /\ req[h].by \in Tokens
      /\ req[h].path \in Paths /\ volume[req[h].path] # Null
      /\ assertValidFile(volume[req[h].path])
  BY DEF InsertDoc, HandlersJustified, HandlerJustified
<1>3. /\ docs'[l] = docs[l] \cup {req[h].path}
      /\ \A m \in Leads : m # l => docs'[m] = docs[m]
  BY <1>1, <1>2 DEF TypeOK
<1>4. \A m \in Leads : Reached(m)' = Reached(m) /\ Moves(m)' = Moves(m)
  BY <1>1 DEF Reached, Moves, leadRow
<1>5. Grows
  <2>1. \A m \in Leads : docs[m] \subseteq docs'[m]
    BY <1>3
  <2> QED
    BY <1>1, <1>4, <2>1 DEF Grows, leadRow
<1>6. TypeOK'
  <2>1. q \in Request
    BY <1>2 DEF Uploading, Request, Pc, TypeOK
  <2>2. docs' \in [Leads -> SUBSET Paths]
    BY <1>1, <1>2 DEF TypeOK
  <2> QED
    BY <1>1, <2>1, <2>2 DEF TypeOK, leadRow
<1>7. HandlersJustified'
  <2>1. req'[h] = q => HandlerJustified(h)'
    BY <1>1, <1>2, <1>3 DEF HandlerJustified, Uploading, leadRow
  <2> QED
    BY <1>1, <1>5, <2>1, OneHandlerMoves
<1>8. KycBacked'
  <2>1. ASSUME NEW m \in Leads, NEW x \in docs'[m]
        PROVE  volume'[x] # Null /\ assertValidFile(volume'[x])
    BY <1>1, <1>2, <1>3, <2>1 DEF KycBacked
  <2>2. \A m \in Leads : status'[m] \notin {"NONE", "CREATED"} => docs'[m] # {}
    BY <1>1, <1>3 DEF KycBacked, leadRow
  <2> QED
    BY <2>1, <2>2 DEF KycBacked, assertValidFile
<1>9. RowsOwned' /\ SnapshotsKept'
  BY <1>1, <1>4 DEF RowsOwned, SnapshotsKept, leadRow
<1>10. AuditMatchesStatus' /\ AuditRowsJustified'
  BY <1>1, <1>4 DEF AuditMatchesStatus, AuditRowsJustified, RowJustified, leadRow,
                    findByIdOrThrow
<1> QED
  BY <1>6, <1>7, <1>8, <1>9, <1>10

\* The read of markKycUploaded() preserves the invariant.
LEMMA MarkKycUploadedIInv ==
    ASSUME IInv, NEW h \in Handlers, MarkKycUploaded(h)
    PROVE  IInv'
<1> USE DEF IInv
<1> PICK l \in Leads : l = req[h].lead
  BY DEF MarkKycUploaded, HandlersJustified, HandlerJustified
<1> DEFINE q == Moving(l, req[h].by, status[l], "KYC_UPLOADED", Null, Null)
<1>1. UNCHANGED <<leadRow, history, volume, docs, outbox>>
  BY DEF MarkKycUploaded
<1>2. l \in Leads /\ status[l] # "NONE" /\ req[h].by \in Tokens /\ docs[l] # {}
  BY DEF MarkKycUploaded, HandlersJustified, HandlerJustified
<1>3. CASE status[l] # "CREATED"
  <2>1. req' = [req EXCEPT ![h] = NoRequest]
    BY <1>3 DEF MarkKycUploaded, Finish
  <2>2. req' \in [Handlers -> Request]
    BY <2>1, NoRequestType DEF TypeOK
  <2>3. HandlersJustified'
    BY <1>1, <2>1, FinishJustified, OnlyRequestsMove, OneHandlerMoves
  <2> QED
    BY <1>1, <2>2, <2>3, OnlyRequestsMove
<1>4. CASE status[l] = "CREATED"
  <2>1. req' = [req EXCEPT ![h] = q]
    BY <1>4 DEF MarkKycUploaded
  <2>2. q \in Request
    BY <1>2, <1>4 DEF Moving, Request, Pc, LeadStatus
  <2>3. req' \in [Handlers -> Request]
    BY <2>1, <2>2 DEF TypeOK
  <2>4. status[l] \in Reached(l)'
    BY <1>1, <1>2, <1>4 DEF Reached, leadRow
  <2>5. req'[h] = q => HandlerJustified(h)'
    BY <1>1, <1>2, <1>4, <2>4 DEF HandlerJustified, Moving, leadRow, requiresReason,
          assertValidTransition, ALLOWED_TRANSITIONS
  <2>6. HandlersJustified'
    BY <1>1, <2>1, <2>5, OnlyRequestsMove, OneHandlerMoves
  <2> QED
    BY <1>1, <2>3, <2>6, OnlyRequestsMove
<1> QED
  BY <1>3, <1>4

\* A handler's failure preserves the invariant.
LEMMA FailIInv ==
    ASSUME IInv, NEW h \in Handlers, Fail(h)
    PROVE  IInv'
<1> USE DEF IInv
<1>1. /\ req' = [req EXCEPT ![h] = NoRequest]
      /\ UNCHANGED <<leadRow, history, volume, docs, outbox>>
  BY DEF Fail, Finish
<1>2. req' \in [Handlers -> Request]
  BY <1>1, NoRequestType DEF TypeOK
<1>3. HandlersJustified'
  BY <1>1, FinishJustified, OnlyRequestsMove, OneHandlerMoves
<1> QED
  BY <1>1, <1>2, <1>3, OnlyRequestsMove

\* create()'s history row preserves the invariant.
LEMMA CreateHistoryIInv ==
    ASSUME IInv, NEW h \in Handlers, CreateHistory(h)
    PROVE  IInv'
<1> USE DEF IInv
<1> PICK l \in Leads : l = req[h].lead /\ status[l] # "NONE" /\ req[h].by \in Tokens
  BY DEF CreateHistory, HandlersJustified, HandlerJustified
<1> DEFINE n == Len(history[l])
<1>1. /\ req' = [req EXCEPT ![h] = NoRequest]
      /\ RecordTransition(l, Null, "CREATED", req[h].by)
      /\ UNCHANGED <<leadRow, volume, docs>>
  BY DEF CreateHistory, Finish
<1>2. /\ history' \in [Leads -> Seq(HistoryRow)]
      /\ outbox' \subseteq Event
      /\ \A m \in Leads : m # l => history'[m] = history[m]
      /\ n \in Nat /\ DOMAIN history[l] = 1..n /\ DOMAIN history'[l] = 1..(n + 1)
      /\ \A i \in DOMAIN history[l] : history'[l][i] = history[l][i]
      /\ history'[l][n + 1] = [from |-> Null, to |-> "CREATED", by |-> req[h].by]
  <2>1. "CREATED" \in LeadStatus /\ owner[l] \in Users
    BY DEF LeadStatus, RowsOwned
  <2>2. Null \in LeadStatus \cup {Null}
    OBVIOUS
  <2>3. TypeOK /\ RecordTransition(l, Null, "CREATED", req[h].by)
    BY <1>1
  <2>4. Recorded(l, [from |-> Null, to |-> "CREATED", by |-> req[h].by])
    <3> HIDE DEF n, IInv
    <3> QED
      BY <2>1, <2>2, <2>3, RecordFacts
  <2> HIDE DEF IInv
  <2> QED
    BY <2>4 DEF Recorded
<1>3. \A m \in Leads : Reached(m)' = Reached(m)
  <2>1. Reached(l)' = Reached(l) \cup {"CREATED"}
    <3>1. /\ status[l] # "NONE" /\ status'[l] # "NONE"
          /\ n \in Nat /\ DOMAIN history[l] = 1..n /\ DOMAIN history'[l] = 1..(n + 1)
          /\ \A i \in 1..n : history'[l][i] = history[l][i]
          /\ history'[l][n + 1].to = "CREATED"
      BY <1>1, <1>2 DEF leadRow
    <3> HIDE DEF n, IInv
    <3> QED
      BY <3>1, ReachedAppend
  <2>2. \A m \in Leads : m # l => Reached(m)' = Reached(m)
    BY <1>1, <1>2 DEF Reached, leadRow
  <2>3. "CREATED" \in Reached(l)
    BY DEF Reached
  <2> HIDE DEF n, IInv
  <2>4. Reached(l)' = Reached(l)
    BY <2>1, <2>3
  <2> QED
    BY <2>2, <2>4, Zenon
<1>4. \A m \in Leads : Moves(m)' = Moves(m)
  <2> HIDE DEF n, IInv
  <2>1. \A i \in DOMAIN history'[l] :
           history'[l][i].from # Null <=> i \in DOMAIN history[l] /\ history[l][i].from # Null
    BY <1>2
  <2>2. DOMAIN history[l] \subseteq DOMAIN history'[l]
    BY <1>2
  <2>3. Moves(l)' = Moves(l)
    BY <2>1, <2>2 DEF Moves
  <2>4. \A m \in Leads : m # l => Moves(m)' = Moves(m)
    BY <1>2 DEF Moves
  <2> QED
    BY <2>3, <2>4, Zenon
<1>5. Grows
  BY <1>1, <1>3 DEF Grows, leadRow
<1>6. TypeOK'
  BY <1>1, <1>2, NoRequestType DEF TypeOK, leadRow
<1>7. HandlersJustified'
  BY <1>1, <1>5, FinishJustified, OneHandlerMoves
<1>8. RowsOwned' /\ KycBacked'
  <2>1. UNCHANGED <<status, owner, volume, docs>> /\ status[l] # "NONE" /\ owner[l] \in Users
    BY <1>1 DEF leadRow, RowsOwned
  <2>2. RowsOwned'
    BY <1>2, <2>1 DEF RowsOwned
  <2>3. KycBacked'
    BY <2>1 DEF KycBacked, assertValidFile
  <2> QED
    BY <2>2, <2>3
<1>9. SnapshotsKept'
  BY <1>1, <1>3 DEF SnapshotsKept, leadRow
<1>10. AuditMatchesStatus'
  <2>1. \A m \in Leads : \A i \in Moves(m) : history'[m][i] = history[m][i]
    BY <1>2 DEF Moves
  <2> QED
    BY <1>1, <1>4, <2>1 DEF AuditMatchesStatus, findByIdOrThrow, leadRow
<1>11. AuditRowsJustified'
  <2> SUFFICES ASSUME NEW m \in Leads, NEW i \in DOMAIN history'[m]
               PROVE  RowJustified(m, i)'
    BY DEF AuditRowsJustified
  <2>1. CASE m # l
    BY <1>2, <2>1, RowKept DEF AuditRowsJustified
  <2>2. CASE m = l /\ i \in DOMAIN history[l]
    BY <1>2, <2>2, RowKept DEF AuditRowsJustified
  <2>3. CASE m = l /\ i = n + 1
    <3> HIDE DEF n, IInv
    <3>1. history'[m][i].from = Null /\ history'[m][i].to = "CREATED"
      BY <1>2, <2>3
    <3> QED
      BY <3>1 DEF RowJustified
  <2> QED
    BY <1>2, <2>1, <2>2, <2>3
<1> QED
  BY <1>6, <1>7, <1>8, <1>9, <1>10, <1>11

\* What the transaction of transition() does, given what its handler relies on.
MovesLead(h, l, from, to, by) ==
    LET n == Len(history[l]) IN
    /\ l = req[h].lead /\ from = req[h].seen /\ to = req[h].to
    /\ status[l] # "NONE" /\ docs[l] # {}
    /\ assertValidTransition(from, to) /\ from \in Reached(l)
    /\ to = "KYC_UPLOADED" \/ by.role \in MANUAL_TRANSITION_ROLES(from, to)
    /\ to = "CREDIT_CHECKED" => req[h].score \in Scores
    /\ requiresReason(to) => req[h].reason \in Reasons
    /\ status' = [status EXCEPT ![l] = to]
    /\ history' \in [Leads -> Seq(HistoryRow)] /\ outbox' \subseteq Event
    /\ \A m \in Leads : m # l => history'[m] = history[m]
    /\ n \in Nat /\ DOMAIN history[l] = 1..n /\ DOMAIN history'[l] = 1..(n + 1)
    /\ \A i \in DOMAIN history[l] : history'[l][i] = history[l][i]
    /\ history'[l][n + 1] = [from |-> from, to |-> to, by |-> by]
    /\ Reached(l)' = Reached(l) \cup {to}
    /\ \A m \in Leads : m # l => Reached(m)' = Reached(m)

\* What the transaction of transition() does, in these terms.
LEMMA TransitionEffect ==
    ASSUME IInv, NEW h \in Handlers, Transition(h)
    PROVE  \E l \in Leads, from \in LeadStatus, to \in LeadStatus, by \in Tokens :
             MovesLead(h, l, from, to, by)
<1> USE DEF IInv
<1> PICK l \in Leads : /\ l = req[h].lead /\ status[l] # "NONE" /\ req[h].by \in Tokens
                       /\ docs[l] # {} /\ req[h].seen \in Reached(l)
  BY DEF Transition, HandlersJustified, HandlerJustified
<1> PICK from, to, by :
       /\ from = req[h].seen /\ to = req[h].to /\ by = req[h].by
       /\ assertValidTransition(from, to) /\ from \in Reached(l)
       /\ to = "KYC_UPLOADED" \/ by.role \in MANUAL_TRANSITION_ROLES(from, to)
       /\ to = "CREDIT_CHECKED" => req[h].score \in Scores
       /\ requiresReason(to) => req[h].reason \in Reasons
  BY DEF Transition, HandlersJustified, HandlerJustified
<1> DEFINE n == Len(history[l])
<1>1. /\ RecordTransition(l, from, to, by)
      /\ status' = [status EXCEPT ![l] = to]
  BY DEF Transition
<1>2. from \in LeadStatus /\ to \in LeadStatus /\ to # "NONE"
  BY EdgeFacts DEF LeadStatus
<1>3. /\ history' \in [Leads -> Seq(HistoryRow)]
      /\ outbox' \subseteq Event
      /\ \A m \in Leads : m # l => history'[m] = history[m]
      /\ n \in Nat /\ DOMAIN history[l] = 1..n /\ DOMAIN history'[l] = 1..(n + 1)
      /\ \A i \in DOMAIN history[l] : history'[l][i] = history[l][i]
      /\ history'[l][n + 1] = [from |-> from, to |-> to, by |-> by]
  <2>1. TypeOK /\ owner[l] \in Users
    BY DEF RowsOwned
  <2>2. Recorded(l, [from |-> from, to |-> to, by |-> by])
    <3> HIDE DEF n, IInv
    <3> QED
      BY <1>1, <1>2, <2>1, RecordFacts
  <2> HIDE DEF IInv
  <2> QED
    BY <2>2 DEF Recorded
<1>4. /\ status'[l] = to
      /\ \A m \in Leads : m # l => status'[m] = status[m]
  BY <1>1 DEF TypeOK
<1>5. Reached(l)' = Reached(l) \cup {to} /\ \A m \in Leads : m # l => Reached(m)' = Reached(m)
  <2>1. Reached(l)' = Reached(l) \cup {to}
    <3>1. /\ status[l] # "NONE" /\ status'[l] # "NONE"
          /\ n \in Nat /\ DOMAIN history[l] = 1..n /\ DOMAIN history'[l] = 1..(n + 1)
          /\ \A i \in 1..n : history'[l][i] = history[l][i]
          /\ history'[l][n + 1].to = to
      <4> HIDE DEF n, IInv
      <4> QED
        BY <1>2, <1>3, <1>4
    <3> HIDE DEF n, IInv
    <3> QED
      BY <3>1, ReachedAppend
  <2>2. \A m \in Leads : m # l => Reached(m)' = Reached(m)
    <3>1. \A m \in Leads : m # l => history'[m] = history[m] /\ status'[m] = status[m]
      BY <1>3, <1>4
    <3> HIDE DEF n, IInv
    <3> QED
      BY <3>1 DEF Reached
  <2> QED
    BY <2>1, <2>2
<1>6. MovesLead(h, l, from, to, by)
  BY <1>1, <1>3, <1>5 DEF MovesLead
<1> QED
  BY <1>2, <1>6

\* The transaction of transition() preserves the invariant, however stale the
\* status it was decided on.
LEMMA TransitionIInv ==
    ASSUME IInv, NEW h \in Handlers, Transition(h)
    PROVE  IInv'
<1>0. PICK l \in Leads, from \in LeadStatus, to \in LeadStatus, by \in Tokens :
         MovesLead(h, l, from, to, by)
  BY TransitionEffect
<1> USE DEF IInv
<1> DEFINE n == Len(history[l])
<1>1. /\ req' = [req EXCEPT ![h] = NoRequest]
      /\ UNCHANGED <<owner, volume, docs>>
      /\ status' = [status EXCEPT ![l] = to]
      /\ score' = [score EXCEPT ![l] = IF req[h].score # Null THEN req[h].score ELSE score[l]]
      /\ reason' = [reason EXCEPT ![l] = IF req[h].reason # Null THEN req[h].reason ELSE reason[l]]
  BY <1>0 DEF Transition, Finish, MovesLead
<1>2. from # Null /\ to \notin {"NONE", "CREATED"}
  BY <1>0, EdgeFacts, NullAssumption DEF LeadStatus, MovesLead
<1>3. /\ history' \in [Leads -> Seq(HistoryRow)]
      /\ outbox' \subseteq Event
      /\ \A m \in Leads : m # l => history'[m] = history[m]
      /\ n \in Nat /\ DOMAIN history[l] = 1..n /\ DOMAIN history'[l] = 1..(n + 1)
      /\ \A i \in DOMAIN history[l] : history'[l][i] = history[l][i]
      /\ history'[l][n + 1] = [from |-> from, to |-> to, by |-> by]
  BY <1>0 DEF MovesLead
<1>4. /\ status'[l] = to
      /\ \A m \in Leads : m # l => /\ status'[m] = status[m]
                                   /\ score'[m] = score[m] /\ reason'[m] = reason[m]
  BY <1>1 DEF TypeOK
<1>5. Reached(l)' = Reached(l) \cup {to} /\ \A m \in Leads : m # l => Reached(m)' = Reached(m)
  BY <1>0 DEF MovesLead
<1>6. Grows
  <2>1. \A m \in Leads : Reached(m) \subseteq Reached(m)'
    BY <1>5
  <2> QED
    BY <1>1, <1>2, <1>4, <2>1 DEF Grows
<1>7. TypeOK'
  <2>1. req[h] \in Request
    BY DEF TypeOK
  <2>2. req[h].score \in Scores \cup {Null} /\ req[h].reason \in Reasons \cup {Null}
    BY <2>1 DEF Request
  <2>3. status' \in [Leads -> LeadStatus \cup {"NONE"}]
    BY <1>1, <1>2 DEF TypeOK
  <2>4. score' \in [Leads -> Scores \cup {Null}] /\ reason' \in [Leads -> Reasons \cup {Null}]
    BY <1>1, <2>2 DEF TypeOK
  <2>5. req' \in [Handlers -> Request]
    BY <1>1, NoRequestType DEF TypeOK
  <2> QED
    BY <1>1, <1>3, <2>3, <2>4, <2>5 DEF TypeOK
<1>8. HandlersJustified'
  BY <1>1, <1>6, FinishJustified, OneHandlerMoves
<1>9. RowsOwned' /\ KycBacked'
  <2>1. status[l] # "NONE" /\ docs[l] # {}
    BY <1>0 DEF MovesLead
  <2>2. \A m \in Leads : IF status'[m] = "NONE" THEN history'[m] = <<>> ELSE owner'[m] \in Users
    <3>1. CASE \A m \in Leads : m # l => history'[m] = history[m] /\ status'[m] = status[m]
      BY <1>1, <1>2, <1>4, <2>1, <3>1 DEF RowsOwned
    <3> QED
      BY <1>3, <1>4, <3>1
  <2>3. KycBacked'
    BY <1>1, <1>4, <2>1 DEF KycBacked, assertValidFile
  <2> QED
    BY <2>2, <2>3 DEF RowsOwned
<1>10. SnapshotsKept'
  <2>1. /\ score'[l] = IF req[h].score # Null THEN req[h].score ELSE score[l]
        /\ reason'[l] = IF req[h].reason # Null THEN req[h].reason ELSE reason[l]
    BY <1>1 DEF TypeOK
  <2>2. /\ "CREDIT_CHECKED" \in Reached(l) => score[l] # Null
        /\ Reached(l) \cap {"DECLINED", "FUNDING_REJECTED"} # {} => reason[l] # Null
    BY DEF SnapshotsKept
  <2>3. /\ to = "CREDIT_CHECKED" => req[h].score # Null
        /\ to \in {"DECLINED", "FUNDING_REJECTED"} => req[h].reason # Null
    BY <1>0, NullAssumption DEF requiresReason, MovesLead
  <2>4. "CREDIT_CHECKED" \in Reached(l)' => score'[l] # Null
    <3> HIDE DEF n, IInv
    <3> QED
      BY <1>5, <2>1, <2>2, <2>3
  <2>5. Reached(l)' \cap {"DECLINED", "FUNDING_REJECTED"} # {} => reason'[l] # Null
    <3> HIDE DEF n, IInv
    <3> QED
      BY <1>5, <2>1, <2>2, <2>3
  <2> QED
    BY <1>4, <1>5, <2>4, <2>5 DEF SnapshotsKept
<1>11. AuditMatchesStatus'
  <2>1. n + 1 \in Moves(l)' /\ \A j \in Moves(l)' : j <= n + 1
    BY <1>2, <1>3 DEF Moves
  <2>2. \A m \in Leads : m # l => Moves(m)' = Moves(m)
    BY <1>3 DEF Moves
  <2>3. status'[l] = history'[l][n + 1].to
    BY <1>3, <1>4
  <2> SUFFICES ASSUME NEW m \in Leads, status'[m] # "NONE"
               PROVE  \/ Moves(m)' = {} /\ status'[m] = "CREATED"
                      \/ \E i \in Moves(m)' : /\ \A j \in Moves(m)' : j <= i
                                              /\ status'[m] = history'[m][i].to
    BY DEF AuditMatchesStatus, findByIdOrThrow
  <2>4. CASE m = l
    BY <2>1, <2>3, <2>4
  <2>5. CASE m # l
    <3>1. /\ status'[m] = status[m] /\ history'[m] = history[m] /\ Moves(m)' = Moves(m)
          /\ AuditMatchesStatus
      BY <1>3, <1>4, <2>2, <2>5
    <3> HIDE DEF n, IInv
    <3> QED
      BY <3>1 DEF AuditMatchesStatus, findByIdOrThrow
  <2> QED
    BY <2>4, <2>5
<1>12. AuditRowsJustified'
  <2> SUFFICES ASSUME NEW m \in Leads, NEW i \in DOMAIN history'[m]
               PROVE  RowJustified(m, i)'
    BY DEF AuditRowsJustified
  <2>1. CASE m # l
    BY <1>3, <2>1, RowKept DEF AuditRowsJustified
  <2>2. CASE m = l /\ i \in DOMAIN history[l]
    BY <1>3, <2>2, RowKept DEF AuditRowsJustified
  <2>3. CASE m = l /\ i = n + 1
    <3>1. from = "CREATED" \/ \E j \in DOMAIN history[l] : history[l][j].to = from
      BY <1>0 DEF Reached, MovesLead
    <3>2. from = "CREATED" \/ \E j \in 1..(i - 1) : history'[m][j].to = from
      BY <1>3, <2>3, <3>1
    <3>3. history'[m][i].from = from /\ history'[m][i].to = to /\ history'[m][i].by = by
      BY <1>3, <2>3
    <3>4. /\ assertValidTransition(from, to)
          /\ to = "KYC_UPLOADED" \/ by.role \in MANUAL_TRANSITION_ROLES(from, to)
      BY <1>0 DEF MovesLead
    <3> HIDE DEF n, IInv
    <3> QED
      BY <3>2, <3>3, <3>4 DEF RowJustified
  <2> QED
    BY <1>3, <2>1, <2>2, <2>3
<1> QED
  BY <1>7, <1>8, <1>9, <1>10, <1>11, <1>12

-----------------------------------------------------------------------------

\* A refused insert leaves what a failure leaves.
LEMMA RejectFails ==
    ASSUME NEW h \in Handlers, Reject(h)
    PROVE  Fail(h)
  BY DEF Reject, Fail

\* Every step preserves the invariant.
LEMMA NextIInv == IInv /\ [Next]_vars => IInv'
<1> SUFFICES ASSUME IInv, [Next]_vars PROVE IInv'
  OBVIOUS
<1>1. CASE UNCHANGED vars
  <2>1. \A l \in Leads : Reached(l)' = Reached(l) /\ Moves(l)' = Moves(l)
    BY <1>1 DEF vars, Reached, Moves
  <2>2. TypeOK' /\ RowsOwned' /\ KycBacked'
    BY <1>1 DEF IInv, vars, TypeOK, RowsOwned, KycBacked
  <2>3. HandlersJustified'
    BY <1>1, <2>1 DEF IInv, vars, HandlersJustified, HandlerJustified
  <2>4. AuditMatchesStatus' /\ AuditRowsJustified' /\ SnapshotsKept'
    BY <1>1, <2>1 DEF IInv, vars, AuditMatchesStatus, AuditRowsJustified, RowJustified,
                      SnapshotsKept, findByIdOrThrow
  <2> QED
    BY <2>2, <2>3, <2>4 DEF IInv
<1>2. CASE Next
  <2>1. CASE \E t \in Tokens, l \in Leads : GetById(t, l)
    BY <1>1, <2>1 DEF GetById
  <2> QED
    BY <1>2, <2>1, CreateLeadIInv, CreateHistoryIInv, StartUploadIInv, SaveFileIInv,
       InsertDocIInv, MarkKycUploadedIInv, StartUpdateStatusIInv, TransitionIInv,
       RejectFails, FailIInv DEF Next
<1> QED
  BY <1>1, <1>2

\* The inductive invariant holds in every reachable state.
THEOREM Invariance == Spec => []IInv
  BY InitIInv, NextIInv, PTL DEF Spec

\* Type correctness: every column, request and event stays well formed.
THEOREM TypeCorrect == Spec => []TypeOK
<1>1. IInv => TypeOK
  BY DEF IInv
<1> QED
  BY <1>1, Invariance, PTL

\* The lead row and the audit trail agree in every reachable state.
THEOREM AuditMatches == Spec => []AuditMatchesStatus
<1>1. IInv => AuditMatchesStatus
  BY DEF IInv
<1> QED
  BY <1>1, Invariance, PTL

\* Every audit row is a legal move by an authorised role out of a status the
\* lead had before.
THEOREM AuditJustified == Spec => []AuditRowsJustified
<1>1. IInv => AuditRowsJustified
  BY DEF IInv
<1> QED
  BY <1>1, Invariance, PTL

\* Documents are backed by valid files, and no lead leaves CREATED without one.
THEOREM KycIsBacked == Spec => []KycBacked
<1>1. IInv => KycBacked
  BY DEF IInv
<1> QED
  BY <1>1, Invariance, PTL

\* Credit scores and decline reasons are never cleared by a later update.
THEOREM SnapshotsAreKept == Spec => []SnapshotsKept
<1>1. IInv => SnapshotsKept
  BY DEF IInv
<1> QED
  BY <1>1, Invariance, PTL

\* A status a lead has been in was entered by a legal row, from a status the
\* lead had been in.
LEMMA ReachedByRow ==
    ASSUME IInv, NEW l \in Leads, NEW s \in Reached(l), s # "CREATED"
    PROVE  \E i \in DOMAIN history[l] :
             /\ history[l][i].to = s
             /\ assertValidTransition(history[l][i].from, s)
             /\ history[l][i].from \in Reached(l)
             /\ s = "KYC_UPLOADED"
                \/ history[l][i].by.role \in MANUAL_TRANSITION_ROLES(history[l][i].from, s)
<1>1. PICK i \in DOMAIN history[l] : history[l][i].to = s
  BY DEF Reached
<1>2. history[l] \in Seq(HistoryRow)
  BY DEF IInv, TypeOK
<1>3. status[l] # "NONE"
  BY <1>1 DEF IInv, RowsOwned
<1>4. RowJustified(l, i)
  BY DEF IInv, AuditRowsJustified
<1>5. /\ assertValidTransition(history[l][i].from, s)
      /\ \/ history[l][i].from = "CREATED"
         \/ \E j \in 1..(i - 1) : history[l][j].to = history[l][i].from
      /\ s = "KYC_UPLOADED"
         \/ history[l][i].by.role \in MANUAL_TRANSITION_ROLES(history[l][i].from, s)
  BY <1>1, <1>4 DEF RowJustified
<1>6. history[l][i].from \in Reached(l)
  <2>1. \A j \in 1..(i - 1) : j \in DOMAIN history[l]
    BY <1>2
  <2> QED
    BY <1>3, <1>5, <2>1 DEF Reached
<1> QED
  BY <1>1, <1>5, <1>6

\* No lead gets to the bank without a recorded approval by an underwriter or
\* an admin and a credit score, for any number of overlapping handlers: the
\* chain of justified rows is followed back from the lead's status.
THEOREM BankedLeadsApproved == Spec => []ApprovalOnRecord
<1>1. IInv => ApprovalOnRecord
  <2> SUFFICES ASSUME IInv, NEW l \in Leads,
                      status[l] \in {"BANK_HANDOFF", "FUNDED", "FUNDING_REJECTED"}
               PROVE  /\ score[l] # Null
                      /\ \E i \in DOMAIN history[l] :
                            /\ history[l][i].to = "APPROVED"
                            /\ history[l][i].by.role \in {"UNDERWRITER", "ADMIN"}
    BY DEF ApprovalOnRecord
  <2>1. status[l] \in Reached(l)
    BY DEF IInv, AuditMatchesStatus, findByIdOrThrow, Moves, Reached
  <2>2. "BANK_HANDOFF" \in Reached(l)
    <3>1. CASE status[l] = "BANK_HANDOFF"
      BY <2>1, <3>1
    <3>2. CASE status[l] \in {"FUNDED", "FUNDING_REJECTED"}
      <4>1. \E from \in Reached(l) : assertValidTransition(from, status[l])
        BY <2>1, <3>2, ReachedByRow
      <4> QED
        BY <3>2, <4>1 DEF assertValidTransition, ALLOWED_TRANSITIONS
    <3> QED
      BY <3>1, <3>2
  <2>3. "APPROVED" \in Reached(l)
    <3>1. \E from \in Reached(l) : assertValidTransition(from, "BANK_HANDOFF")
      BY <2>2, ReachedByRow
    <3> QED
      BY <3>1 DEF assertValidTransition, ALLOWED_TRANSITIONS
  <2>4. PICK i \in DOMAIN history[l] :
           /\ history[l][i].to = "APPROVED"
           /\ assertValidTransition(history[l][i].from, "APPROVED")
           /\ history[l][i].from \in Reached(l)
           /\ history[l][i].by.role \in MANUAL_TRANSITION_ROLES(history[l][i].from, "APPROVED")
    BY <2>3, ReachedByRow
  <2>5. history[l][i].from = "CREDIT_CHECKED"
    BY <2>4 DEF assertValidTransition, ALLOWED_TRANSITIONS
  <2>6. score[l] # Null
    BY <2>4, <2>5 DEF IInv, SnapshotsKept
  <2>7. history[l][i].by.role \in {"UNDERWRITER", "ADMIN"}
    BY <2>4, <2>5 DEF MANUAL_TRANSITION_ROLES
  <2> QED
    BY <2>4, <2>6, <2>7
<1> QED
  BY <1>1, Invariance, PTL

-----------------------------------------------------------------------------
(* What lead-service never takes back *)

\* The event tells what its row of the audit trail tells.
EventTrue(e) ==
    /\ e.leadId \in Leads /\ status[e.leadId] # "NONE"
    /\ e.userId = owner[e.leadId]
    /\ e.row \in DOMAIN history[e.leadId]
    /\ history[e.leadId][e.row].to = e.status
    /\ history[e.leadId][e.row].from = e.previousStatus

\* Owners, rows of the audit trail, statuses reached, scores, reasons and events
\* handed out stay; what is handed out is true.
LeadsKept ==
    /\ \A l \in Leads :
         /\ status[l] # "NONE" => status'[l] # "NONE" /\ owner'[l] = owner[l]
         /\ \A i \in DOMAIN history[l] :
               i \in DOMAIN history'[l] /\ history'[l][i] = history[l][i]
         /\ Reached(l) \subseteq Reached(l)'
         /\ score[l] # Null => score'[l] # Null
         /\ reason[l] # Null => reason'[l] # Null
    /\ outbox \subseteq outbox'
    /\ \A e \in outbox' \ outbox : EventTrue(e)'

\* A step that leaves the rows and the outbox alone keeps them.
LEMMA QuietKept ==
    ASSUME UNCHANGED <<leadRow, history, outbox>>
    PROVE  LeadsKept
  BY DEF LeadsKept, leadRow, Reached

\* RecordTransition adds one true event, of the row it adds.
LEMMA RecordKept ==
    ASSUME IInv, NEW l \in Leads, NEW from \in LeadStatus \cup {Null}, NEW to \in LeadStatus,
           NEW by \in Tokens, status[l] # "NONE", status'[l] # "NONE", owner' = owner,
           RecordTransition(l, from, to, by)
    PROVE  /\ outbox \subseteq outbox'
           /\ \A e \in outbox' \ outbox : EventTrue(e)'
           /\ \A m \in Leads : \A i \in DOMAIN history[m] :
                 i \in DOMAIN history'[m] /\ history'[m][i] = history[m][i]
<1> DEFINE n == Len(history[l])
<1>1. /\ \A m \in Leads : m # l => history'[m] = history[m]
      /\ n \in Nat /\ DOMAIN history[l] = 1..n /\ DOMAIN history'[l] = 1..(n + 1)
      /\ \A i \in DOMAIN history[l] : history'[l][i] = history[l][i]
      /\ history'[l][n + 1] = [from |-> from, to |-> to, by |-> by]
  <2>1. owner[l] \in Users /\ TypeOK
    BY DEF IInv, RowsOwned
  <2>2. Recorded(l, [from |-> from, to |-> to, by |-> by])
    BY <2>1, RecordFacts
  <2> QED
    BY <2>2 DEF Recorded
<1>2. outbox' = outbox \cup {[leadId |-> l, userId |-> owner[l], status |-> to,
                               previousStatus |-> from, row |-> n + 1]}
  BY DEF RecordTransition
<1> HIDE DEF n
<1>3. \A e \in outbox' \ outbox : EventTrue(e)'
  BY <1>1, <1>2 DEF EventTrue
<1> QED
  BY <1>1, <1>2, <1>3

\* Every step of lead-service keeps them.
LEMMA NextKept ==
    ASSUME IInv, [Next]_vars
    PROVE  LeadsKept
<1> TypeOK
  BY DEF IInv
<1>1. ASSUME NEW h \in Handlers, NEW t \in Tokens, NEW l \in Leads, CreateLead(h, t, l)
      PROVE  LeadsKept
  <2>1. /\ status[l] = "NONE" /\ history[l] = <<>>
        /\ status' = [status EXCEPT ![l] = "CREATED"]
        /\ owner' = [owner EXCEPT ![l] = t.userId]
        /\ UNCHANGED <<score, reason, history, outbox>>
    BY <1>1 DEF CreateLead, IInv, RowsOwned
  <2>2. \A m \in Leads : /\ status[m] # "NONE" => status'[m] # "NONE" /\ owner'[m] = owner[m]
                         /\ Reached(m) \subseteq Reached(m)'
    BY <2>1 DEF TypeOK, Reached
  <2> QED
    BY <2>1, <2>2 DEF LeadsKept
<1>2. ASSUME NEW h \in Handlers, CreateHistory(h)
      PROVE  LeadsKept
  <2> PICK l \in Leads : l = req[h].lead /\ status[l] # "NONE" /\ req[h].by \in Tokens
    BY <1>2 DEF CreateHistory, IInv, HandlersJustified, HandlerJustified
  <2>1. /\ RecordTransition(l, Null, "CREATED", req[h].by)
        /\ UNCHANGED <<status, owner, score, reason>>
    BY <1>2 DEF CreateHistory, leadRow
  <2>2. /\ outbox \subseteq outbox'
        /\ \A e \in outbox' \ outbox : EventTrue(e)'
        /\ \A m \in Leads : \A i \in DOMAIN history[m] :
              i \in DOMAIN history'[m] /\ history'[m][i] = history[m][i]
    <3>1. "CREATED" \in LeadStatus /\ Null \in LeadStatus \cup {Null}
      BY DEF LeadStatus
    <3> QED
      BY <2>1, <3>1, RecordKept
  <2>3. \A m \in Leads : Reached(m) \subseteq Reached(m)'
    BY <2>1, <2>2 DEF Reached
  <2> QED
    BY <2>1, <2>2, <2>3 DEF LeadsKept
<1>3. ASSUME NEW h \in Handlers, Transition(h)
      PROVE  LeadsKept
  <2> PICK l \in Leads : l = req[h].lead /\ status[l] # "NONE" /\ req[h].by \in Tokens
    BY <1>3 DEF Transition, IInv, HandlersJustified, HandlerJustified
  <2> PICK from, to : from = req[h].seen /\ to = req[h].to
    OBVIOUS
  <2>1. /\ assertValidTransition(from, to)
        /\ RecordTransition(l, from, to, req[h].by)
        /\ status' = [status EXCEPT ![l] = to] /\ owner' = owner
        /\ score' = [score EXCEPT ![l] = IF req[h].score # Null THEN req[h].score ELSE @]
        /\ reason' = [reason EXCEPT ![l] = IF req[h].reason # Null THEN req[h].reason ELSE @]
    BY <1>3 DEF Transition
  <2>2. from \in LeadStatus /\ to \in LeadStatus /\ to # "NONE"
    BY <2>1, EdgeFacts DEF LeadStatus
  <2>3. \A m \in Leads : /\ status[m] # "NONE" => status'[m] # "NONE"
                         /\ score[m] # Null => score'[m] # Null
                         /\ reason[m] # Null => reason'[m] # Null
    BY <2>1, <2>2 DEF TypeOK
  <2>4. /\ outbox \subseteq outbox'
        /\ \A e \in outbox' \ outbox : EventTrue(e)'
        /\ \A m \in Leads : \A i \in DOMAIN history[m] :
              i \in DOMAIN history'[m] /\ history'[m][i] = history[m][i]
    BY <2>1, <2>2, <2>3, RecordKept
  <2>5. \A m \in Leads : Reached(m) \subseteq Reached(m)'
    BY <2>3, <2>4 DEF Reached
  <2> QED
    BY <2>1, <2>3, <2>4, <2>5 DEF LeadsKept
<1>4. ASSUME NEW h \in Handlers,
             \/ \E t \in Tokens, l \in Leads, f \in Uploads : StartUpload(h, t, l, f)
             \/ \E p \in Paths : SaveFile(h, p)
             \/ InsertDoc(h) \/ MarkKycUploaded(h) \/ Fail(h)
             \/ \E t \in Tokens, l \in Leads, to \in LeadStatus,
                   sc \in Scores \cup {Null}, rs \in Reasons \cup {Null} :
                   StartUpdateStatus(h, t, l, to, sc, rs)
      PROVE  LeadsKept
  BY <1>4, QuietKept
     DEF StartUpload, SaveFile, InsertDoc, MarkKycUploaded, Fail, StartUpdateStatus
<1>5. ASSUME UNCHANGED vars
      PROVE  LeadsKept
  BY <1>5, QuietKept DEF vars, leadRow
<1> QED
  BY <1>1, <1>2, <1>3, <1>4, <1>5, RejectFails DEF Next, GetById

-----------------------------------------------------------------------------
(* Refinement *)

\* The transition table is the tree of stages.
LEMMA TableIsTree ==
    ASSUME NEW from, NEW to, assertValidTransition(from, to)
    PROVE  to \in Ledger!LaterStages /\ Ledger!Prerequisite(to) = from
  BY DEF assertValidTransition, ALLOWED_TRANSITIONS, Ledger!LaterStages,
         Ledger!Prerequisite

\* A step that changes neither the leads' status nor the set of statuses they
\* have had is a stuttering step of the ledger.
LEMMA LedgerStutter ==
    ASSUME status' = status, \A l \in Leads : Reached(l)' = Reached(l)
    PROVE  UNCHANGED <<status, [l \in Leads |-> Reached(l)]>>
<1>1. [l \in Leads |-> Reached(l)]' = [l \in Leads |-> Reached(l)]
  BY Zenon
<1> QED
  BY <1>1

\* However requests overlap and fail, a lead enters a stage only after the
\* stage it depends on: LeadService implements LeadLedger.
THEOREM LedgerRefinement == Spec => ImplementsLedger
<1> DEFINE reached == [l \in Leads |-> Reached(l)]
<1>1. Init => Ledger!Init
  BY DEF Init, Ledger!Init, Reached
<1>2. IInv /\ [Next]_vars => [Ledger!Next]_<<status, reached>>
  <2> SUFFICES ASSUME IInv, [Next]_vars PROVE [Ledger!Next]_<<status, reached>>
    OBVIOUS
  <2>1. CASE status' = status /\ history' = history
    <3>1. \A l \in Leads : Reached(l)' = Reached(l)
      BY <2>1 DEF Reached
    <3> QED
      BY <2>1, <3>1, LedgerStutter
  <2>2. ASSUME NEW h \in Handlers, NEW t \in Tokens, NEW l \in Leads, CreateLead(h, t, l)
        PROVE  Ledger!Next
    <3>1. /\ status[l] = "NONE" /\ status' = [status EXCEPT ![l] = "CREATED"]
          /\ history' = history
      BY <2>2 DEF CreateLead
    <3>2. history[l] = <<>> /\ status \in [Leads -> LeadStatus \cup {"NONE"}]
      BY <3>1 DEF IInv, RowsOwned, TypeOK
    <3>3. Reached(l)' = Reached(l) \cup {"CREATED"}
      BY <3>1, <3>2 DEF Reached
    <3>4. \A m \in Leads : m # l => Reached(m)' = Reached(m)
      BY <3>1, <3>2 DEF Reached
    <3>5. reached' = [reached EXCEPT ![l] = @ \cup {"CREATED"}]
      BY <3>3, <3>4
    <3> QED
      BY <3>1, <3>5 DEF Ledger!Next, Ledger!Open
  <2>3. ASSUME NEW h \in Handlers, CreateHistory(h)
        PROVE  UNCHANGED <<status, reached>>
    <3> PICK l \in Leads : l = req[h].lead /\ status[l] # "NONE" /\ req[h].by \in Tokens
      BY <2>3 DEF IInv, CreateHistory, HandlersJustified, HandlerJustified
    <3> DEFINE n == Len(history[l])
    <3>1. status' = status /\ RecordTransition(l, Null, "CREATED", req[h].by)
      BY <2>3 DEF CreateHistory, leadRow
    <3>2. /\ \A m \in Leads : m # l => history'[m] = history[m]
          /\ n \in Nat /\ DOMAIN history[l] = 1..n /\ DOMAIN history'[l] = 1..(n + 1)
          /\ \A i \in DOMAIN history[l] : history'[l][i] = history[l][i]
          /\ history'[l][n + 1] = [from |-> Null, to |-> "CREATED", by |-> req[h].by]
      <4>1. "CREATED" \in LeadStatus /\ owner[l] \in Users /\ TypeOK
        BY DEF LeadStatus, RowsOwned, IInv
      <4>2. Null \in LeadStatus \cup {Null}
        OBVIOUS
      <4>3. Recorded(l, [from |-> Null, to |-> "CREATED", by |-> req[h].by])
        <5> HIDE DEF n, reached
        <5> QED
          BY <3>1, <4>1, <4>2, RecordFacts
      <4> HIDE DEF reached
      <4> QED
        BY <4>3 DEF Recorded
    <3>3. Reached(l)' = Reached(l) \cup {"CREATED"}
      <4>1. /\ status[l] # "NONE" /\ status'[l] # "NONE"
            /\ n \in Nat /\ DOMAIN history[l] = 1..n /\ DOMAIN history'[l] = 1..(n + 1)
            /\ \A i \in 1..n : history'[l][i] = history[l][i]
            /\ history'[l][n + 1].to = "CREATED"
        <5> HIDE DEF n, reached
        <5> QED
          BY <3>1, <3>2
      <4> HIDE DEF n, reached
      <4> QED
        BY <4>1, ReachedAppend
    <3>4. "CREATED" \in Reached(l)
      BY DEF Reached
    <3>5. \A m \in Leads : m # l => Reached(m)' = Reached(m)
      BY <3>1, <3>2 DEF Reached
    <3> QED
      BY <3>1, <3>3, <3>4, <3>5, LedgerStutter
  <2>4. ASSUME NEW h \in Handlers, Transition(h)
        PROVE  Ledger!Next
    <3>1. PICK l \in Leads, from \in LeadStatus, to \in LeadStatus, by \in Tokens :
             MovesLead(h, l, from, to, by)
      BY <2>4, TransitionEffect
    <3>2. /\ assertValidTransition(from, to)
          /\ from \in Reached(l) /\ status' = [status EXCEPT ![l] = to]
      BY <3>1 DEF MovesLead
    <3>3. to \in Ledger!LaterStages /\ Ledger!Prerequisite(to) = from
      BY <3>2, TableIsTree
    <3>4. reached' = [reached EXCEPT ![l] = @ \cup {to}]
      BY <3>1 DEF MovesLead
    <3> QED
      BY <3>2, <3>3, <3>4 DEF Ledger!Next, Ledger!Enter
  <2>5. CASE UNCHANGED vars
    BY <2>1, <2>5 DEF vars
  <2>6. CASE Next
    <3>1. ASSUME NEW h \in Handlers, NEW t \in Tokens, NEW l \in Leads, NEW f \in Uploads,
                 StartUpload(h, t, l, f)
          PROVE  status' = status /\ history' = history
      BY <3>1 DEF StartUpload, leadRow
    <3>2. ASSUME NEW h \in Handlers, NEW t \in Tokens, NEW l \in Leads,
                 NEW to \in LeadStatus, NEW sc \in Scores \cup {Null},
                 NEW rs \in Reasons \cup {Null}, StartUpdateStatus(h, t, l, to, sc, rs)
          PROVE  status' = status /\ history' = history
      BY <3>2 DEF StartUpdateStatus, leadRow
    <3>3. ASSUME NEW h \in Handlers,
                 (\E p \in Paths : SaveFile(h, p)) \/ InsertDoc(h) \/ MarkKycUploaded(h) \/ Fail(h)
          PROVE  status' = status /\ history' = history
      BY <3>3 DEF SaveFile, InsertDoc, MarkKycUploaded, Fail, leadRow
    <3>4. ASSUME NEW t \in Tokens, NEW l \in Leads, GetById(t, l)
          PROVE  status' = status /\ history' = history
      BY <3>4 DEF GetById, vars
    <3> QED
      BY <2>1, <2>2, <2>3, <2>4, <2>6, <3>1, <3>2, <3>3, <3>4, RejectFails DEF Next
  <2> QED
    BY <2>5, <2>6
<1> QED
  BY <1>1, <1>2, Invariance, PTL DEF Spec, ImplementsLedger, Ledger!Spec

-----------------------------------------------------------------------------
(* The life cycle, with any requests in flight *)

\* A decision that is stale by now shows in the trail: the lead has left the
\* status it was taken in by another decision, or has two of one status already.
Traced(h) ==
    LET l == req[h].lead IN
    req[h].pc = "commit" =>
        \/ req[h].seen = status[l]
        \/ Split(l)
        \/ \E i \in Moves(l) : history[l][i].from = req[h].seen
StaleTraced == \A h \in Handlers : Traced(h)

\* Rows are never taken back, so a trail that is split stays split.
LEMMA SplitStays ==
    ASSUME NEW l \in Leads,
           \A i \in DOMAIN history[l] : i \in DOMAIN history'[l] /\ history'[l][i] = history[l][i]
    PROVE  /\ Split(l) => Split(l)'
           /\ \A i \in Moves(l) : i \in Moves(l)' /\ history'[l][i] = history[l][i]
  BY DEF Split, Moves

\* A move is the second of its status if and only if it splits the trail.
LEMMA MoveSplits ==
    ASSUME NEW h \in Handlers, NEW l \in Leads, NEW from \in LeadStatus, NEW to \in LeadStatus,
           NEW by \in Tokens, MovesLead(h, l, from, to, by)
    PROVE  /\ \E i \in Moves(l)' : history'[l][i].from = from
           /\ Split(l)' <=> \/ Split(l)
                            \/ \E i \in Moves(l) : history[l][i].from = from
<1> DEFINE n == Len(history[l])
<1>1. /\ n \in Nat /\ DOMAIN history[l] = 1..n /\ DOMAIN history'[l] = 1..(n + 1)
      /\ \A i \in DOMAIN history[l] : history'[l][i] = history[l][i]
      /\ history'[l][n + 1].from = from
  BY DEF MovesLead
<1> HIDE DEF n
<1>2. from # Null
  BY NullAssumption
<1>3. Moves(l)' = Moves(l) \cup {n + 1} /\ n + 1 \notin Moves(l)
  BY <1>1, <1>2 DEF Moves
<1>4. \A i \in Moves(l) : history'[l][i] = history[l][i]
  BY <1>1 DEF Moves
<1> QED
  BY <1>1, <1>3, <1>4 DEF Split

\* A step that leaves the leads alone and takes at most a fresh decision.
LEMMA TracedQuietly ==
    ASSUME StaleTraced, UNCHANGED <<status, history>>, NEW h \in Handlers,
           \/ req'[h] = req[h]
           \/ req'[h].pc # "commit"
           \/ req'[h].seen = status[req'[h].lead]
    PROVE  Traced(h)'
<1>1. \A l : Split(l)' <=> Split(l)
  BY DEF Split, Moves
<1> QED
  BY <1>1 DEF StaleTraced, Traced, Moves

\* Another request's step that moves the lead leaves its row for all who come late.
LEMMA TracedByMove ==
    ASSUME IInv, StaleTraced, NEW g \in Handlers, Transition(g), NEW h \in Handlers
    PROVE  Traced(h)'
<1>1. PICK l \in Leads, from \in LeadStatus, to \in LeadStatus, by \in Tokens :
         MovesLead(g, l, from, to, by)
  BY TransitionEffect
<1>2. /\ req[g].pc = "commit" /\ req[g].lead = l /\ req[g].seen = from
      /\ status' = [status EXCEPT ![l] = to]
      /\ \A i \in DOMAIN history[l] : i \in DOMAIN history'[l] /\ history'[l][i] = history[l][i]
      /\ \A m \in Leads : m # l => history'[m] = history[m]
  <2>1. req[g].pc = "commit"
    BY DEF Transition
  <2> DEFINE n == Len(history[l])
  <2>2. /\ l = req[g].lead /\ from = req[g].seen /\ status' = [status EXCEPT ![l] = to]
        /\ n \in Nat /\ DOMAIN history[l] = 1..n /\ DOMAIN history'[l] = 1..(n + 1)
        /\ \A i \in DOMAIN history[l] : history'[l][i] = history[l][i]
        /\ \A m \in Leads : m # l => history'[m] = history[m]
    BY <1>1 DEF MovesLead
  <2> HIDE DEF n
  <2>3. \A i \in 1..n : i \in 1..(n + 1)
    BY <2>2
  <2> QED
    BY <2>1, <2>2, <2>3
<1>3. req'[h] = IF h = g THEN NoRequest ELSE req[h]
  BY DEF Transition, Finish, IInv, TypeOK
<1>4. CASE h = g
  BY <1>3, <1>4 DEF Traced, NoRequest
<1>5. ASSUME h # g, req[h].pc = "commit"
      PROVE  Traced(h)'
  <2>1. PICK m \in Leads : m = req[h].lead
    BY <1>5 DEF IInv, HandlersJustified, HandlerJustified
  <2>2. CASE m # l
    <3>1. history'[m] = history[m] /\ status'[m] = status[m]
      BY <1>2, <2>2 DEF IInv, TypeOK
    <3>2. Split(m)' <=> Split(m)
      BY <3>1 DEF Split, Moves
    <3> QED
      BY <1>3, <1>5, <2>1, <3>1, <3>2 DEF StaleTraced, Traced, Moves
  <2>3. CASE m = l
    <3>1. Traced(g) /\ Traced(h)
      BY DEF StaleTraced
    <3>2. /\ Split(l) => Split(l)'
          /\ \A i \in Moves(l) : i \in Moves(l)' /\ history'[l][i] = history[l][i]
      BY <1>2, SplitStays
    <3>3. CASE req[h].seen = status[l]
      <4>1. Split(l)' \/ from = status[l]
        BY <1>1, <1>2, <3>1, <3>2, MoveSplits DEF Traced
      <4>2. Split(l)' \/ \E i \in Moves(l)' : history'[l][i].from = req[h].seen
        BY <1>1, <3>3, <4>1, MoveSplits
      <4> QED
        BY <1>3, <1>5, <2>1, <2>3, <4>2 DEF Traced
    <3>4. CASE Split(l) \/ \E i \in Moves(l) : history[l][i].from = req[h].seen
      <4>1. Split(l)' \/ \E i \in Moves(l)' : history'[l][i].from = req[h].seen
        BY <3>2, <3>4
      <4> QED
        BY <1>3, <1>5, <2>1, <2>3, <4>1 DEF Traced
    <3> QED
      BY <1>5, <2>1, <2>3, <3>1, <3>3, <3>4 DEF Traced
  <2> QED
    BY <2>2, <2>3
<1> QED
  BY <1>3, <1>4, <1>5 DEF Traced

\* What is stale stays traced under every step.
LEMMA StaleTracedStep ==
    ASSUME IInv, StaleTraced, [Next]_vars
    PROVE  StaleTraced'
<1> SUFFICES ASSUME NEW h \in Handlers PROVE Traced(h)'
  BY DEF StaleTraced
<1> TypeOK
  BY DEF IInv
<1>1. CASE UNCHANGED vars
  BY <1>1, TracedQuietly DEF vars
<1>2. ASSUME NEW g \in Handlers, NEW t \in Tokens, NEW l \in Leads, CreateLead(g, t, l)
      PROVE  Traced(h)'
  <2>1. CASE g = h
    BY <1>2, <2>1 DEF CreateLead, Creating, TypeOK, Traced
  <2>2. ASSUME g # h, req[h].pc = "commit"
        PROVE  Traced(h)'
    <3>1. PICK m \in Leads : m = req[h].lead /\ status[m] # "NONE"
      BY <2>2 DEF IInv, HandlersJustified, HandlerJustified
    <3>2. status'[m] = status[m] /\ history' = history /\ req'[h] = req[h]
      BY <1>2, <2>2, <3>1 DEF CreateLead, TypeOK
    <3>3. Split(m)' <=> Split(m)
      BY <3>2 DEF Split, Moves
    <3> QED
      BY <3>1, <3>2, <3>3 DEF StaleTraced, Traced, Moves
  <2> QED
    BY <1>2, <2>1, <2>2 DEF CreateLead, TypeOK, Traced
<1>3. ASSUME NEW g \in Handlers, CreateHistory(g)
      PROVE  Traced(h)'
  <2>1. LeadsKept /\ status' = status
    BY <1>3, NextKept DEF Next, CreateHistory, leadRow
  <2>2. CASE g = h
    BY <1>3, <2>2 DEF CreateHistory, Finish, NoRequest, TypeOK, Traced
  <2>3. ASSUME g # h, req[h].pc = "commit"
        PROVE  Traced(h)'
    <3>1. PICK m \in Leads : m = req[h].lead
      BY <2>3 DEF IInv, HandlersJustified, HandlerJustified
    <3>2. /\ Split(m) => Split(m)'
          /\ \A i \in Moves(m) : i \in Moves(m)' /\ history'[m][i] = history[m][i]
      BY <2>1, SplitStays DEF LeadsKept
    <3>3. req'[h] = req[h]
      BY <1>3, <2>3 DEF CreateHistory, Finish, TypeOK
    <3> QED
      BY <2>1, <3>1, <3>2, <3>3 DEF StaleTraced, Traced
  <2> QED
    BY <1>3, <2>2, <2>3 DEF CreateHistory, Finish, TypeOK, Traced
<1>4. ASSUME NEW g \in Handlers, Transition(g)
      PROVE  Traced(h)'
  BY <1>4, TracedByMove
<1>5. ASSUME NEW g \in Handlers, NEW q, req' = [req EXCEPT ![g] = q],
             UNCHANGED <<status, history>>, q.pc # "commit" \/ q.seen = status[q.lead]
      PROVE  Traced(h)'
  BY <1>5, TracedQuietly DEF TypeOK
<1>6. ASSUME NEW g \in Handlers, NEW t \in Tokens, NEW l \in Leads, NEW f \in Uploads,
             StartUpload(g, t, l, f)
      PROVE  Traced(h)'
  BY <1>5, <1>6 DEF StartUpload, Uploading, leadRow
<1>7. ASSUME NEW g \in Handlers, (\E p \in Paths : SaveFile(g, p)) \/ InsertDoc(g)
      PROVE  Traced(h)'
  BY <1>5, <1>7 DEF SaveFile, InsertDoc, Uploading, leadRow
<1>8. ASSUME NEW g \in Handlers, MarkKycUploaded(g)
      PROVE  Traced(h)'
  BY <1>5, <1>8 DEF MarkKycUploaded, Finish, NoRequest, Moving, leadRow
<1>9. ASSUME NEW g \in Handlers, NEW t \in Tokens, NEW l \in Leads, NEW to \in LeadStatus,
             NEW sc \in Scores \cup {Null}, NEW rs \in Reasons \cup {Null},
             StartUpdateStatus(g, t, l, to, sc, rs)
      PROVE  Traced(h)'
  BY <1>5, <1>9 DEF StartUpdateStatus, Moving, leadRow
<1>10. ASSUME NEW g \in Handlers, Fail(g)
       PROVE  Traced(h)'
  BY <1>5, <1>10 DEF Fail, Finish, NoRequest, leadRow
<1> QED
  BY <1>1, <1>2, <1>3, <1>4, <1>6, <1>7, <1>8, <1>9, <1>10, RejectFails DEF Next, GetById

\* No decision is stale at first.
LEMMA StaleTracedInit == Init => StaleTraced
  BY DEF Init, StaleTraced, Traced, NoRequest

\* The transaction of a lead whose trail is not split afterwards was decided on the
\* status the lead still had.
LEMMA DecidedNow ==
    ASSUME StaleTraced, NEW h \in Handlers, Transition(h),
           NEW l \in Leads, NEW from \in LeadStatus, NEW to \in LeadStatus,
           NEW by \in Tokens, MovesLead(h, l, from, to, by), ~Split(l)'
    PROVE  ~Split(l) /\ from = status[l]
<1>1. Traced(h) /\ req[h].pc = "commit" /\ req[h].lead = l /\ req[h].seen = from
  BY DEF StaleTraced, Transition, MovesLead
<1> QED
  BY <1>1, MoveSplits DEF Traced

\* The same tree, as LeadWorkflow names it.
LEMMA TableIsTreeW ==
    ASSUME NEW from, NEW to, assertValidTransition(from, to)
    PROVE  to \in Workflow!LaterStages /\ Workflow!Prerequisite(to) = from
  BY DEF assertValidTransition, ALLOWED_TRANSITIONS, Workflow!LaterStages,
         Workflow!Prerequisite

\* A lead that has been moved is in a later stage.
LEMMA MovedIsLater ==
    ASSUME IInv, NEW l \in Leads, NEW i \in Moves(l)
    PROVE  status[l] \in Workflow!LaterStages
<1>1. i \in DOMAIN history[l]
  BY DEF Moves
<1>2. status[l] # "NONE"
  BY <1>1 DEF IInv, RowsOwned
<1>3. PICK j \in Moves(l) : status[l] = history[l][j].to
  BY <1>2 DEF IInv, AuditMatchesStatus, findByIdOrThrow
<1>4. j \in DOMAIN history[l] /\ history[l][j].from # Null
  BY DEF Moves
<1>5. assertValidTransition(history[l][j].from, history[l][j].to)
  BY <1>4 DEF IInv, AuditRowsJustified, RowJustified
<1> QED
  BY <1>3, <1>5, TableIsTreeW

CurrentOf(l) == IF Split(l) THEN "SPLIT" ELSE status[l]

\* A move goes along the life cycle, splits the trail, or changes what is split.
LEMMA MoveOnCourse ==
    ASSUME IInv, StaleTraced, NEW h \in Handlers, Transition(h)
    PROVE  Workflow!Next \/ UNCHANGED [l \in Leads |-> CurrentOf(l)]
<1> DEFINE current == [l \in Leads |-> CurrentOf(l)]
<1>1. PICK l \in Leads, from \in LeadStatus, to \in LeadStatus, by \in Tokens :
         MovesLead(h, l, from, to, by)
  BY TransitionEffect
<1>2. /\ assertValidTransition(from, to) /\ status' = [status EXCEPT ![l] = to]
      /\ \A m \in Leads : m # l => history'[m] = history[m]
  BY <1>1 DEF MovesLead
<1>3. \A m \in Leads : m # l => CurrentOf(m)' = CurrentOf(m)
  BY <1>2 DEF CurrentOf, Split, Moves, IInv, TypeOK
<1>4. current' = [current EXCEPT ![l] = CurrentOf(l)']
  BY <1>3
<1>5. CASE ~Split(l)'
  <2>1. ~Split(l) /\ from = status[l]
    BY <1>1, <1>5, DecidedNow
  <2>2. current[l] = from /\ CurrentOf(l)' = to
    BY <1>2, <1>5, <2>1 DEF CurrentOf, IInv, TypeOK
  <2>3. to \in Workflow!LaterStages /\ Workflow!Prerequisite(to) = from
    BY <1>2, TableIsTreeW
  <2>4. Workflow!Move(l)
    BY <1>4, <2>2, <2>3 DEF Workflow!Move, Workflow!Following, CurrentOf
  <2> QED
    BY <2>4 DEF Workflow!Next
<1>6. CASE Split(l)' /\ ~Split(l)
  <2>1. status[l] \in Workflow!LaterStages
    BY <1>1, <1>6, MoveSplits, MovedIsLater
  <2>2. current[l] = status[l] /\ CurrentOf(l)' = "SPLIT"
    BY <1>6 DEF CurrentOf
  <2>3. Workflow!Split(l)
    BY <1>4, <2>1, <2>2 DEF Workflow!Split, CurrentOf
  <2> QED
    BY <2>3 DEF Workflow!Next
<1>7. CASE Split(l)' /\ Split(l)
  <2>1. CurrentOf(l)' = CurrentOf(l)
    BY <1>7 DEF CurrentOf
  <2> QED
    BY <1>4, <2>1
<1> QED
  BY <1>5, <1>6, <1>7

\* The row of create() is no decision.
LEMMA CreateHistoryStutters ==
    ASSUME IInv, NEW h \in Handlers, CreateHistory(h)
    PROVE  \A l \in Leads : /\ Split(l)' <=> Split(l)
                            /\ status'[l] = status[l]
                            /\ Reached(l)' \subseteq Reached(l) \cup {"CREATED"}
<1> PICK l \in Leads, by \in Tokens : l = req[h].lead /\ status[l] # "NONE" /\ by = req[h].by
  BY DEF CreateHistory, IInv, HandlersJustified, HandlerJustified
<1> DEFINE n == Len(history[l])
<1>1. /\ RecordTransition(l, Null, "CREATED", by) /\ status' = status
      /\ owner[l] \in Users /\ TypeOK
  BY DEF CreateHistory, leadRow, IInv, RowsOwned
<1>2. /\ \A m \in Leads : m # l => history'[m] = history[m]
      /\ n \in Nat /\ DOMAIN history[l] = 1..n /\ DOMAIN history'[l] = 1..(n + 1)
      /\ \A i \in DOMAIN history[l] : history'[l][i] = history[l][i]
      /\ history'[l][n + 1] = [from |-> Null, to |-> "CREATED", by |-> by]
  <2>1. "CREATED" \in LeadStatus /\ Null \in LeadStatus \cup {Null}
    BY DEF LeadStatus
  <2>2. Recorded(l, [from |-> Null, to |-> "CREATED", by |-> by])
    <3> HIDE DEF n
    <3> QED
      BY <1>1, <2>1, RecordFacts
  <2> QED
    BY <2>2 DEF Recorded
<1> HIDE DEF n
<1>3. Split(l)' <=> Split(l)
  <2>1. Moves(l)' = Moves(l) /\ \A i \in Moves(l) : history'[l][i] = history[l][i]
    BY <1>2 DEF Moves
  <2> QED
    BY <2>1 DEF Split
<1>4. Reached(l)' = Reached(l) \cup {"CREATED"}
  <2>1. history'[l][n + 1].to = "CREATED" /\ status'[l] # "NONE"
    BY <1>1, <1>2
  <2> QED
    BY <1>1, <1>2, <2>1, ReachedAppend
<1>5. ASSUME NEW m \in Leads, m # l
      PROVE  (Split(m)' <=> Split(m)) /\ Reached(m)' = Reached(m)
  BY <1>1, <1>2, <1>5 DEF Split, Moves, Reached
<1> QED
  BY <1>1, <1>3, <1>4, <1>5

\* The steps that leave leads and trail alone.
LEMMA OtherSteps ==
    ASSUME [Next]_vars, \A h \in Handlers : ~CreateHistory(h) /\ ~Transition(h),
           \A h \in Handlers, t \in Tokens, l \in Leads : ~CreateLead(h, t, l)
    PROVE  UNCHANGED <<status, history>>
  BY RejectFails DEF Next, vars, StartUpload, SaveFile, InsertDoc, MarkKycUploaded,
     StartUpdateStatus, Fail, GetById, leadRow

\* Whatever requests overlap or fail, and however stale what they have read: until
\* its trail tells of two decisions taken in one status, a lead moves along the life
\* cycle only.  LeadService implements LeadWorkflow.
THEOREM WorkflowRefinement == Spec => ImplementsWorkflow
<1> DEFINE current == [l \in Leads |-> CurrentOf(l)]
<1>1. Init => Workflow!Init
  BY DEF Init, Workflow!Init, Split, Moves
<1>2. ASSUME IInv, StaleTraced, [Next]_vars
      PROVE  Workflow!Next \/ UNCHANGED current
  <2>1. ASSUME \A l \in Leads : CurrentOf(l)' = CurrentOf(l)
        PROVE  UNCHANGED current
    BY <2>1
  <2>2. ASSUME NEW h \in Handlers, NEW t \in Tokens, NEW l \in Leads, CreateLead(h, t, l)
        PROVE  Workflow!Next
    <3>1. /\ status[l] = "NONE" /\ history[l] = <<>> /\ history' = history
          /\ status' = [status EXCEPT ![l] = "CREATED"]
      BY <1>2, <2>2 DEF CreateLead, IInv, RowsOwned
    <3>2. ~Split(l) /\ \A m \in Leads : Split(m)' <=> Split(m)
      BY <3>1 DEF Split, Moves
    <3>3. /\ CurrentOf(l) = "NONE" /\ CurrentOf(l)' = "CREATED"
          /\ \A m \in Leads : m # l => CurrentOf(m)' = CurrentOf(m)
      BY <1>2, <3>1, <3>2 DEF CurrentOf, IInv, TypeOK
    <3>4. Workflow!Open(l)
      BY <3>3 DEF Workflow!Open, CurrentOf
    <3> QED
      BY <3>4 DEF Workflow!Next
  <2>3. ASSUME NEW h \in Handlers, CreateHistory(h)
        PROVE  UNCHANGED current
    BY <1>2, <2>1, <2>3, CreateHistoryStutters DEF CurrentOf
  <2>4. ASSUME NEW h \in Handlers, Transition(h)
        PROVE  Workflow!Next \/ UNCHANGED current
    BY <1>2, <2>4, MoveOnCourse
  <2>5. ASSUME UNCHANGED <<status, history>>
        PROVE  UNCHANGED current
    BY <2>1, <2>5 DEF CurrentOf, Split, Moves
  <2> QED
    BY <1>2, <2>2, <2>3, <2>4, <2>5, OtherSteps
<1>3. IInv /\ StaleTraced /\ [Next]_vars => StaleTraced' /\ [Workflow!Next]_current
  BY <1>2, StaleTracedStep
<1> QED
  BY <1>1, <1>3, StaleTracedInit, Invariance, PTL
     DEF Spec, ImplementsWorkflow, Workflow!Spec, CurrentOf

===============================================================================
