----------------------------- MODULE LeadService -----------------------------
(***************************************************************************)
(* lead-service: the leads and kyc modules over one Postgres database and  *)
(* one document volume, shared by every replica of the service.            *)
(*                                                                         *)
(* A handler is one HTTP request in flight on some replica.  It runs from  *)
(* one await to the next, so each access to the database or to the volume  *)
(* is one action, and what a handler has read stays in its record, however *)
(* stale, until it is used.  The replicas share nothing but the database   *)
(* and the volume, so which replica runs a handler makes no difference.    *)
(*                                                                         *)
(* Left out: the loan amount, purpose and note (no control depends on      *)
(* them), and the read-only list endpoints.  A request that a guard or     *)
(* check rejects changes nothing, and is a stuttering step.                *)
(***************************************************************************)
EXTENDS LeadStatusStateMachine, Naturals, Sequences

CONSTANTS
    Leads,             \* lead ids the database may hand out
    Users,             \* the sub claims of access tokens
    Uuids,             \* those a UUID column takes; a service's is no UUID
    Tokens,            \* claims of the verified access tokens
    Handlers,          \* requests that can be in flight at the same time
    Uploads,           \* files a client may post
    AllowedMimeTypes,  \* ALLOWED_MIME_TYPES
    MaxFileSizeBytes,  \* kyc.maxFileSizeBytes
    Paths,             \* storage paths (randomUUID) the volume may use
    Scores,            \* credit scores the mock bureau may return
    Reasons,           \* decline reasons
    Null,              \* SQL NULL, and an unset field
    MaxHistory         \* bound: no manual transition starts on a longer history

ASSUME TokensAssumption == Tokens \subseteq [userId : Users, role : Role]
ASSUME UuidsAssumption == Uuids \subseteq Users
ASSUME UploadsAssumption == Uploads \subseteq [size : Nat, mimetype : STRING]
ASSUME SizeAssumption == MaxFileSizeBytes \in Nat /\ MaxHistory \in Nat
ASSUME NullAssumption ==
    /\ Null \notin Leads /\ Null \notin Users /\ Null \notin Tokens
    /\ Null \notin Uploads /\ Null \notin Paths /\ Null \notin Scores
    /\ Null \notin Reasons /\ Null \notin LeadStatus

VARIABLES
    status,    \* leads.status, "NONE" while the row does not exist
    owner,     \* leads.user_id
    score,     \* leads.credit_score_snapshot
    reason,    \* leads.decline_reason
    history,   \* lead_status_history, per lead, in commit order
    volume,    \* the document volume: path -> content
    docs,      \* kyc_documents: the storage paths recorded for a lead
    req,       \* the requests in flight
    outbox     \* events handed to the Kafka producer (never removed here)

leadRow == <<status, owner, score, reason>>
vars == <<status, owner, score, reason, history, volume, docs, req, outbox>>

STAFF_ROLES == {"LOAN_OFFICER", "UNDERWRITER", "ADMIN", "SYSTEM"}

\* @Roles() of PATCH /leads/:id/status
UpdateStatusRoles == {"LOAN_OFFICER", "UNDERWRITER", "ADMIN", "SYSTEM"}

\* changed_by_user_id is by.userId; the role is kept for the properties.
HistoryRow == [from : LeadStatus \cup {Null}, to : LeadStatus, by : Tokens]

\* row (the row's place in the history) stands for occurredAt.
Event == [leadId : Leads, userId : Users, status : LeadStatus,
          previousStatus : LeadStatus \cup {Null}, row : Nat]

\* Where a handler waits: the name of the access it is about to make.
Pc == {"idle", "insertHistory", "saveFile", "insertDoc", "markKyc", "commit"}

Request ==
    [pc : Pc, lead : Leads \cup {Null}, by : Tokens \cup {Null},
     file : Uploads \cup {Null}, path : Paths \cup {Null},
     seen : LeadStatus \cup {Null}, to : LeadStatus \cup {Null},
     score : Scores \cup {Null}, reason : Reasons \cup {Null}]

NoRequest ==
    [pc |-> "idle", lead |-> Null, by |-> Null, file |-> Null, path |-> Null,
     seen |-> Null, to |-> Null, score |-> Null, reason |-> Null]

Creating(l, t) ==
    [pc |-> "insertHistory", lead |-> l, by |-> t, file |-> Null, path |-> Null,
     seen |-> Null, to |-> Null, score |-> Null, reason |-> Null]

Uploading(pc, l, t, f, p) ==
    [pc |-> pc, lead |-> l, by |-> t, file |-> f, path |-> p,
     seen |-> Null, to |-> Null, score |-> Null, reason |-> Null]

Moving(l, t, seen, to, sc, rs) ==
    [pc |-> "commit", lead |-> l, by |-> t, file |-> Null, path |-> Null,
     seen |-> seen, to |-> to, score |-> sc, reason |-> rs]

TypeOK ==
    /\ status \in [Leads -> LeadStatus \cup {"NONE"}]
    /\ owner \in [Leads -> Users \cup {Null}]
    /\ score \in [Leads -> Scores \cup {Null}]
    /\ reason \in [Leads -> Reasons \cup {Null}]
    /\ history \in [Leads -> Seq(HistoryRow)]
    /\ volume \in [Paths -> Uploads \cup {Null}]
    /\ docs \in [Leads -> SUBSET Paths]
    /\ req \in [Handlers -> Request]
    /\ outbox \subseteq Event

Init ==
    /\ status = [l \in Leads |-> "NONE"]
    /\ owner = [l \in Leads |-> Null]
    /\ score = [l \in Leads |-> Null]
    /\ reason = [l \in Leads |-> Null]
    /\ history = [l \in Leads |-> <<>>]
    /\ volume = [p \in Paths |-> Null]
    /\ docs = [l \in Leads |-> {}]
    /\ req = [h \in Handlers |-> NoRequest]
    /\ outbox = {}

-----------------------------------------------------------------------------
(* Checks *)

isStaff(role) == role \in STAFF_ROLES

findByIdOrThrow(l) == status[l] # "NONE"

findAccessibleOrThrow(l, requester) ==
    /\ findByIdOrThrow(l)
    /\ owner[l] = requester.userId \/ isStaff(requester.role)

assertValidFile(file) ==
    /\ file.size # 0
    /\ file.mimetype \in AllowedMimeTypes
    /\ file.size <= MaxFileSizeBytes

requiresReason(to) == to \in {"DECLINED", "FUNDING_REJECTED"}

-----------------------------------------------------------------------------
(* Writes shared by several handlers *)

\* Appends a history row and hands the matching event to the producer: the
\* fire-and-forget publish runs in the same turn as the write's completion.
\* That the event may never reach Kafka is the business of LeadEvents.
RecordTransition(l, from, to, by) ==
    /\ history' = [history EXCEPT
                     ![l] = Append(@, [from |-> from, to |-> to, by |-> by])]
    /\ outbox' = outbox \cup
         {[leadId |-> l, userId |-> owner[l], status |-> to,
           previousStatus |-> from, row |-> Len(history[l]) + 1]}

Finish(h) == req' = [req EXCEPT ![h] = NoRequest]

-----------------------------------------------------------------------------
(* POST /leads *)

\* LeadsService.create up to its first await: the leads row.  user_id is a
\* UUID column, as are uploaded_by_user_id and changed_by_user_id below.
CreateLead(h, t, l) ==
    /\ req[h].pc = "idle"
    /\ status[l] = "NONE"
    /\ t.userId \in Uuids
    /\ status' = [status EXCEPT ![l] = "CREATED"]
    /\ owner' = [owner EXCEPT ![l] = t.userId]
    /\ req' = [req EXCEPT ![h] = Creating(l, t)]
    /\ UNCHANGED <<score, reason, history, volume, docs, outbox>>

\* The rest of create: its history row, outside any transaction with the
\* leads row, and the CREATED event.
CreateHistory(h) ==
    /\ req[h].pc = "insertHistory"
    /\ RecordTransition(req[h].lead, Null, "CREATED", req[h].by)
    /\ Finish(h)
    /\ UNCHANGED <<leadRow, volume, docs>>

-----------------------------------------------------------------------------
(* POST /leads/:leadId/kyc *)

StartUpload(h, t, l, file) ==
    /\ req[h].pc = "idle"
    /\ findAccessibleOrThrow(l, t)
    /\ assertValidFile(file)
    /\ req' = [req EXCEPT ![h] = Uploading("saveFile", l, t, file, Null)]
    /\ UNCHANGED <<leadRow, history, volume, docs, outbox>>

\* Mutant: the lead is marked before the document row is written.
SaveFile_MarkFirst(h, p) ==
    /\ req[h].pc = "saveFile"
    /\ volume[p] = Null
    /\ volume' = [volume EXCEPT ![p] = req[h].file]
    /\ req' = [req EXCEPT ![h] = Uploading("markKyc", @.lead, @.by, @.file, p)]
    /\ UNCHANGED <<leadRow, history, docs, outbox>>

\* DocumentStorageService.save: a fresh path on the volume.
SaveFile(h, p) ==
    /\ req[h].pc = "saveFile"
    /\ volume[p] = Null
    /\ volume' = [volume EXCEPT ![p] = req[h].file]
    /\ req' = [req EXCEPT ![h] = Uploading("insertDoc", @.lead, @.by, @.file, p)]
    /\ UNCHANGED <<leadRow, history, docs, outbox>>

InsertDoc(h) ==
    /\ req[h].pc = "insertDoc"
    /\ req[h].by.userId \in Uuids
    /\ docs' = [docs EXCEPT ![req[h].lead] = @ \cup {req[h].path}]
    /\ req' = [req EXCEPT ![h] = Uploading("markKyc", @.lead, @.by, @.file, @.path)]
    /\ UNCHANGED <<leadRow, history, volume, outbox>>

\* markKycUploaded up to its write: the lead is read again.
MarkKycUploaded(h) ==
    /\ req[h].pc = "markKyc"
    /\ IF status[req[h].lead] # "CREATED"
       THEN Finish(h)
       ELSE req' = [req EXCEPT ![h] = Moving(@.lead, @.by, status[@.lead],
                                             "KYC_UPLOADED", Null, Null)]
    /\ UNCHANGED <<leadRow, history, volume, docs, outbox>>

-----------------------------------------------------------------------------
(* PATCH /leads/:id/status *)

\* Mutant: the event is handed to the producer before the transaction.
StartUpdateStatus_Publishes(h, t, l, to, sc, rs) ==
    /\ req[h].pc = "idle"
    /\ Len(history[l]) < MaxHistory
    /\ t.role \in UpdateStatusRoles
    /\ findByIdOrThrow(l)
    /\ assertManualTransitionAllowed(status[l], to, t.role)
    /\ (rs # Null) <=> requiresReason(to)
    /\ (sc # Null) <=> (to = "CREDIT_CHECKED")
    /\ req' = [req EXCEPT ![h] = Moving(l, t, status[l], to, sc, rs)]
    /\ outbox' = outbox \cup
         {[leadId |-> l, userId |-> owner[l], status |-> to,
           previousStatus |-> status[l], row |-> Len(history[l]) + 1]}
    /\ UNCHANGED <<leadRow, history, volume, docs>>

\* updateStatus up to its write: the roles guard, the read, the checks.
StartUpdateStatus(h, t, l, to, sc, rs) ==
    /\ req[h].pc = "idle"
    /\ Len(history[l]) < MaxHistory
    /\ t.role \in UpdateStatusRoles
    /\ findByIdOrThrow(l)
    /\ assertManualTransitionAllowed(status[l], to, t.role)
    /\ (rs # Null) <=> requiresReason(to)
    /\ (sc # Null) <=> (to = "CREDIT_CHECKED")
    /\ req' = [req EXCEPT ![h] = Moving(l, t, status[l], to, sc, rs)]
    /\ UNCHANGED <<leadRow, history, volume, docs, outbox>>

\* Mutant: the update is made conditional on the status read, the history row
\* in the same transaction is not.
Transition_UpdateMany(h) ==
    LET l == req[h].lead IN
    /\ req[h].pc = "commit"
    /\ req[h].by.userId \in Uuids
    /\ status' = [status EXCEPT ![l] = IF @ = req[h].seen THEN req[h].to ELSE @]
    /\ RecordTransition(l, req[h].seen, req[h].to, req[h].by)
    /\ Finish(h)
    /\ UNCHANGED <<owner, score, reason, volume, docs>>

\* Mutant: fromStatus is taken from the row as it is now.
Transition_FromCurrent(h) ==
    LET l == req[h].lead IN
    /\ req[h].pc = "commit"
    /\ req[h].by.userId \in Uuids
    /\ status' = [status EXCEPT ![l] = req[h].to]
    /\ RecordTransition(l, status[l], req[h].to, req[h].by)
    /\ Finish(h)
    /\ UNCHANGED <<owner, score, reason, volume, docs>>

\* Mutant: the extra fields are written when they are not set, too.
Transition_ClearsExtra(h) ==
    LET l == req[h].lead IN
    /\ req[h].pc = "commit"
    /\ req[h].by.userId \in Uuids
    /\ status' = [status EXCEPT ![l] = req[h].to]
    /\ score' = [score EXCEPT ![l] = req[h].score]
    /\ reason' = [reason EXCEPT ![l] = req[h].reason]
    /\ RecordTransition(l, req[h].seen, req[h].to, req[h].by)
    /\ Finish(h)
    /\ UNCHANGED <<owner, volume, docs>>

\* The transaction of LeadsService.transition.  The update names the lead by
\* its id only, so it does not look at the status the row has by now.
Transition(h) ==
    LET l == req[h].lead IN
    /\ req[h].pc = "commit"
    /\ req[h].by.userId \in Uuids
    /\ assertValidTransition(req[h].seen, req[h].to)
    /\ status' = [status EXCEPT ![l] = req[h].to]
    /\ score' = [score EXCEPT ![l] = IF req[h].score # Null THEN req[h].score ELSE @]
    /\ reason' = [reason EXCEPT ![l] = IF req[h].reason # Null THEN req[h].reason ELSE @]
    /\ RecordTransition(l, req[h].seen, req[h].to, req[h].by)
    /\ Finish(h)
    /\ UNCHANGED <<owner, volume, docs>>

-----------------------------------------------------------------------------

\* GET /leads/:id and GET /leads/:leadId/kyc change nothing.
GetById(t, l) == findAccessibleOrThrow(l, t) /\ UNCHANGED vars

\* The database refuses a row whose user id is no UUID: the insert throws, the
\* transaction of transition() is rolled back, the request answers 500.
Reject(h) ==
    /\ req[h].pc \in {"insertDoc", "commit"}
    /\ req[h].by.userId \notin Uuids
    /\ Finish(h)
    /\ UNCHANGED <<leadRow, history, volume, docs, outbox>>

\* Mutant: a failed handler puts the status it read back.
Fail_Restores(h) ==
    /\ req[h].pc = "commit"
    /\ status' = [status EXCEPT ![req[h].lead] = req[h].seen]
    /\ Finish(h)
    /\ UNCHANGED <<owner, score, reason, history, volume, docs, outbox>>

\* A replica dies, or an access throws: the handler ends where it stands.  What
\* a torn writeFile() leaves on the volume has no row and is never read.
Fail(h) ==
    /\ req[h].pc # "idle"
    /\ Finish(h)
    /\ UNCHANGED <<leadRow, history, volume, docs, outbox>>

Next ==
    \/ \E h \in Handlers, t \in Tokens, l \in Leads : CreateLead(h, t, l)
    \/ \E h \in Handlers : CreateHistory(h)
    \/ \E h \in Handlers, t \in Tokens, l \in Leads, f \in Uploads :
          StartUpload(h, t, l, f)
    \/ \E h \in Handlers, p \in Paths : SaveFile(h, p)
    \/ \E h \in Handlers : InsertDoc(h)
    \/ \E h \in Handlers : MarkKycUploaded(h)
    \/ \E h \in Handlers, t \in Tokens, l \in Leads, to \in LeadStatus,
          sc \in Scores \cup {Null}, rs \in Reasons \cup {Null} :
          StartUpdateStatus(h, t, l, to, sc, rs)
    \/ \E h \in Handlers : Transition(h)
    \/ \E h \in Handlers : Reject(h)
    \/ \E h \in Handlers : Fail(h)
    \/ \E t \in Tokens, l \in Leads : GetById(t, l)

Spec == Init /\ [][Next]_vars

-----------------------------------------------------------------------------
(* Properties *)

\* The statuses a lead has had: those its history records, and CREATED.
Reached(l) ==
    {history[l][i].to : i \in DOMAIN history[l]}
      \cup {s \in {"CREATED"} : status[l] # "NONE"}

\* Rows of transition(), as opposed to the row of create().
Moves(l) == {i \in DOMAIN history[l] : history[l][i].from # Null}

\* Two decisions about the lead were taken in the same status, as the trail has it
\* in whatever order its rows are read.
Split(l) == \E i, j \in Moves(l) : i # j /\ history[l][i].from = history[l][j].from

\* The lead row and the audit trail agree: the status of a lead is the
\* toStatus of the last transition recorded for it, and CREATED if there is
\* none, whatever handlers overlapped or died on the way (the transaction of
\* transition(), and the row create() writes outside one).
AuditMatchesStatus ==
    \A l \in Leads : findByIdOrThrow(l) =>
        \/ Moves(l) = {} /\ status[l] = "CREATED"
        \/ \E i \in Moves(l) : /\ \A j \in Moves(l) : j <= i
                               /\ status[l] = history[l][i].to

RowJustified(l, i) ==
    LET row == history[l][i] IN
    \/ row.from = Null /\ row.to = "CREATED"
    \/ /\ assertValidTransition(row.from, row.to)
       /\ \/ row.from = "CREATED"
          \/ \E j \in 1..(i - 1) : history[l][j].to = row.from
       /\ \/ row.to = "KYC_UPLOADED"
          \/ row.by.role \in MANUAL_TRANSITION_ROLES(row.from, row.to)

\* Every row of the audit trail is an edge of the transition table, taken by
\* a role the table lets take it, out of a status the lead really had before
\* that row, although updateStatus() decides on a status that may be stale
\* when transition() writes.
AuditRowsJustified ==
    \A l \in Leads : \A i \in DOMAIN history[l] : RowJustified(l, i)

\* No lead gets to the bank without an underwriter's (or an admin's) approval
\* and a credit score on record, in whatever order the handlers that moved it
\* ran: MANUAL_TRANSITION_ROLES over several requests.
ApprovalOnRecord ==
    \A l \in Leads : status[l] \in {"BANK_HANDOFF", "FUNDED", "FUNDING_REJECTED"} =>
        /\ score[l] # Null
        /\ \E i \in DOMAIN history[l] :
              /\ history[l][i].to = "APPROVED"
              /\ history[l][i].by.role \in {"UNDERWRITER", "ADMIN"}

\* A lead that was ever credit-checked keeps a score, and one that was ever
\* declined or rejected keeps a reason: no overlapping update clears them
\* (the extra fields of updateStatus()).
SnapshotsKept ==
    \A l \in Leads :
        /\ "CREDIT_CHECKED" \in Reached(l) => score[l] # Null
        /\ Reached(l) \cap {"DECLINED", "FUNDING_REJECTED"} # {} => reason[l] # Null

\* Every recorded document is on the volume with a content that passed
\* assertValidFile, and a lead that left CREATED has such a document, also
\* when uploads overlap or die half way (KycService.upload).
KycBacked ==
    \A l \in Leads :
        /\ \A p \in docs[l] : volume[p] # Null /\ assertValidFile(volume[p])
        /\ status[l] \notin {"NONE", "CREATED"} => docs[l] # {}

\* What a handler relies on when it resumes: the lead is there, and what was
\* checked before the await still justifies the write after it, although the
\* lead may have moved on (upload(), markKycUploaded() and updateStatus(), which
\* check nothing again in transition()).
HandlerJustified(h) ==
    LET q == req[h] IN
    /\ q.pc # "idle" => /\ q.lead \in Leads /\ status[q.lead] # "NONE"
                        /\ q.by \in Tokens
    /\ q.pc = "saveFile" => q.file \in Uploads /\ assertValidFile(q.file)
    /\ q.pc = "insertDoc" => /\ q.path \in Paths /\ volume[q.path] # Null
                             /\ assertValidFile(volume[q.path])
    /\ q.pc \in {"markKyc", "commit"} => docs[q.lead] # {}
    /\ q.pc = "commit" =>
         /\ assertValidTransition(q.seen, q.to) /\ q.seen \in Reached(q.lead)
         /\ \/ q.to = "KYC_UPLOADED"
            \/ q.by.role \in MANUAL_TRANSITION_ROLES(q.seen, q.to)
         /\ q.to = "CREDIT_CHECKED" => q.score \in Scores
         /\ requiresReason(q.to) => q.reason \in Reasons
HandlersJustified == \A h \in Handlers : HandlerJustified(h)

\* A lead row comes with its owner, and no history precedes it.
RowsOwned ==
    \A l \in Leads : IF status[l] = "NONE" THEN history[l] = <<>>
                                           ELSE owner[l] \in Users

\* The inductive invariant of the proofs.
IInv == /\ TypeOK /\ RowsOwned /\ HandlersJustified /\ AuditMatchesStatus
        /\ AuditRowsJustified /\ SnapshotsKept /\ KycBacked

\* Whatever overlaps or fails, a lead enters a status only after it has been in
\* the status before it: lead-service implements LeadLedger.
Ledger == INSTANCE LeadLedger WITH
              current <- status, reached <- [l \in Leads |-> Reached(l)]
ImplementsLedger == Ledger!Spec

\* Whatever overlaps or fails, requests drive a lead through the life cycle, never
\* back and never out of a terminal status, until its audit trail tells that two
\* decisions were taken in one status: lead-service implements LeadWorkflow.  A
\* stale write that goes wrong is never without that trace (transition() writes
\* the status it was decided on into the history row, not the one it finds).
Workflow == INSTANCE LeadWorkflow WITH
                current <- [l \in Leads |-> IF Split(l) THEN "SPLIT" ELSE status[l]]
ImplementsWorkflow == Workflow!Spec

-----------------------------------------------------------------------------
(* What the repository says of lead-service, and overlapping requests do not *)
(* keep (see the README's findings)                                          *)

\* "rejects moving out of a terminal state"
\* (state-machine/lead-status.state-machine.spec.ts).
TerminalIsFinal ==
    [][\A l \in Leads :
         status[l] # "NONE" /\ isTerminal(status[l]) => status'[l] = status[l]]_vars

===============================================================================
