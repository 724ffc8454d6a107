---------------------------- MODULE BankingAdapter ----------------------------
(***************************************************************************)
(* banking-adapter-mock: consumes lead-status-events, mails the applicant, *)
(* and for BANK_HANDOFF asks lead-service to record the bank's decision.   *)
(*                                                                         *)
(* The consumer's position runs ahead of its committed offset, if any, and *)
(* a consumer that restarts reads again from there.                        *)
(***************************************************************************)
EXTENDS LeadEvents

CONSTANT Jobs  \* bound: handoffs in progress at the same time

VARIABLES
    bankPos,        \* events read, per lead
    bankCommitted,  \* committed offsets
    note,           \* the mail the consumer is waiting to send
    jobs,           \* processHandoff calls in progress, in memory
    mails,          \* mails sent
    bankDlq,        \* events sent to lead-status-events.dlq
    missed          \* history: events a restart passed over

bankVars == <<bankPos, bankCommitted, note, jobs, mails, bankDlq, missed>>
adapterVars == <<eventVars, bankVars>>

NOTIFIABLE_STATUSES == {"APPROVED", "DECLINED", "FUNDED", "FUNDING_REJECTED"}

NoJob == [pc |-> "none", lead |-> Null, score |-> Null]

BankInit ==
    /\ EventsInit
    /\ bankPos = [l \in Leads |-> 0] /\ bankCommitted = [l \in Leads |-> Null]
    /\ note = Null
    /\ jobs = [j \in Jobs |-> NoJob]
    /\ mails = {}
    /\ bankDlq = {} /\ missed = {}

-----------------------------------------------------------------------------
(* eachMessage *)

isNotifiable(s) == s \in NOTIFIABLE_STATUSES

\* lead-service lets the bank read any lead that exists.
getLead(l) == findAccessibleOrThrow(l, BankToken)

\* user-service looks the applicant up by a UUID.
getUser(u) == u \in Uuids

publishToBankDlq(e) == bankDlq' = bankDlq \cup {e}

\* Nothing to do for the event.
SkipEvent(l) ==
    /\ note = Null /\ Unread(bankPos, l)
    /\ NextEvent(bankPos, l).status # "BANK_HANDOFF"
    /\ ~isNotifiable(NextEvent(bankPos, l).status)
    /\ bankPos' = Advance(bankPos, l)
    /\ UNCHANGED <<eventVars, bankCommitted, note, jobs, mails, bankDlq, missed>>

\* Mutant: the handoff starts as soon as the lead is approved.
DispatchHandoff_OnApproval(l, j) ==
    /\ note = Null /\ Unread(bankPos, l)
    /\ NextEvent(bankPos, l).status = "APPROVED"
    /\ jobs[j] = NoJob
    /\ jobs' = [jobs EXCEPT ![j] = [pc |-> "getLead", lead |-> l, score |-> Null]]
    /\ bankPos' = Advance(bankPos, l)
    /\ UNCHANGED <<eventVars, bankCommitted, note, mails, bankDlq, missed>>

\* processHandoff is called and not awaited.
DispatchHandoff(l, j) ==
    /\ note = Null /\ Unread(bankPos, l)
    /\ NextEvent(bankPos, l).status = "BANK_HANDOFF"
    /\ jobs[j] = NoJob
    /\ jobs' = [jobs EXCEPT ![j] = [pc |-> "getLead", lead |-> l, score |-> Null]]
    /\ bankPos' = Advance(bankPos, l)
    /\ UNCHANGED <<eventVars, bankCommitted, note, mails, bankDlq, missed>>

\* notify up to sendMail: a rejection mail gives the reason the lead has now.
BuildContent(l) ==
    LET e == NextEvent(bankPos, l) IN
    /\ note = Null /\ Unread(bankPos, l)
    /\ isNotifiable(e.status)
    /\ getUser(e.userId)
    /\ requiresReason(e.status) => getLead(l)
    /\ note' = [event |-> e,
                reason |-> IF requiresReason(e.status) THEN reason[l] ELSE Null]
    /\ UNCHANGED <<eventVars, bankPos, bankCommitted, jobs, mails, bankDlq, missed>>

\* Mutant: the message is acknowledged before its mail is out.
SendMail_Late ==
    /\ note # Null
    /\ bankPos' = Advance(bankPos, note.event.leadId)
    /\ note' = Null
    /\ UNCHANGED <<eventVars, bankCommitted, jobs, mails, bankDlq, missed>>

SendMail ==
    /\ note # Null
    /\ mails' = mails \cup {[lead |-> note.event.leadId, status |-> note.event.status,
                             reason |-> note.reason]}
    /\ bankPos' = Advance(bankPos, note.event.leadId)
    /\ note' = Null
    /\ UNCHANGED <<eventVars, bankCommitted, jobs, bankDlq, missed>>

\* A lookup or sendMail throws: the message goes to the dead-letter topic.
NotifyFails ==
    /\ note # Null
    /\ publishToBankDlq(note.event)
    /\ bankPos' = Advance(bankPos, note.event.leadId)
    /\ note' = Null
    /\ Fault
    /\ UNCHANGED <<vars, settled, topic, bankCommitted, jobs, mails, missed>>

\* So does the dead-letter send: kafkajs runs the message again.
NotifyRetried ==
    /\ note # Null
    /\ note' = Null
    /\ Fault
    /\ UNCHANGED <<vars, settled, topic, bankPos, bankCommitted, jobs, mails, bankDlq, missed>>

\* kafkajs commits between batches.
BankCommit ==
    /\ bankCommitted' = bankPos
    /\ UNCHANGED <<eventVars, bankPos, note, jobs, mails, bankDlq, missed>>

\* The process restarts: what it had in memory, the handoffs too, is gone.
BankCrash ==
    /\ bankPos' = Restart(bankCommitted)
    /\ missed' = missed \cup PassedOver(bankPos, bankCommitted)
    /\ note' = Null
    /\ jobs' = [j \in Jobs |-> NoJob]
    /\ Fault
    /\ UNCHANGED <<vars, settled, topic, bankCommitted, mails, bankDlq>>

-----------------------------------------------------------------------------
(* processHandoff *)

\* The outcomes chance allows: both, unless there is no score.
decideFundingOutcome(creditScore) ==
    IF creditScore = Null THEN {"FUNDING_REJECTED"} ELSE {"FUNDED", "FUNDING_REJECTED"}

\* getLead, and then the simulated delay.
HandoffGetLead(j) ==
    /\ jobs[j].pc = "getLead"
    /\ getLead(jobs[j].lead)
    /\ jobs' = [jobs EXCEPT ![j] = [pc |-> "decide", lead |-> jobs[j].lead,
                                    score |-> score[jobs[j].lead]]]
    /\ UNCHANGED <<eventVars, bankPos, bankCommitted, note, mails, bankDlq, missed>>

\* Mutant: the bank mails its decision itself, before lead-service records it.
ResolveHandoff_Mails(j, h) ==
    /\ jobs[j].pc = "decide"
    /\ \E to \in decideFundingOutcome(jobs[j].score), rs \in Reasons \cup {Null} :
          /\ StartUpdateStatus(h, BankToken, jobs[j].lead, to, Null, rs)
          /\ mails' = mails \cup {[lead |-> jobs[j].lead, status |-> to, reason |-> rs]}
    /\ jobs' = [jobs EXCEPT ![j] = NoJob]
    /\ UNCHANGED <<settled, topic, faults, bankPos, bankCommitted, note, bankDlq, missed>>

\* resolveHandoff: PATCH /leads/:id/status with the bank's token.
ResolveHandoff(j, h) ==
    /\ jobs[j].pc = "decide"
    /\ \E to \in decideFundingOutcome(jobs[j].score), rs \in Reasons \cup {Null} :
          StartUpdateStatus(h, BankToken, jobs[j].lead, to, Null, rs)
    /\ jobs' = [jobs EXCEPT ![j] = NoJob]
    /\ UNCHANGED <<settled, topic, faults, bankPos, bankCommitted, note, mails, bankDlq, missed>>

\* lead-service refuses: the lead is not in BANK_HANDOFF any more.
ResolveRefused(j) ==
    /\ jobs[j].pc = "decide"
    /\ \A to \in decideFundingOutcome(jobs[j].score) :
          ~assertManualTransitionAllowed(status[jobs[j].lead], to, BankToken.role)
    /\ jobs' = [jobs EXCEPT ![j] = NoJob]
    /\ UNCHANGED <<eventVars, bankPos, bankCommitted, note, mails, bankDlq, missed>>

\* A call fails: the error is logged and nothing is tried again.
HandoffFails(j) ==
    /\ jobs[j].pc # "none"
    /\ jobs' = [jobs EXCEPT ![j] = NoJob]
    /\ Fault
    /\ UNCHANGED <<vars, settled, topic, bankPos, bankCommitted, note, mails, bankDlq, missed>>

-----------------------------------------------------------------------------

BankNext ==
    \/ EventsNext /\ UNCHANGED bankVars
    \/ \E l \in Leads : SkipEvent(l) \/ BuildContent(l)
    \/ \E l \in Leads, j \in Jobs : DispatchHandoff(l, j)
    \/ SendMail \/ NotifyFails \/ NotifyRetried \/ BankCommit \/ BankCrash
    \/ \E j \in Jobs : HandoffGetLead(j) \/ ResolveRefused(j) \/ HandoffFails(j)
    \/ \E j \in Jobs, h \in Handlers : ResolveHandoff(j, h)

BankSpec == BankInit /\ [][BankNext]_adapterVars

\* Requests in flight, kafkajs's sends, the consumer's loop and the handoffs' timers
\* go on; people need not act, and no fault has to happen.  A handoff's request gets
\* through to a replica in the end.
FairBankSpec ==
    /\ BankSpec
    /\ \A h \in Handlers : WF_adapterVars(ServiceStep(h) /\ UNCHANGED bankVars)
    /\ WF_adapterVars((\E e \in outbox : Publish(e)) /\ UNCHANGED bankVars)
    /\ \A l \in Leads :
         /\ WF_adapterVars(SkipEvent(l)) /\ WF_adapterVars(BuildContent(l))
         /\ WF_adapterVars(\E j \in Jobs : DispatchHandoff(l, j))
    /\ WF_adapterVars(SendMail)
    /\ \A j \in Jobs :
         /\ WF_adapterVars(HandoffGetLead(j)) /\ WF_adapterVars(ResolveRefused(j))
         /\ SF_adapterVars(\E h \in Handlers : ResolveHandoff(j, h))

-----------------------------------------------------------------------------
(* Properties *)

Mailed(l) == {m.status : m \in {x \in mails : x.lead = l}}

\* Every mail tells something that happened: the lead has been in the status,
\* and a rejection mail gives a reason although the lead is read again when the
\* mail is written (notify() and buildContent(), behind a topic that loses,
\* repeats and reorders events).
MailsTrue ==
    \A m \in mails : /\ m.status \in Reached(m.lead)
                     /\ requiresReason(m.status) => m.reason # Null

\* Nothing the bank's consumer has read is dropped: an event to be notified is
\* mailed or in the dead-letter topic by the time the consumer is past it, also
\* after a restart, unless a restart passed it over unread (notify() is awaited,
\* processHandoff() is not).
MailedOrDead ==
    \A l \in Leads : \A i \in 1..bankPos[l] :
        LET e == topic[l][i] IN
        isNotifiable(e.status) =>
            e.status \in Mailed(l) \/ e \in bankDlq \/ e \in missed

\* From end to end: unless something fails, the applicant has been mailed every
\* status to be notified that the lead has been in, or its event is on the way
\* (transition(), publishLeadStatusEventAsync, eachMessage, notify).
NotifiedOrOnItsWay ==
    faults = 0 =>
        \A l \in Leads : \A i \in DOMAIN history[l] :
            isNotifiable(history[l][i].to) =>
                \/ history[l][i].to \in Mailed(l)
                \/ i \in Pending(l)
                \/ \E k \in DOMAIN topic[l] : k > bankPos[l] /\ topic[l][k].row = i

\* A handoff runs only for a lead that was handed to the bank with a score, so
\* the bank never decides on "No credit score on file" (processHandoff).
HandoffsScored ==
    \A j \in Jobs :
        /\ jobs[j].pc # "none" => "BANK_HANDOFF" \in Reached(jobs[j].lead)
        /\ jobs[j].pc = "decide" => jobs[j].score # Null

\* No applicant is told both outcomes of a decision, whatever requests overlap and
\* whatever the topic repeats or reorders, unless the audit trail has two decisions
\* taken in one status (transition(), eachMessage).
NoContradiction ==
    \A l \in Leads : ~Split(l) =>
        /\ ~({"APPROVED", "DECLINED"} \subseteq Mailed(l))
        /\ ~({"FUNDED", "FUNDING_REJECTED"} \subseteq Mailed(l))

\* From end to end: a status to be notified that a lead has reached is mailed in
\* the end, however the sends are reordered and whatever the lead has moved on to,
\* unless something fails; nothing on the way waits for ever.
ApplicantsTold ==
    \A l \in Leads, s \in NOTIFIABLE_STATUSES :
        s \in Reached(l) ~> (s \in Mailed(l) \/ faults > 0)

\* "banking-adapter-mock calls back in with a SYSTEM token once its simulated
\* bank decision is in" (leads.e2e-spec.ts): a lead at the bank gets a decision.
HandoffResolved ==
    \A l \in Leads :
        status[l] = "BANK_HANDOFF" ~> status[l] \in {"FUNDED", "FUNDING_REJECTED"}

===============================================================================
