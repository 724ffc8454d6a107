------------------------------ MODULE LeadEvents ------------------------------
(***************************************************************************)
(* lead-service and the Kafka topic lead-status-events it publishes every  *)
(* status change on.  The events of a lead share a partition, so the topic *)
(* is one sequence per lead.  Its consumers are UserProjection             *)
(* (user-service) and BankingAdapter (banking-adapter-mock).               *)
(***************************************************************************)
EXTENDS LeadService, FiniteSets

CONSTANTS
    SERVICE_IDENTITY,  \* the sub claim of the tokens banking-adapter-mock mints
    MaxPending,        \* bound: no request starts while more sends are pending
    MaxFaults          \* bound on lost and repeated sends, failed calls and crashes

\* ServiceTokenService.mint: a fresh token for every call.
BankToken == [userId |-> SERVICE_IDENTITY, role |-> "SYSTEM"]

ASSUME BankAssumption == BankToken \in Tokens
ASSUME BoundsAssumption == MaxFaults \in Nat /\ MaxPending \in Nat \ {0}

VARIABLES
    settled,  \* events whose send() has returned or thrown
    topic,    \* lead-status-events, per lead
    faults    \* faults so far

eventVars == <<vars, settled, topic, faults>>

EventsInit ==
    /\ Init
    /\ settled = {}
    /\ topic = [l \in Leads |-> <<>>]
    /\ faults = 0

Fault == faults < MaxFaults /\ faults' = faults + 1

-----------------------------------------------------------------------------
(* lead-service *)

\* A request of a person.  Bounds: an upload starts while a path is free, and
\* a request while fewer than MaxPending sends are pending.
ServiceRequest ==
    /\ Cardinality(outbox \ settled) < MaxPending
    /\ \/ \E h \in Handlers, t \in Tokens \ {BankToken}, l \in Leads :
            \/ CreateLead(h, t, l)
            \/ \E f \in Uploads : StartUpload(h, t, l, f)
                                  /\ \E p \in Paths : volume[p] = Null
            \/ \E to \in LeadStatus, sc \in Scores \cup {Null},
                  rs \in Reasons \cup {Null} : StartUpdateStatus(h, t, l, to, sc, rs)
       \/ \E t \in Tokens, l \in Leads : GetById(t, l)
    /\ UNCHANGED <<settled, topic, faults>>

\* A request in flight goes on, and ends.
ServiceStep(h) ==
    /\ \/ CreateHistory(h) \/ InsertDoc(h) \/ MarkKycUploaded(h)
       \/ Transition(h) \/ Reject(h)
       \/ \E p \in Paths : SaveFile(h, p)
    /\ UNCHANGED <<settled, topic, faults>>

ServiceFails(h) == Fail(h) /\ Fault /\ UNCHANGED <<settled, topic>>

-----------------------------------------------------------------------------
(* publishLeadStatusEvent: sends are not ordered with respect to each other *)

\* Mutant: an event older than one already sent is dropped.
Publish_NewestOnly(e) ==
    /\ e \in outbox \ settled
    /\ topic' = IF \E i \in DOMAIN topic[e.leadId] : topic[e.leadId][i].row > e.row
                THEN topic
                ELSE [topic EXCEPT ![e.leadId] = Append(@, e)]
    /\ settled' = settled \cup {e}
    /\ UNCHANGED <<vars, faults>>

\* Mutant: of the events of a lead that are pending only the newest is sent.
Publish_Coalesced(e) ==
    LET pending == {x \in outbox \ settled : x.leadId = e.leadId} IN
    /\ e \in pending /\ \A x \in pending : x.row <= e.row
    /\ topic' = [topic EXCEPT ![e.leadId] = Append(@, e)]
    /\ settled' = settled \cup pending
    /\ UNCHANGED <<vars, faults>>

Publish(e) ==
    /\ e \in outbox \ settled
    /\ topic' = [topic EXCEPT ![e.leadId] = Append(@, e)]
    /\ settled' = settled \cup {e}
    /\ UNCHANGED <<vars, faults>>

\* The acknowledgement is lost, and kafkajs sends again.
PublishUnacked(e) ==
    /\ e \in outbox \ settled
    /\ topic' = [topic EXCEPT ![e.leadId] = Append(@, e)]
    /\ Fault
    /\ UNCHANGED <<vars, settled>>

\* The retries run out, or the replica dies: the failure is logged.
PublishFails(e) ==
    /\ e \in outbox \ settled
    /\ settled' = settled \cup {e}
    /\ Fault
    /\ UNCHANGED <<vars, topic>>

EventsNext ==
    \/ ServiceRequest
    \/ \E h \in Handlers : ServiceStep(h) \/ ServiceFails(h)
    \/ \E e \in outbox : Publish(e) \/ PublishUnacked(e) \/ PublishFails(e)

EventsSpec == EventsInit /\ [][EventsNext]_eventVars

-----------------------------------------------------------------------------
(* The position of a consumer group in a lead's events (kafkajs) *)

Unread(pos, l) == pos[l] < Len(topic[l])
NextEvent(pos, l) == topic[l][pos[l] + 1]
Advance(pos, l) == [pos EXCEPT ![l] = @ + 1]

\* A consumer that restarts reads from its committed offset, and from the end of
\* the topic where the group has committed none (fromBeginning: false).
Restart(committed) ==
    [l \in Leads |-> IF committed[l] = Null THEN Len(topic[l]) ELSE committed[l]]

\* The events such a restart passes over.
PassedOver(pos, committed) ==
    UNION {{topic[l][i] : i \in (pos[l] + 1)..Restart(committed)[l]} : l \in Leads}

-----------------------------------------------------------------------------
(* Properties *)

\* Every event on the topic tells what the audit trail tells: its status and
\* previous status are those of the history row it was published for, which is
\* committed (publishLeadStatusEventAsync after create() and transition()).
EventsMatchHistory ==
    \A l \in Leads : \A i \in DOMAIN topic[l] :
        LET e == topic[l][i] IN
        /\ e.leadId = l /\ e.userId = owner[l]
        /\ e.row \in DOMAIN history[l]
        /\ history[l][e.row].to = e.status
        /\ history[l][e.row].from = e.previousStatus

OnTopic(l) == {topic[l][i].row : i \in DOMAIN topic[l]}
Pending(l) == {e.row : e \in {x \in outbox \ settled : x.leadId = l}}

\* Unless something fails, each row of the audit trail has exactly one event: its
\* send is pending, or it is on the topic, once (the fire-and-forget
\* publishLeadStatusEventAsync).
RowsAccounted ==
    faults = 0 =>
        \A l \in Leads :
            /\ OnTopic(l) \cup Pending(l) = DOMAIN history[l]
            /\ OnTopic(l) \cap Pending(l) = {}
            /\ \A i, j \in DOMAIN topic[l] : topic[l][i].row = topic[l][j].row => i = j

\* While nothing fails, every row of the audit trail gets its event on the topic,
\* although nobody waits for the send.
RowsPublished ==
    \A l \in Leads : <>[](faults = 0 => DOMAIN history[l] \subseteq OnTopic(l))

===============================================================================
