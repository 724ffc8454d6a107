---------------------------- MODULE UserProjection ----------------------------
(***************************************************************************)
(* user-service as a consumer of lead-status-events: the applicant's last  *)
(* lead status, a read model kept on the users row.                        *)
(***************************************************************************)
EXTENDS LeadEvents

VARIABLES
    userPos,         \* events read, per lead
    userCommitted,   \* committed offsets
    lastLeadStatus,  \* users.last_lead_status
    userDlq          \* events sent to lead-status-events.dlq

userVars == <<userPos, userCommitted, lastLeadStatus, userDlq>>
projectionVars == <<eventVars, userVars>>

UserInit ==
    /\ EventsInit
    /\ userPos = [l \in Leads |-> 0] /\ userCommitted = [l \in Leads |-> Null]
    /\ lastLeadStatus = [u \in Users |-> Null]
    /\ userDlq = {}

\* The row of a user that exists.  (The update of one that does not matches no row.)
recordLeadStatus(u, s) == lastLeadStatus' = [lastLeadStatus EXCEPT ![u] = s]

publishToUserDlq(e) == userDlq' = userDlq \cup {e}

\* Mutant: the projection is only ever filled, never overwritten.
RecordLeadStatus_Once(l) ==
    LET e == NextEvent(userPos, l) IN
    /\ Unread(userPos, l)
    /\ lastLeadStatus' = [lastLeadStatus EXCEPT ![e.userId] =
                            IF @ = Null THEN e.status ELSE @]
    /\ userPos' = Advance(userPos, l)
    /\ UNCHANGED <<eventVars, userCommitted, userDlq>>

\* eachMessage: the last event read wins.
RecordLeadStatus(l) ==
    LET e == NextEvent(userPos, l) IN
    /\ Unread(userPos, l)
    /\ recordLeadStatus(e.userId, e.status)
    /\ userPos' = Advance(userPos, l)
    /\ UNCHANGED <<eventVars, userCommitted, userDlq>>

\* The update throws: the message goes to the dead-letter topic.  (If that send
\* throws too, kafkajs runs the message again and nothing has changed.)
RecordFails(l) ==
    /\ Unread(userPos, l)
    /\ publishToUserDlq(NextEvent(userPos, l))
    /\ userPos' = Advance(userPos, l)
    /\ Fault
    /\ UNCHANGED <<vars, settled, topic, userCommitted, lastLeadStatus>>

UserCommit ==
    /\ userCommitted' = userPos
    /\ UNCHANGED <<eventVars, userPos, lastLeadStatus, userDlq>>

UserCrash ==
    /\ userPos' = Restart(userCommitted)
    /\ Fault
    /\ UNCHANGED <<vars, settled, topic, userCommitted, lastLeadStatus, userDlq>>

UserNext ==
    \/ EventsNext /\ UNCHANGED userVars
    \/ \E l \in Leads : RecordLeadStatus(l) \/ RecordFails(l)
    \/ UserCommit \/ UserCrash

UserSpec == UserInit /\ [][UserNext]_projectionVars

\* A request in flight goes on as long as its replica runs, kafkajs sends what it
\* was given, and the consumer's loop runs; people need not act, and no fault has
\* to happen.
FairUserSpec ==
    /\ UserSpec
    /\ \A h \in Handlers : WF_projectionVars(ServiceStep(h) /\ UNCHANGED userVars)
    /\ WF_projectionVars((\E e \in outbox : Publish(e)) /\ UNCHANGED userVars)
    /\ \A l \in Leads : WF_projectionVars(RecordLeadStatus(l))

-----------------------------------------------------------------------------
(* Properties *)

\* The applicant's projection shows a status that one of their own leads has
\* been in, whatever the topic loses, repeats or reorders (recordLeadStatus).
ProjectionTrue ==
    \A u \in Users : lastLeadStatus[u] # Null =>
        \E l \in Leads : owner[l] = u /\ lastLeadStatus[u] \in Reached(l)

\* Unless something fails, the projection shows the last event read of one of the
\* applicant's leads, and nothing before the first is read: of an only lead, it is
\* as late as the consumer (what is safety in ProjectionSettles).
ProjectionIsLastRead ==
    faults = 0 =>
        \A u \in Users :
            LET read == {l \in Leads : userPos[l] > 0 /\ owner[l] = u} IN
            IF read = {} THEN lastLeadStatus[u] = Null
            ELSE \E l \in read : lastLeadStatus[u] = topic[l][userPos[l]].status

LastOnTopic(l) == topic[l][Len(topic[l])].status

\* While nothing fails, the projection of an applicant's only lead ends up at the
\* last event on the topic.
ProjectionSettles ==
    \A l \in Leads :
        <>[](faults = 0 /\ Len(topic[l]) > 0
                => lastLeadStatus[owner[l]] = LastOnTopic(l))

\* recordLeadStatus is there "to keep the read-model projection fresh"
\* (users.service.ts); an event that overtakes the next one leaves it stale for
\* good.
ProjectionFresh ==
    \A l \in Leads : <>[](faults = 0 /\ Len(topic[l]) > 0
                            => lastLeadStatus[owner[l]] = status[l])

===============================================================================
