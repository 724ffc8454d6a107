---------------------------- MODULE ConsumersProofs ----------------------------
(***************************************************************************)
(* Proofs about LeadEvents and its two consumers, UserProjection and       *)
(* BankingAdapter, for any leads, requests, faults and restarts.           *)
(***************************************************************************)
EXTENDS UserProjection, BankingAdapter, LeadServiceProofs

-----------------------------------------------------------------------------
(* The topic *)

EvTypeOK ==
    /\ topic \in [Leads -> Seq(Event)]
    /\ settled \subseteq outbox
    /\ faults \in Nat

\* What was handed to the producer is true, and nothing else is on the topic.
EventsTrue ==
    /\ \A e \in outbox : EventTrue(e)
    /\ \A l \in Leads : \A i \in DOMAIN topic[l] : topic[l][i] \in outbox /\ topic[l][i].leadId = l

\* The inductive invariant of LeadEvents.
EvInv == IInv /\ EvTypeOK /\ EventsTrue

\* The topic only grows.
TopicGrows ==
    \A l \in Leads : /\ Len(topic[l]) <= Len(topic'[l])
                     /\ \A i \in DOMAIN topic[l] : i \in DOMAIN topic'[l] /\ topic'[l][i] = topic[l][i]

\* The invariant holds initially.
LEMMA EvInitInv == EventsInit => EvInv
<1> SUFFICES ASSUME EventsInit PROVE EvInv
  OBVIOUS
<1>1. IInv
  BY InitIInv DEF EventsInit
<1>2. <<>> \in Seq(Event)
  OBVIOUS
<1> QED
  BY <1>1, <1>2 DEF EventsInit, Init, EvInv, EvTypeOK, EventsTrue

\* lead-service moves, the topic stays.
LEMMA ServiceEvInv ==
    ASSUME EvInv, [Next]_vars, UNCHANGED <<settled, topic>>, faults' \in Nat
    PROVE  EvInv' /\ LeadsKept /\ TopicGrows
<1>1. IInv' /\ LeadsKept
  BY NextIInv, NextKept DEF EvInv
<1>2. EvTypeOK'
  BY <1>1 DEF EvInv, EvTypeOK, LeadsKept
<1>3. ASSUME NEW e \in outbox
      PROVE  EventTrue(e)'
  <2> PICK l \in Leads : l = e.leadId
    BY DEF EvInv, EventsTrue, EventTrue
  <2>1. /\ status[l] # "NONE" /\ e.userId = owner[l] /\ e.row \in DOMAIN history[l]
        /\ history[l][e.row].to = e.status /\ history[l][e.row].from = e.previousStatus
    BY DEF EvInv, EventsTrue, EventTrue
  <2>2. /\ status'[l] # "NONE" /\ owner'[l] = owner[l]
        /\ e.row \in DOMAIN history'[l] /\ history'[l][e.row] = history[l][e.row]
    BY <1>1, <2>1 DEF LeadsKept
  <2> QED
    BY <2>1, <2>2 DEF EventTrue
<1>4. EventsTrue'
  BY <1>1, <1>3 DEF EvInv, EventsTrue, LeadsKept
<1>5. TopicGrows
  <2>1. \A l \in Leads : Len(topic[l]) \in Nat
    BY DEF EvInv, EvTypeOK
  <2> QED
    BY <2>1 DEF TopicGrows
<1> QED
  BY <1>1, <1>2, <1>4, <1>5 DEF EvInv

\* A send puts an event of the outbox at the end of its lead's events.
LEMMA SendEvInv ==
    ASSUME EvInv, NEW e \in outbox, topic' = [topic EXCEPT ![e.leadId] = Append(@, e)],
           settled' \subseteq outbox, faults' \in Nat, UNCHANGED vars
    PROVE  EvInv' /\ LeadsKept /\ TopicGrows
<1> PICK l \in Leads : l = e.leadId
  BY DEF EvInv, EventsTrue, EventTrue
<1>1. e \in Event /\ topic[l] \in Seq(Event)
  BY DEF EvInv, EvTypeOK, IInv, TypeOK
<1> DEFINE n == Len(topic[l])
<1>2. /\ Append(topic[l], e) \in Seq(Event) /\ n \in Nat
      /\ DOMAIN topic[l] = 1..n /\ DOMAIN Append(topic[l], e) = 1..(n + 1)
      /\ Len(Append(topic[l], e)) = n + 1
      /\ \A i \in DOMAIN topic[l] : Append(topic[l], e)[i] = topic[l][i]
      /\ Append(topic[l], e)[n + 1] = e
  BY <1>1, AppendFacts
<1>3. /\ topic'[l] = Append(topic[l], e)
      /\ \A m \in Leads : m # l => topic'[m] = topic[m]
      /\ topic' \in [Leads -> Seq(Event)]
  BY <1>2 DEF EvInv, EvTypeOK
<1>4. EvTypeOK'
  BY <1>3 DEF EvTypeOK, vars
<1>5. IInv' /\ LeadsKept
  BY NextIInv, NextKept DEF EvInv
<1>6. \A f : EventTrue(f)' <=> EventTrue(f)
  BY DEF EventTrue, vars
<1>7. ASSUME NEW m \in Leads, NEW i \in DOMAIN topic'[m]
      PROVE  topic'[m][i] \in outbox /\ topic'[m][i].leadId = m
  <2>1. CASE m = l /\ i = n + 1
    BY <1>2, <1>3, <2>1
  <2>2. CASE i \in DOMAIN topic[m] /\ topic'[m][i] = topic[m][i]
    BY <2>2 DEF EvInv, EventsTrue
  <2> QED
    BY <1>2, <1>3, <2>1, <2>2
<1>8. EventsTrue'
  BY <1>6, <1>7 DEF EvInv, EventsTrue, vars
<1>9. TopicGrows
  <2>1. \A m \in Leads : Len(topic[m]) \in Nat
    BY DEF EvInv, EvTypeOK
  <2> HIDE DEF n
  <2> QED
    BY <1>2, <1>3, <2>1 DEF TopicGrows, n
<1> QED
  BY <1>4, <1>5, <1>8, <1>9 DEF EvInv

\* A step of LeadEvents is a step of lead-service, or a send.
LEMMA EventsProject ==
    ASSUME EvInv, [EventsNext]_eventVars
    PROVE  /\ faults' \in Nat
           /\ \/ [Next]_vars /\ UNCHANGED <<settled, topic>>
              \/ \E e \in outbox : /\ topic' \in {topic, [topic EXCEPT ![e.leadId] = Append(@, e)]}
                                   /\ settled' \subseteq outbox /\ UNCHANGED vars
<1>1. faults \in Nat /\ settled \subseteq outbox
  BY DEF EvInv, EvTypeOK
<1>2. ASSUME ServiceRequest
      PROVE  Next /\ UNCHANGED <<settled, topic, faults>>
  BY <1>2 DEF ServiceRequest, Next
<1>3. ASSUME NEW h \in Handlers, ServiceStep(h) \/ ServiceFails(h)
      PROVE  Next /\ UNCHANGED <<settled, topic>> /\ faults' \in Nat
  BY <1>1, <1>3 DEF ServiceStep, ServiceFails, Next, Fault
<1>4. ASSUME NEW e \in outbox, Publish(e) \/ PublishUnacked(e) \/ PublishFails(e)
      PROVE  /\ faults' \in Nat /\ settled' \subseteq outbox /\ UNCHANGED vars
             /\ topic' \in {topic, [topic EXCEPT ![e.leadId] = Append(@, e)]}
  BY <1>1, <1>4 DEF Publish, PublishUnacked, PublishFails, Fault
<1>5. ASSUME UNCHANGED eventVars
      PROVE  UNCHANGED <<vars, settled, topic, faults>>
  BY <1>5 DEF eventVars
<1> QED
  BY <1>1, <1>2, <1>3, <1>4, <1>5 DEF EventsNext

\* Every step of LeadEvents preserves the invariant.
LEMMA EvNextInv ==
    ASSUME EvInv, [EventsNext]_eventVars
    PROVE  EvInv' /\ LeadsKept /\ TopicGrows
<1>1. CASE [Next]_vars /\ UNCHANGED <<settled, topic>>
  BY <1>1, EventsProject, ServiceEvInv
<1>2. ASSUME NEW e \in outbox, UNCHANGED vars, settled' \subseteq outbox,
             topic' = [topic EXCEPT ![e.leadId] = Append(@, e)]
      PROVE  EvInv' /\ LeadsKept /\ TopicGrows
  BY <1>2, EventsProject, SendEvInv
<1>3. ASSUME UNCHANGED <<vars, topic>>, settled' \subseteq outbox
      PROVE  EvInv' /\ LeadsKept /\ TopicGrows
  <2>1. EvInv'
    <3>1. IInv' /\ LeadsKept
      BY <1>3, NextIInv, NextKept DEF EvInv
    <3>2. EvTypeOK' /\ EventsTrue'
      BY <1>3, EventsProject DEF EvInv, EvTypeOK, EventsTrue, EventTrue, vars
    <3> QED
      BY <3>1, <3>2 DEF EvInv
  <2>2. LeadsKept /\ TopicGrows
    <3>1. \A l \in Leads : Len(topic[l]) \in Nat
      BY DEF EvInv, EvTypeOK
    <3> QED
      BY <1>3, <3>1, NextKept DEF EvInv, TopicGrows
  <2> QED
    BY <2>1, <2>2
<1> QED
  BY <1>1, <1>2, <1>3, EventsProject

\* An event on the topic is true.
LEMMA EventOnTopic ==
    ASSUME EvInv, NEW l \in Leads, NEW i \in DOMAIN topic[l]
    PROVE  /\ topic[l][i] \in Event /\ topic[l][i].leadId = l
           /\ EventTrue(topic[l][i]) /\ topic[l][i].status \in Reached(l)
           /\ topic[l][i].status \in LeadStatus
           /\ i \in Nat \ {0} /\ i <= Len(topic[l])
<1>1. topic[l] \in Seq(Event) /\ topic[l][i] \in Event
  BY DEF EvInv, EvTypeOK
<1>2. EventTrue(topic[l][i]) /\ topic[l][i].leadId = l
  BY DEF EvInv, EventsTrue
<1>3. topic[l][i].status \in Reached(l)
  BY <1>2 DEF EventTrue, Reached
<1>4. topic[l][i].status \in LeadStatus
  BY <1>1 DEF Event
<1> QED
  BY <1>1, <1>2, <1>3, <1>4

\* The invariant says what the property asks.
LEMMA EvInvMatches == EvInv => EventsMatchHistory
<1> SUFFICES ASSUME EvInv, NEW l \in Leads, NEW i \in DOMAIN topic[l]
             PROVE  /\ topic[l][i].leadId = l /\ topic[l][i].userId = owner[l]
                    /\ topic[l][i].row \in DOMAIN history[l]
                    /\ history[l][topic[l][i].row].to = topic[l][i].status
                    /\ history[l][topic[l][i].row].from = topic[l][i].previousStatus
  BY DEF EventsMatchHistory
<1>1. topic[l][i].leadId = l /\ EventTrue(topic[l][i])
  BY EventOnTopic
<1> QED
  BY <1>1 DEF EventTrue

\* Whatever publishLeadStatusEvent sends twice, late or not at all, what is on the
\* topic agrees with the audit trail.
THEOREM EventsDoMatch == EventsSpec => []EvInv /\ []EventsMatchHistory
  BY EvInitInv, EvNextInv, EvInvMatches, PTL DEF EventsSpec

-----------------------------------------------------------------------------
(* No event is lost, and none sent twice, but by a fault *)

\* Every row of the audit trail has been handed to the producer.
HandedOut ==
    \A l \in Leads : \A i \in DOMAIN history[l] :
        \E e \in outbox : e.leadId = l /\ e.row = i

\* Without a fault, the events sent are those on the topic, once each.
SentOnce ==
    faults = 0 =>
        /\ \A e \in settled : \E i \in DOMAIN topic[e.leadId] : topic[e.leadId][i] = e
        /\ \A l \in Leads : \A i \in DOMAIN topic[l] :
              /\ topic[l][i] \in settled
              /\ \A j \in DOMAIN topic[l] : topic[l][i] = topic[l][j] => i = j

\* RecordTransition hands out the event of the row it adds.
LEMMA RecordHandedOut ==
    ASSUME TypeOK, HandedOut, NEW l \in Leads, NEW from \in LeadStatus \cup {Null},
           NEW to \in LeadStatus, NEW by \in Tokens, owner[l] \in Users,
           RecordTransition(l, from, to, by)
    PROVE  HandedOut'
<1> DEFINE n == Len(history[l])
<1>1. Recorded(l, [from |-> from, to |-> to, by |-> by])
  BY RecordFacts
<1>2. /\ \A m \in Leads : m # l => history'[m] = history[m]
      /\ n \in Nat /\ DOMAIN history[l] = 1..n /\ DOMAIN history'[l] = 1..(n + 1)
  BY <1>1 DEF Recorded
<1>3. PICK e : e.leadId = l /\ e.row = n + 1 /\ outbox' = outbox \cup {e}
  BY DEF RecordTransition
<1> HIDE DEF n
<1>4. ASSUME NEW m \in Leads, NEW i \in DOMAIN history'[m]
      PROVE  \E f \in outbox' : f.leadId = m /\ f.row = i
  <2>1. CASE i \in DOMAIN history[m]
    BY <1>3, <2>1 DEF HandedOut
  <2>2. CASE m = l /\ i = n + 1
    BY <1>3, <2>2
  <2> QED
    BY <1>2, <2>1, <2>2
<1> QED
  BY <1>4 DEF HandedOut

\* Every row that lead-service adds is handed out with it.
LEMMA NextHandedOut ==
    ASSUME IInv, HandedOut, [Next]_vars
    PROVE  HandedOut'
<1> TypeOK /\ RowsOwned
  BY DEF IInv
<1>1. ASSUME UNCHANGED <<history, outbox>>
      PROVE  HandedOut'
  BY <1>1 DEF HandedOut
<1>2. ASSUME NEW h \in Handlers, NEW t \in Tokens, NEW l \in Leads, CreateLead(h, t, l)
      PROVE  UNCHANGED <<history, outbox>>
  BY <1>2 DEF CreateLead
<1>3. ASSUME NEW h \in Handlers, CreateHistory(h)
      PROVE  HandedOut'
  <2> PICK l \in Leads : l = req[h].lead /\ status[l] # "NONE" /\ req[h].by \in Tokens
    BY <1>3 DEF CreateHistory, IInv, HandlersJustified, HandlerJustified
  <2>1. RecordTransition(l, Null, "CREATED", req[h].by) /\ owner[l] \in Users
    BY <1>3 DEF CreateHistory, RowsOwned
  <2>2. "CREATED" \in LeadStatus /\ Null \in LeadStatus \cup {Null}
    BY DEF LeadStatus
  <2> QED
    BY <2>1, <2>2, RecordHandedOut
<1>4. ASSUME NEW h \in Handlers, Transition(h)
      PROVE  HandedOut'
  <2> PICK l \in Leads : l = req[h].lead /\ status[l] # "NONE" /\ req[h].by \in Tokens
    BY <1>4 DEF Transition, IInv, HandlersJustified, HandlerJustified
  <2> PICK from, to : from = req[h].seen /\ to = req[h].to
    OBVIOUS
  <2>1. /\ assertValidTransition(from, to) /\ owner[l] \in Users
        /\ RecordTransition(l, from, to, req[h].by)
    BY <1>4 DEF Transition, RowsOwned
  <2>2. from \in LeadStatus /\ to \in LeadStatus
    BY <2>1, EdgeFacts
  <2> QED
    BY <2>1, <2>2, RecordHandedOut
<1>5. ASSUME NEW h \in Handlers,
             \/ \E t \in Tokens, l \in Leads, f \in Uploads : StartUpload(h, t, l, f)
             \/ \E p \in Paths : SaveFile(h, p)
             \/ InsertDoc(h) \/ MarkKycUploaded(h) \/ Fail(h)
             \/ \E t \in Tokens, l \in Leads, to \in LeadStatus,
                   sc \in Scores \cup {Null}, rs \in Reasons \cup {Null} :
                   StartUpdateStatus(h, t, l, to, sc, rs)
      PROVE  UNCHANGED <<history, outbox>>
  BY <1>5 DEF StartUpload, SaveFile, InsertDoc, MarkKycUploaded, Fail, StartUpdateStatus
<1>6. ASSUME UNCHANGED vars
      PROVE  UNCHANGED <<history, outbox>>
  BY <1>6 DEF vars
<1> QED
  BY <1>1, <1>2, <1>3, <1>4, <1>5, <1>6, RejectFails DEF Next, GetById

\* A step that sends nothing, with or without a fault.
LEMMA SentOnceStays ==
    ASSUME EvInv, SentOnce, UNCHANGED <<settled, topic>>, faults' \in {faults, faults + 1}
    PROVE  SentOnce'
<1>1. faults \in Nat
  BY DEF EvInv, EvTypeOK
<1> QED
  BY <1>1 DEF SentOnce

\* A send that goes well puts an event on the topic that was not there.
LEMMA SentOncePublish ==
    ASSUME EvInv, SentOnce, NEW e \in outbox, Publish(e)
    PROVE  SentOnce'
<1> SUFFICES ASSUME faults' = 0
             PROVE  /\ \A f \in settled' : \E i \in DOMAIN topic'[f.leadId] : topic'[f.leadId][i] = f
                    /\ \A m \in Leads : \A i \in DOMAIN topic'[m] :
                          /\ topic'[m][i] \in settled'
                          /\ \A j \in DOMAIN topic'[m] : topic'[m][i] = topic'[m][j] => i = j
  BY DEF SentOnce
<1> PICK l \in Leads : l = e.leadId
  BY DEF EvInv, EventsTrue, EventTrue
<1>1. /\ e \notin settled /\ settled' = settled \cup {e} /\ faults = 0
      /\ topic' = [topic EXCEPT ![l] = Append(topic[l], e)]
  BY DEF Publish
<1>2. /\ \A f \in settled : \E i \in DOMAIN topic[f.leadId] : topic[f.leadId][i] = f
      /\ \A m \in Leads : \A i \in DOMAIN topic[m] :
            /\ topic[m][i] \in settled
            /\ \A j \in DOMAIN topic[m] : topic[m][i] = topic[m][j] => i = j
  BY <1>1 DEF SentOnce
<1>3. e \in Event /\ topic[l] \in Seq(Event) /\ \A f \in settled : f.leadId \in Leads
  BY DEF EvInv, EvTypeOK, EventsTrue, EventTrue, IInv, TypeOK
<1> DEFINE n == Len(topic[l])
<1>4. /\ n \in Nat /\ DOMAIN topic[l] = 1..n /\ DOMAIN Append(topic[l], e) = 1..(n + 1)
      /\ \A i \in DOMAIN topic[l] : Append(topic[l], e)[i] = topic[l][i]
      /\ Append(topic[l], e)[n + 1] = e
  BY <1>3, AppendFacts
<1>5. /\ topic'[l] = Append(topic[l], e)
      /\ \A m \in Leads : m # l => topic'[m] = topic[m]
  BY <1>1 DEF EvInv, EvTypeOK
<1> HIDE DEF n
<1>6. /\ DOMAIN topic'[l] = 1..(n + 1) /\ topic'[l][n + 1] = e
      /\ \A i \in DOMAIN topic[l] : i \in DOMAIN topic'[l] /\ topic'[l][i] = topic[l][i]
  BY <1>4, <1>5
<1>7. ASSUME NEW f \in settled'
      PROVE  \E i \in DOMAIN topic'[f.leadId] : topic'[f.leadId][i] = f
  <2>1. CASE f = e
    <3>1. n + 1 \in DOMAIN topic'[l]
      BY <1>4, <1>6
    <3> QED
      BY <1>6, <2>1, <3>1
  <2>2. CASE f \in settled
    <3>1. PICK i \in DOMAIN topic[f.leadId] : topic[f.leadId][i] = f
      BY <1>2, <2>2
    <3>2. CASE f.leadId = l
      BY <1>6, <3>1, <3>2
    <3>3. CASE f.leadId # l
      BY <1>3, <1>5, <2>2, <3>1, <3>3
    <3> QED
      BY <3>2, <3>3
  <2> QED
    BY <1>1, <2>1, <2>2
<1>8. ASSUME NEW m \in Leads, NEW i \in DOMAIN topic'[m]
      PROVE  /\ topic'[m][i] \in settled'
             /\ \A j \in DOMAIN topic'[m] : topic'[m][i] = topic'[m][j] => i = j
  <2>1. CASE m # l
    BY <1>1, <1>2, <1>5, <2>1
  <2>2. CASE m = l
    <3>1. \A k \in DOMAIN topic'[l] : k \in DOMAIN topic[l] \/ k = n + 1
      BY <1>4, <1>6
    <3>2. \A k \in DOMAIN topic[l] : topic'[l][k] \in settled
      BY <1>2, <1>6
    <3> QED
      BY <1>1, <1>2, <1>6, <2>2, <3>1, <3>2
  <2> QED
    BY <2>1, <2>2
<1> QED
  BY <1>7, <1>8

\* Every step of LeadEvents preserves the two.
LEMMA AccountsStep ==
    ASSUME EvInv, HandedOut, SentOnce, [EventsNext]_eventVars
    PROVE  HandedOut' /\ SentOnce'
<1>1. HandedOut'
  <2>1. CASE [Next]_vars
    BY <2>1, NextHandedOut DEF EvInv
  <2>2. CASE UNCHANGED vars
    BY <2>2 DEF vars, HandedOut
  <2> QED
    BY <2>1, <2>2, EventsProject
<1>2. faults \in Nat
  BY DEF EvInv, EvTypeOK
<1>3. ASSUME ServiceRequest \/ UNCHANGED eventVars \/ \E h \in Handlers : ServiceStep(h) \/ ServiceFails(h)
      PROVE  SentOnce'
  BY <1>3, SentOnceStays DEF ServiceRequest, eventVars, ServiceStep, ServiceFails, Fault
<1>4. ASSUME NEW e \in outbox, PublishUnacked(e) \/ PublishFails(e)
      PROVE  SentOnce'
  <2>1. faults' # 0
    BY <1>2, <1>4 DEF PublishUnacked, PublishFails, Fault
  <2> QED
    BY <2>1 DEF SentOnce
<1> QED
  BY <1>1, <1>3, <1>4, SentOncePublish DEF EventsNext

\* Two events of one row are the same event.
LEMMA OneEventPerRow ==
    ASSUME EvInv, NEW e \in outbox, NEW f \in outbox, e.leadId = f.leadId, e.row = f.row
    PROVE  e = f
<1>1. e \in Event /\ f \in Event /\ EventTrue(e) /\ EventTrue(f)
  BY DEF EvInv, IInv, TypeOK, EventsTrue
<1>2. e.status = f.status /\ e.previousStatus = f.previousStatus /\ e.userId = f.userId
  BY <1>1 DEF EventTrue
<1> QED
  BY <1>1, <1>2 DEF Event

\* The invariants account for every row.
LEMMA AccountsSuffice ==
    ASSUME EvInv, HandedOut, SentOnce
    PROVE  RowsAccounted
<1> SUFFICES ASSUME faults = 0, NEW l \in Leads
             PROVE  /\ OnTopic(l) \cup Pending(l) = DOMAIN history[l]
                    /\ OnTopic(l) \cap Pending(l) = {}
                    /\ \A i, j \in DOMAIN topic[l] : topic[l][i].row = topic[l][j].row => i = j
  BY DEF RowsAccounted
<1>1. \A i \in DOMAIN topic[l] :
         /\ topic[l][i] \in outbox /\ topic[l][i].leadId = l /\ topic[l][i] \in settled
         /\ \A j \in DOMAIN topic[l] : topic[l][i] = topic[l][j] => i = j
  BY DEF EvInv, EventsTrue, SentOnce
<1>2. \A e \in outbox : e.leadId = l => e.row \in DOMAIN history[l]
  BY DEF EvInv, EventsTrue, EventTrue
<1>3. ASSUME NEW i \in DOMAIN history[l]
      PROVE  i \in OnTopic(l) \cup Pending(l)
  <2>1. PICK e \in outbox : e.leadId = l /\ e.row = i
    BY DEF HandedOut
  <2>2. CASE e \in settled
    BY <2>1, <2>2 DEF SentOnce, OnTopic
  <2>3. CASE e \notin settled
    BY <2>1, <2>3 DEF Pending
  <2> QED
    BY <2>2, <2>3
<1>4. \A i \in OnTopic(l) \cup Pending(l) : i \in DOMAIN history[l]
  BY <1>1, <1>2 DEF OnTopic, Pending
<1>5. OnTopic(l) \cap Pending(l) = {}
  <2> SUFFICES ASSUME NEW i \in DOMAIN topic[l], NEW e \in outbox \ settled,
                      e.leadId = l, e.row = topic[l][i].row
               PROVE  FALSE
    BY DEF OnTopic, Pending
  <2>1. e = topic[l][i]
    BY <1>1, OneEventPerRow
  <2> QED
    BY <1>1, <2>1
<1>6. ASSUME NEW i \in DOMAIN topic[l], NEW j \in DOMAIN topic[l], topic[l][i].row = topic[l][j].row
      PROVE  i = j
  <2>1. topic[l][i] = topic[l][j]
    BY <1>1, <1>6, OneEventPerRow
  <2> QED
    BY <1>1, <2>1
<1> QED
  BY <1>3, <1>4, <1>5, <1>6

\* Nobody waits for publishLeadStatusEvent, and yet only a fault can lose an event
\* of the audit trail, or send it twice.
THEOREM RowsAreAccounted == EventsSpec => []RowsAccounted
<1>1. EventsInit => HandedOut /\ SentOnce
  BY DEF EventsInit, Init, HandedOut, SentOnce
<1> QED
  BY <1>1, EvInitInv, EvNextInv, AccountsStep, AccountsSuffice, PTL DEF EventsSpec

-----------------------------------------------------------------------------
(* The place of a consumer *)

\* A step that touches neither lead-service nor the topic.
LEMMA OutsideEvInv ==
    ASSUME EvInv, UNCHANGED <<vars, settled, topic>>, faults' \in Nat
    PROVE  EvInv' /\ LeadsKept /\ TopicGrows
  BY ServiceEvInv

\* Where a consumer is: behind the end of the topic, and so is its committed offset.
Behind(pos, committed) ==
    /\ pos \in [Leads -> Nat] /\ committed \in [Leads -> Nat \cup {Null}]
    /\ \A l \in Leads : /\ pos[l] <= Len(topic[l])
                        /\ committed[l] # Null => committed[l] <= Len(topic[l])

\* What the moves of a consumer do to its place.
LEMMA BehindFacts ==
    ASSUME EvInv, NEW pos, NEW committed, Behind(pos, committed)
    PROVE  /\ Behind(Restart(committed), committed) /\ Behind(pos, pos)
           /\ \A l \in Leads : Unread(pos, l) =>
                 /\ Behind(Advance(pos, l), committed)
                 /\ Advance(pos, l)[l] = pos[l] + 1
                 /\ \A m \in Leads : m # l => Advance(pos, l)[m] = pos[m]
                 /\ pos[l] + 1 \in DOMAIN topic[l]
<1>1. \A l \in Leads : Len(topic[l]) \in Nat /\ DOMAIN topic[l] = 1..Len(topic[l])
  BY DEF EvInv, EvTypeOK
<1>2. Behind(Restart(committed), committed) /\ Behind(pos, pos)
  BY <1>1 DEF Behind, Restart
<1>3. ASSUME NEW l \in Leads, Unread(pos, l)
      PROVE  /\ Behind(Advance(pos, l), committed)
             /\ Advance(pos, l)[l] = pos[l] + 1
             /\ \A m \in Leads : m # l => Advance(pos, l)[m] = pos[m]
             /\ pos[l] + 1 \in DOMAIN topic[l]
  BY <1>1, <1>3 DEF Behind, Advance, Unread
<1> QED
  BY <1>2, <1>3

-----------------------------------------------------------------------------
(* UserProjection *)

\* The inductive invariant of UserProjection.
PrInv ==
    /\ EvInv
    /\ Behind(userPos, userCommitted)
    /\ lastLeadStatus \in [Users -> LeadStatus \cup {Null}]
    /\ ProjectionTrue

\* A lead that has been in some status exists.
LEMMA ReachedExists ==
    ASSUME IInv, NEW l \in Leads, NEW s \in Reached(l)
    PROVE  status[l] # "NONE"
  BY DEF IInv, RowsOwned, Reached

\* What a projection shows stays true of leads that are kept.
LEMMA ProjectionKept ==
    ASSUME IInv, LeadsKept, ProjectionTrue, NEW u \in Users,
           lastLeadStatus'[u] = lastLeadStatus[u], lastLeadStatus'[u] # Null
    PROVE  \E l \in Leads : owner'[l] = u /\ lastLeadStatus'[u] \in Reached(l)'
<1>1. PICK l \in Leads : owner[l] = u /\ lastLeadStatus[u] \in Reached(l)
  BY DEF ProjectionTrue
<1>2. status[l] # "NONE"
  BY <1>1, ReachedExists
<1> QED
  BY <1>1, <1>2 DEF LeadsKept

\* The invariant holds initially.
LEMMA PrInitInv == UserInit => PrInv
<1> SUFFICES ASSUME UserInit PROVE PrInv
  OBVIOUS
<1>1. EvInv
  BY EvInitInv DEF UserInit
<1> QED
  BY <1>1 DEF UserInit, EventsInit, PrInv, Behind, ProjectionTrue

\* Every step of UserProjection preserves the invariant.
LEMMA PrNextInv ==
    ASSUME PrInv, [UserNext]_projectionVars
    PROVE  PrInv'
<1> USE DEF PrInv
<1>0. \A l \in Leads : Len(topic[l]) \in Nat
  BY DEF EvInv, EvTypeOK
<1>1. ASSUME EvInv', LeadsKept, TopicGrows, UNCHANGED userVars
      PROVE  PrInv'
  <2>1. Behind(userPos, userCommitted)'
    <3>1. \A l \in Leads : Len(topic'[l]) \in Nat
      BY <1>1 DEF EvInv, EvTypeOK
    <3> QED
      BY <1>0, <1>1, <3>1 DEF Behind, TopicGrows, userVars
  <2>2. ProjectionTrue'
    BY <1>1, ProjectionKept DEF EvInv, ProjectionTrue, userVars
  <2> QED
    BY <1>1, <2>1, <2>2 DEF userVars
<1>2. ASSUME NEW l \in Leads, RecordLeadStatus(l)
      PROVE  PrInv'
  <2> PICK e : e = NextEvent(userPos, l)
    OBVIOUS
  <2>1. /\ Unread(userPos, l) /\ userPos' = Advance(userPos, l)
        /\ lastLeadStatus' = [lastLeadStatus EXCEPT ![e.userId] = e.status]
        /\ UNCHANGED <<vars, settled, topic, faults, userCommitted>>
    BY <1>2 DEF RecordLeadStatus, recordLeadStatus, eventVars
  <2>2. userPos[l] + 1 \in DOMAIN topic[l] /\ Behind(Advance(userPos, l), userCommitted)
    BY <2>1, BehindFacts
  <2>3. /\ e \in Event /\ EventTrue(e) /\ e.leadId = l
        /\ e.status \in Reached(l) /\ e.status \in LeadStatus
    BY <2>2, EventOnTopic DEF NextEvent
  <2>4. owner[l] = e.userId /\ e.userId \in Users
    BY <2>3 DEF EventTrue, Event
  <2>5. EvInv' /\ LeadsKept
    BY <2>1, OutsideEvInv DEF EvInv, EvTypeOK
  <2>6. Behind(userPos, userCommitted)'
    BY <2>1, <2>2 DEF Behind
  <2>7. lastLeadStatus' \in [Users -> LeadStatus \cup {Null}]
    BY <2>1, <2>3
  <2>8. ProjectionTrue'
    <3>1. \A m \in Leads : owner'[m] = owner[m] /\ Reached(m)' = Reached(m)
      BY <2>1 DEF vars, Reached
    <3>2. ASSUME NEW u \in Users, lastLeadStatus'[u] # Null
          PROVE  \E m \in Leads : owner'[m] = u /\ lastLeadStatus'[u] \in Reached(m)'
      <4>1. CASE u = e.userId
        BY <2>1, <2>3, <2>4, <3>1, <4>1
      <4>2. CASE u # e.userId
        BY <2>1, <2>5, <3>2, <4>2, ProjectionKept DEF EvInv
      <4> QED
        BY <4>1, <4>2
    <3> QED
      BY <3>2 DEF ProjectionTrue
  <2> QED
    BY <2>5, <2>6, <2>7, <2>8
<1>3. ASSUME UNCHANGED <<vars, settled, topic, lastLeadStatus>>, faults' \in Nat,
             Behind(userPos', userCommitted')
      PROVE  PrInv'
  <2>1. EvInv' /\ LeadsKept
    BY <1>3, OutsideEvInv
  <2>2. Behind(userPos, userCommitted)'
    BY <1>3 DEF Behind
  <2>3. ProjectionTrue'
    BY <1>3, <2>1, ProjectionKept DEF EvInv, ProjectionTrue
  <2> QED
    BY <1>3, <2>1, <2>2, <2>3
<1>4. ASSUME NEW l \in Leads, RecordFails(l)
      PROVE  PrInv'
  BY <1>3, <1>4, BehindFacts DEF RecordFails, Fault, EvInv, EvTypeOK
<1>5. ASSUME UserCommit
      PROVE  PrInv'
  BY <1>3, <1>5, BehindFacts DEF UserCommit, eventVars, EvInv, EvTypeOK
<1>6. ASSUME UserCrash
      PROVE  PrInv'
  BY <1>3, <1>6, BehindFacts DEF UserCrash, Fault, EvInv, EvTypeOK
<1>7. ASSUME [EventsNext]_eventVars, UNCHANGED userVars
      PROVE  PrInv'
  BY <1>1, <1>7, EvNextInv
<1> QED
  BY <1>2, <1>4, <1>5, <1>6, <1>7 DEF UserNext, projectionVars

\* The applicant's projection never shows a status none of their leads has had,
\* whatever the topic loses, repeats or reorders and wherever the consumer dies
\* (recordLeadStatus): also, the events it reads are those of the audit trail.
THEOREM ProjectionIsTrue == UserSpec => []ProjectionTrue /\ []EventsMatchHistory
<1>1. PrInv => ProjectionTrue /\ EventsMatchHistory
  BY EvInvMatches DEF PrInv
<1> QED
  BY <1>1, PrInitInv, PrNextInv, PTL DEF UserSpec

\* A lead with an event read is there.
LEMMA ReadLead ==
    ASSUME PrInv, NEW l \in Leads, userPos[l] > 0
    PROVE  userPos[l] \in DOMAIN topic[l] /\ status[l] # "NONE"
<1>1. userPos[l] \in 1..Len(topic[l]) /\ topic[l] \in Seq(Event)
  BY DEF PrInv, Behind, EvInv, EvTypeOK
<1>2. userPos[l] \in DOMAIN topic[l]
  BY <1>1
<1>3. EventTrue(topic[l][userPos[l]]) /\ topic[l][userPos[l]].leadId = l
  BY <1>2, EventOnTopic DEF PrInv
<1> QED
  BY <1>2, <1>3 DEF EventTrue

\* The leads of an applicant with an event read.
ReadOf(u) == {l \in Leads : userPos[l] > 0 /\ owner[l] = u}

\* What the projection of one applicant shows.
ShowsLastRead(u) ==
    /\ ReadOf(u) = {} => lastLeadStatus[u] = Null
    /\ ReadOf(u) # {} => \E l \in ReadOf(u) : lastLeadStatus[u] = topic[l][userPos[l]].status

\* The property, applicant by applicant.
LEMMA LastReadOfAll ==
    ProjectionIsLastRead <=> (faults = 0 => \A u \in Users : ShowsLastRead(u))
  BY DEF ProjectionIsLastRead, ShowsLastRead, ReadOf

\* A step that reads nothing keeps what is shown.
LEMMA ShownStays ==
    ASSUME PrInv, LeadsKept, TopicGrows, UNCHANGED <<userPos, lastLeadStatus>>,
           NEW u \in Users, ShowsLastRead(u)
    PROVE  ShowsLastRead(u)'
<1>1. \A l \in Leads : userPos[l] > 0 =>
         owner'[l] = owner[l] /\ topic'[l][userPos[l]] = topic[l][userPos[l]]
  BY ReadLead DEF LeadsKept, TopicGrows
<1>2. ReadOf(u)' = ReadOf(u)
  BY <1>1 DEF ReadOf
<1>3. \A l \in ReadOf(u) : topic'[l][userPos'[l]] = topic[l][userPos[l]]
  BY <1>1 DEF ReadOf
<1> QED
  BY <1>2, <1>3 DEF ShowsLastRead

\* The event read is what its applicant's projection shows now.
LEMMA ShownMoves ==
    ASSUME PrInv, NEW l \in Leads, RecordLeadStatus(l), NEW u \in Users, ShowsLastRead(u)
    PROVE  ShowsLastRead(u)'
<1> PICK e : e = NextEvent(userPos, l)
  OBVIOUS
<1>1. /\ Unread(userPos, l) /\ userPos' = Advance(userPos, l)
      /\ lastLeadStatus' = [lastLeadStatus EXCEPT ![e.userId] = e.status]
      /\ UNCHANGED <<vars, topic>>
  BY DEF RecordLeadStatus, recordLeadStatus, eventVars
<1>2. /\ userPos'[l] = userPos[l] + 1 /\ userPos[l] + 1 \in DOMAIN topic[l]
      /\ \A m \in Leads : m # l => userPos'[m] = userPos[m]
  BY <1>1, BehindFacts DEF PrInv
<1>3. e = topic[l][userPos'[l]] /\ e.userId = owner[l] /\ userPos'[l] > 0
  <2>1. e = topic[l][userPos'[l]] /\ EventTrue(e) /\ e.leadId = l
    BY <1>2, EventOnTopic DEF NextEvent, PrInv
  <2>2. userPos[l] \in Nat
    BY DEF PrInv, Behind
  <2> QED
    BY <1>2, <2>1, <2>2 DEF EventTrue
<1>4. owner' = owner /\ topic' = topic
  BY <1>1 DEF vars, leadRow
<1>5. CASE u = owner[l]
  <2>1. l \in ReadOf(u)'
    BY <1>3, <1>4, <1>5 DEF ReadOf
  <2>2. lastLeadStatus'[u] = e.status
    BY <1>1, <1>3, <1>5 DEF PrInv
  <2> QED
    BY <1>3, <1>4, <2>1, <2>2 DEF ShowsLastRead
<1>6. CASE u # owner[l]
  <2>1. lastLeadStatus'[u] = lastLeadStatus[u]
    BY <1>1, <1>3, <1>6 DEF PrInv
  <2>2. ReadOf(u)' = ReadOf(u)
    BY <1>2, <1>4, <1>6 DEF ReadOf
  <2>3. \A m \in ReadOf(u) : topic'[m][userPos'[m]] = topic[m][userPos[m]]
    BY <1>2, <1>4, <1>6 DEF ReadOf
  <2> QED
    BY <2>1, <2>2, <2>3 DEF ShowsLastRead
<1> QED
  BY <1>5, <1>6

\* Every step keeps the projection at the last event read, until something fails.
LEMMA LastReadStep ==
    ASSUME PrInv, ProjectionIsLastRead, [UserNext]_projectionVars
    PROVE  ProjectionIsLastRead'
<1> SUFFICES ASSUME faults' = 0, NEW u \in Users PROVE ShowsLastRead(u)'
  BY DEF ProjectionIsLastRead, ShowsLastRead, ReadOf
<1>1. faults \in Nat
  BY DEF PrInv, EvInv, EvTypeOK
<1>2. ASSUME faults = 0, EvInv', LeadsKept, TopicGrows, UNCHANGED <<userPos, lastLeadStatus>>
      PROVE  ShowsLastRead(u)'
  BY <1>2, LastReadOfAll, ShownStays
<1>3. ASSUME NEW l \in Leads, RecordLeadStatus(l)
      PROVE  ShowsLastRead(u)'
  <2>1. faults = 0
    BY <1>3 DEF RecordLeadStatus, eventVars
  <2> QED
    BY <1>3, <2>1, LastReadOfAll, ShownMoves
<1>4. ASSUME NEW l \in Leads, RecordFails(l)
      PROVE  FALSE
  BY <1>1, <1>4 DEF RecordFails, Fault
<1>5. ~ UserCrash
  BY <1>1 DEF UserCrash, Fault
<1>6. ASSUME UserCommit \/ UNCHANGED projectionVars
      PROVE  ShowsLastRead(u)'
  <2>1. UNCHANGED <<vars, settled, topic, faults, userPos, lastLeadStatus>>
    BY <1>6 DEF UserCommit, projectionVars, eventVars, userVars
  <2>2. EvInv' /\ LeadsKept /\ TopicGrows
    BY <1>1, <2>1, OutsideEvInv DEF PrInv
  <2> QED
    BY <1>2, <2>1, <2>2
<1>7. ASSUME EventsNext, UNCHANGED userVars
      PROVE  ShowsLastRead(u)'
  <2>1. EvInv' /\ LeadsKept /\ TopicGrows
    BY <1>7, EvNextInv DEF PrInv
  <2>2. faults = 0
    BY <1>1, <1>7 DEF EventsNext, ServiceRequest, ServiceStep, ServiceFails, Publish,
                      PublishUnacked, PublishFails, Fault
  <2> QED
    BY <1>2, <1>7, <2>1, <2>2 DEF userVars
<1> QED
  BY <1>3, <1>4, <1>5, <1>6, <1>7 DEF UserNext

\* Until something fails, the applicant's projection is as late as the consumer: it
\* shows the last event that recordLeadStatus read of one of their leads.
THEOREM ProjectionIsAsLateAsItsConsumer == UserSpec => []ProjectionIsLastRead
<1>1. UserInit => ProjectionIsLastRead
  BY DEF UserInit, ProjectionIsLastRead
<1> QED
  BY <1>1, PrInitInv, PrNextInv, LastReadStep, PTL DEF UserSpec

\* A step of UserProjection is a step of lead-service, or none.
LEMMA UserProjects ==
    ASSUME EvInv, [UserNext]_projectionVars
    PROVE  [Next]_vars
<1>1. ASSUME [EventsNext]_eventVars
      PROVE  [Next]_vars
  BY <1>1, EventsProject
<1>2. ASSUME NEW l \in Leads, RecordLeadStatus(l) \/ RecordFails(l)
      PROVE  UNCHANGED vars
  BY <1>2 DEF RecordLeadStatus, RecordFails, eventVars
<1>3. ASSUME UserCommit \/ UserCrash \/ UNCHANGED projectionVars
      PROVE  UNCHANGED vars
  BY <1>3 DEF UserCommit, UserCrash, projectionVars, eventVars
<1> QED
  BY <1>1, <1>2, <1>3 DEF UserNext

\* Behind its topic lead-service does only what it does by itself, so that all of
\* its invariants go on holding: nothing the projection does reaches back.
THEOREM ProjectionOverLeadService == UserSpec => Spec
<1>1. UserInit => Init
  BY DEF UserInit, EventsInit
<1>2. PrInv /\ [UserNext]_projectionVars => [Next]_vars
  BY UserProjects DEF PrInv
<1> QED
  BY <1>1, <1>2, PrInitInv, PrNextInv, PTL DEF UserSpec, Spec

\* A lead moves along the life cycle until its trail is split, also while its events
\* are lost, repeated and reordered and the consumer restarts, and whatever requests
\* are in flight.
THEOREM WorkflowBehindTopic == UserSpec => ImplementsWorkflow
  BY ProjectionOverLeadService, WorkflowRefinement, PTL

-----------------------------------------------------------------------------
(* BankingAdapter *)

Job == [pc : {"none", "getLead", "decide"}, lead : Leads \cup {Null},
        score : Scores \cup {Null}]

\* The mail the consumer is writing is about the next event of a lead, and a
\* rejection has its reason.
NoteIsNext ==
    note # Null =>
        \E l \in Leads : /\ Unread(bankPos, l) /\ note.event = NextEvent(bankPos, l)
                         /\ isNotifiable(note.event.status)
                         /\ requiresReason(note.event.status) => note.reason # Null

\* MailsTrue, of leads that are there.
MailsKnown == \A m \in mails : m.lead \in Leads
JobsKnown == \A j \in Jobs : jobs[j].pc # "none" => jobs[j].lead \in Leads

\* The inductive invariant of BankingAdapter.
BkRest ==
    /\ Behind(bankPos, bankCommitted)
    /\ jobs \in [Jobs -> Job] /\ JobsKnown
    /\ NoteIsNext /\ MailsKnown /\ MailsTrue /\ MailedOrDead /\ HandoffsScored
BkInv == EvInv /\ BkRest

\* A lead that was handed to the bank has a score.
LEMMA BankedScored ==
    ASSUME IInv, NEW l \in Leads, "BANK_HANDOFF" \in Reached(l)
    PROVE  score[l] # Null
<1>1. "APPROVED" \in Reached(l)
  <2>1. \E from \in Reached(l) : assertValidTransition(from, "BANK_HANDOFF")
    BY ReachedByRow
  <2> QED
    BY <2>1 DEF assertValidTransition, ALLOWED_TRANSITIONS
<1>2. "CREDIT_CHECKED" \in Reached(l)
  <2>1. \E from \in Reached(l) : assertValidTransition(from, "APPROVED")
    BY <1>1, ReachedByRow
  <2> QED
    BY <2>1 DEF assertValidTransition, ALLOWED_TRANSITIONS
<1> QED
  BY <1>2 DEF IInv, SnapshotsKept

\* What lead-service and the topic do keeps what the consumer knows.
LEMMA BkKept ==
    ASSUME BkInv, EvInv', LeadsKept, TopicGrows
    PROVE  /\ bankPos' = bankPos /\ bankCommitted' = bankCommitted
                => Behind(bankPos, bankCommitted)'
           /\ bankPos' = bankPos /\ note' = note => NoteIsNext'
           /\ mails' = mails => MailsKnown' /\ MailsTrue'
           /\ bankPos' = bankPos /\ mails \subseteq mails' /\ bankDlq \subseteq bankDlq'
                /\ missed \subseteq missed' => MailedOrDead'
           /\ jobs' = jobs => HandoffsScored' /\ JobsKnown'
<1> USE DEF BkInv, BkRest
<1>1. \A l \in Leads : /\ Len(topic[l]) \in Nat /\ Len(topic'[l]) \in Nat
                       /\ DOMAIN topic[l] = 1..Len(topic[l])
  BY DEF EvInv, EvTypeOK
<1>2. ASSUME bankPos' = bankPos, bankCommitted' = bankCommitted
      PROVE  Behind(bankPos, bankCommitted)'
  BY <1>1, <1>2 DEF Behind, TopicGrows
<1>3. ASSUME bankPos' = bankPos, note' = note, note # Null
      PROVE  NoteIsNext'
  <2>1. PICK l \in Leads : /\ Unread(bankPos, l) /\ note.event = NextEvent(bankPos, l)
                           /\ isNotifiable(note.event.status)
                           /\ requiresReason(note.event.status) => note.reason # Null
    BY <1>3 DEF NoteIsNext
  <2>2. Unread(bankPos, l)' /\ NextEvent(bankPos, l)' = NextEvent(bankPos, l)
    BY <1>1, <1>3, <2>1 DEF Unread, NextEvent, TopicGrows, Behind
  <2> QED
    BY <1>3, <2>1, <2>2 DEF NoteIsNext
<1>4. ASSUME mails' = mails
      PROVE  MailsKnown' /\ MailsTrue'
  BY <1>4 DEF MailsKnown, MailsTrue, LeadsKept
<1>5. ASSUME bankPos' = bankPos, mails \subseteq mails', bankDlq \subseteq bankDlq',
             missed \subseteq missed', NEW l \in Leads, NEW i \in 1..bankPos'[l],
             isNotifiable(topic'[l][i].status)
      PROVE  \/ topic'[l][i].status \in Mailed(l)'
             \/ topic'[l][i] \in bankDlq' \/ topic'[l][i] \in missed'
  <2>1. i \in 1..bankPos[l] /\ topic'[l][i] = topic[l][i]
    BY <1>1, <1>5 DEF Behind, TopicGrows
  <2>2. Mailed(l) \subseteq Mailed(l)'
    BY <1>5 DEF Mailed
  <2> QED
    BY <1>5, <2>1, <2>2 DEF MailedOrDead
<1>6. ASSUME jobs' = jobs
      PROVE  HandoffsScored' /\ JobsKnown'
  BY <1>6 DEF HandoffsScored, JobsKnown, LeadsKept
<1>7. note' = note /\ note = Null => NoteIsNext'
  BY DEF NoteIsNext
<1> QED
  BY <1>2, <1>3, <1>4, <1>5, <1>6, <1>7 DEF MailedOrDead

\* The consumer may pass an event that needs no mail, or that has its mail, its
\* place in the dead-letter topic, or its place among those passed over.
LEMMA PassKeeps ==
    ASSUME BkInv, EvInv', NEW l \in Leads, Unread(bankPos, l),
           bankPos' = Advance(bankPos, l), UNCHANGED <<topic, bankCommitted>>,
           mails \subseteq mails', bankDlq \subseteq bankDlq', missed \subseteq missed',
           \/ ~ isNotifiable(NextEvent(bankPos, l).status)
           \/ NextEvent(bankPos, l).status \in Mailed(l)'
           \/ NextEvent(bankPos, l) \in bankDlq'
    PROVE  Behind(bankPos, bankCommitted)' /\ MailedOrDead'
<1> USE DEF BkInv, BkRest
<1>1. /\ Behind(Advance(bankPos, l), bankCommitted)
      /\ bankPos'[l] = bankPos[l] + 1
      /\ \A m \in Leads : m # l => bankPos'[m] = bankPos[m]
  BY BehindFacts
<1>2. Behind(bankPos, bankCommitted)'
  BY <1>1 DEF Behind
<1>3. ASSUME NEW m \in Leads, NEW i \in 1..bankPos'[m], isNotifiable(topic'[m][i].status)
      PROVE  \/ topic'[m][i].status \in Mailed(m)'
             \/ topic'[m][i] \in bankDlq' \/ topic'[m][i] \in missed'
  <2>0. bankPos[l] \in Nat
    BY DEF Behind
  <2>1. CASE i \in 1..bankPos[m]
    <3>1. Mailed(m) \subseteq Mailed(m)'
      BY DEF Mailed
    <3> QED
      BY <1>3, <2>1, <3>1 DEF MailedOrDead
  <2>2. CASE m = l /\ i = bankPos[l] + 1
    BY <1>3, <2>2 DEF NextEvent
  <2> QED
    BY <1>1, <2>0, <2>1, <2>2
<1> QED
  BY <1>2, <1>3 DEF MailedOrDead

\* The invariant holds initially.
LEMMA BkInitInv == BankInit => BkInv
<1> SUFFICES ASSUME BankInit PROVE BkInv
  OBVIOUS
<1>1. EvInv
  BY EvInitInv DEF BankInit
<1>2. jobs \in [Jobs -> Job] /\ JobsKnown /\ HandoffsScored
  BY DEF BankInit, NoJob, Job, JobsKnown, HandoffsScored
<1> QED
  BY <1>1, <1>2 DEF BankInit, EventsInit, BkInv, BkRest, Behind, NoteIsNext, MailsKnown,
                    MailsTrue, MailedOrDead

\* What a step of BankingAdapter is to lead-service and the topic.
LEMMA BankProjects ==
    ASSUME EvInv, JobsKnown, [BankNext]_adapterVars
    PROVE  EvInv' /\ LeadsKept /\ TopicGrows /\ [Next]_vars
<1>1. faults \in Nat
  BY DEF EvInv, EvTypeOK
<1>2. ASSUME [EventsNext]_eventVars
      PROVE  EvInv' /\ LeadsKept /\ TopicGrows /\ [Next]_vars
  BY <1>2, EvNextInv, EventsProject
<1>3. ASSUME NEW j \in Jobs, NEW h \in Handlers, ResolveHandoff(j, h)
      PROVE  EvInv' /\ LeadsKept /\ TopicGrows /\ [Next]_vars
  <2>1. PICK to \in LeadStatus, rs \in Reasons \cup {Null} :
           StartUpdateStatus(h, BankToken, jobs[j].lead, to, Null, rs)
    BY <1>3 DEF ResolveHandoff, decideFundingOutcome, LeadStatus
  <2>2. jobs[j].lead \in Leads
    BY <1>3 DEF ResolveHandoff, JobsKnown
  <2>3. Next /\ UNCHANGED <<settled, topic, faults>>
    BY <1>3, <2>1, <2>2, BankAssumption DEF Next, ResolveHandoff
  <2> QED
    BY <1>1, <2>3, ServiceEvInv
<1>4. ASSUME UNCHANGED eventVars
      PROVE  EvInv' /\ LeadsKept /\ TopicGrows /\ [Next]_vars
  BY <1>2, <1>4 DEF eventVars
<1>5. ASSUME UNCHANGED <<vars, settled, topic>>, Fault
      PROVE  EvInv' /\ LeadsKept /\ TopicGrows /\ [Next]_vars
  BY <1>1, <1>5, OutsideEvInv DEF Fault
<1>6. ASSUME NEW l \in Leads, SkipEvent(l) \/ BuildContent(l) \/ \E j \in Jobs : DispatchHandoff(l, j)
      PROVE  UNCHANGED eventVars
  BY <1>6 DEF SkipEvent, BuildContent, DispatchHandoff
<1>7. ASSUME SendMail \/ BankCommit \/ \E j \in Jobs : HandoffGetLead(j) \/ ResolveRefused(j)
      PROVE  UNCHANGED eventVars
  BY <1>7 DEF SendMail, BankCommit, HandoffGetLead, ResolveRefused
<1>8. ASSUME NotifyFails \/ NotifyRetried \/ BankCrash \/ \E j \in Jobs : HandoffFails(j)
      PROVE  UNCHANGED <<vars, settled, topic>> /\ Fault
  BY <1>8 DEF NotifyFails, NotifyRetried, BankCrash, HandoffFails
<1>9. CASE UNCHANGED adapterVars
  BY <1>4, <1>9 DEF adapterVars
<1> QED
  BY <1>2, <1>3, <1>4, <1>5, <1>6, <1>7, <1>8, <1>9 DEF BankNext


\* What the two parts of the invariant about the handoffs say of one.
JobScored(j) ==
    /\ jobs[j].pc # "none" => jobs[j].lead \in Leads /\ "BANK_HANDOFF" \in Reached(jobs[j].lead)
    /\ jobs[j].pc = "decide" => jobs[j].score # Null

\* One handoff moves.
LEMMA JobMoves ==
    ASSUME BkInv, EvInv', LeadsKept, NEW j \in Jobs, NEW q \in Job,
           jobs' = [jobs EXCEPT ![j] = q],
           q.pc # "none" => \E l \in Leads : q.lead = l /\ "BANK_HANDOFF" \in Reached(l)',
           q.pc = "decide" => q.score # Null
    PROVE  jobs' \in [Jobs -> Job] /\ JobsKnown' /\ HandoffsScored'
<1>1. /\ jobs'[j] = q /\ \A k \in Jobs : k # j => jobs'[k] = jobs[k]
      /\ jobs' \in [Jobs -> Job]
  BY DEF BkInv, BkRest
<1>2. ASSUME NEW k \in Jobs
      PROVE  JobScored(k)'
  <2>1. CASE k = j
    BY <1>1, <2>1 DEF JobScored, Reached
  <2>2. CASE k # j
    <3>1. JobScored(k) /\ jobs'[k] = jobs[k]
      BY <1>1, <2>2 DEF BkInv, BkRest, JobsKnown, HandoffsScored, JobScored
    <3>2. \A l \in Leads : "BANK_HANDOFF" \in Reached(l) => "BANK_HANDOFF" \in Reached(l)'
      BY DEF LeadsKept
    <3> QED
      BY <3>1, <3>2 DEF JobScored, Reached
  <2> QED
    BY <2>1, <2>2
<1> QED
  BY <1>1, <1>2 DEF JobsKnown, HandoffsScored, JobScored

\* Every step of BankingAdapter preserves the invariant.
LEMMA BkNextInv ==
    ASSUME BkInv, [BankNext]_adapterVars
    PROVE  BkInv'
<1> USE DEF BkInv
<1>0. EvInv' /\ LeadsKept /\ TopicGrows
  BY BankProjects DEF BkRest
<1>1. CASE UNCHANGED bankVars
  BY <1>0, <1>1, BkKept DEF BkRest, bankVars
<1>2. ASSUME NEW l \in Leads, SkipEvent(l)
      PROVE  BkRest'
  <2>1. Behind(bankPos, bankCommitted)' /\ MailedOrDead'
    BY <1>0, <1>2, PassKeeps DEF SkipEvent, eventVars
  <2> QED
    BY <1>0, <1>2, <2>1, BkKept DEF BkRest, SkipEvent, NoteIsNext
<1>3. ASSUME NEW l \in Leads, NEW j \in Jobs, DispatchHandoff(l, j)
      PROVE  BkRest'
  <2> DEFINE q == [pc |-> "getLead", lead |-> l, score |-> Null]
  <2>1. /\ Unread(bankPos, l) /\ NextEvent(bankPos, l).status = "BANK_HANDOFF"
        /\ jobs' = [jobs EXCEPT ![j] = q] /\ bankPos' = Advance(bankPos, l)
        /\ note = Null /\ UNCHANGED <<topic, bankCommitted, note, mails, bankDlq, missed>>
    BY <1>3 DEF DispatchHandoff, eventVars
  <2>2. "BANK_HANDOFF" \in Reached(l)'
    <3>1. bankPos[l] + 1 \in DOMAIN topic[l]
      BY <2>1, BehindFacts DEF BkRest
    <3> QED
      BY <1>0, <2>1, <3>1, EventOnTopic DEF NextEvent, LeadsKept
  <2>3. q \in Job /\ q.lead = l /\ q.pc # "decide"
    BY DEF Job
  <2> HIDE DEF q
  <2>4. Behind(bankPos, bankCommitted)' /\ MailedOrDead'
    BY <1>0, <2>1, PassKeeps DEF isNotifiable, NOTIFIABLE_STATUSES
  <2>5. jobs' \in [Jobs -> Job] /\ JobsKnown' /\ HandoffsScored'
    BY <1>0, <2>1, <2>2, <2>3, JobMoves
  <2> QED
    BY <1>0, <2>1, <2>4, <2>5, BkKept DEF BkRest, NoteIsNext
<1>4. ASSUME NEW l \in Leads, BuildContent(l)
      PROVE  BkRest'
  <2> PICK e : e = NextEvent(bankPos, l)
    OBVIOUS
  <2>1. /\ Unread(bankPos, l) /\ isNotifiable(e.status)
        /\ note' = [event |-> e,
                    reason |-> IF requiresReason(e.status) THEN reason[l] ELSE Null]
        /\ UNCHANGED <<topic, bankPos, bankCommitted, jobs, mails, bankDlq, missed>>
    BY <1>4 DEF BuildContent, eventVars
  <2>2. note'.event = e /\ (requiresReason(e.status) => note'.reason = reason[l])
    BY <2>1
  <2>3. requiresReason(e.status) => reason[l] # Null
    <3>1. bankPos[l] + 1 \in DOMAIN topic[l]
      BY <2>1, BehindFacts DEF BkRest
    <3>2. e.status \in Reached(l)
      BY <3>1, EventOnTopic DEF NextEvent
    <3> QED
      BY <3>2 DEF EvInv, IInv, SnapshotsKept, requiresReason
  <2>4. NoteIsNext'
    <3>1. Unread(bankPos, l)' /\ NextEvent(bankPos, l)' = e
      BY <2>1 DEF Unread, NextEvent
    <3> QED
      BY <2>1, <2>2, <2>3, <3>1 DEF NoteIsNext
  <2> QED
    BY <1>0, <2>1, <2>4, BkKept DEF BkRest
<1>5. ASSUME note # Null,
             NEW l \in Leads, Unread(bankPos, l), note.event = NextEvent(bankPos, l)
      PROVE  /\ note.event.leadId = l /\ note.event.status \in Reached(l)
  <2>1. bankPos[l] + 1 \in DOMAIN topic[l]
    BY <1>5, BehindFacts DEF BkRest
  <2> QED
    BY <1>5, <2>1, EventOnTopic DEF NextEvent
<1>6. ASSUME SendMail
      PROVE  BkRest'
  <2>1. PICK l \in Leads : /\ Unread(bankPos, l) /\ note.event = NextEvent(bankPos, l)
                           /\ requiresReason(note.event.status) => note.reason # Null
    BY <1>6 DEF SendMail, NoteIsNext, BkRest
  <2>2. note.event.leadId = l /\ note.event.status \in Reached(l)
    BY <1>5, <1>6, <2>1 DEF SendMail
  <2> DEFINE m == [lead |-> l, status |-> note.event.status, reason |-> note.reason]
  <2>3. /\ mails' = mails \cup {m} /\ bankPos' = Advance(bankPos, l) /\ note' = Null
        /\ UNCHANGED <<topic, bankCommitted, jobs, bankDlq, missed>>
    BY <1>6, <2>2 DEF SendMail, eventVars
  <2>4. m.lead = l /\ m.status = note.event.status /\ m.reason = note.reason
    OBVIOUS
  <2> HIDE DEF m
  <2>5. MailsKnown' /\ MailsTrue'
    <3>1. MailsKnown'
      BY <2>3, <2>4 DEF BkRest, MailsKnown
    <3>2. ASSUME NEW x \in mails'
          PROVE  (x.status \in Reached(x.lead))' /\ (requiresReason(x.status) => x.reason # Null)
      <4>1. CASE x = m
        BY <1>0, <2>1, <2>2, <2>4, <4>1 DEF LeadsKept, Reached
      <4>2. CASE x \in mails
        BY <1>0, <4>2 DEF BkRest, MailsKnown, MailsTrue, LeadsKept, Reached
      <4> QED
        BY <2>3, <4>1, <4>2
    <3> QED
      BY <3>1, <3>2 DEF MailsTrue
  <2>6. note.event.status \in Mailed(l)'
    BY <2>3, <2>4 DEF Mailed
  <2>7. Behind(bankPos, bankCommitted)' /\ MailedOrDead'
    BY <1>0, <2>1, <2>3, <2>6, PassKeeps
  <2> QED
    BY <1>0, <2>3, <2>5, <2>7, BkKept DEF BkRest, NoteIsNext
<1>7. ASSUME NotifyFails
      PROVE  BkRest'
  <2>1. PICK l \in Leads : Unread(bankPos, l) /\ note.event = NextEvent(bankPos, l)
    BY <1>7 DEF NotifyFails, NoteIsNext, BkRest
  <2>2. note.event.leadId = l
    BY <1>5, <1>7, <2>1 DEF NotifyFails
  <2>3. /\ bankDlq' = bankDlq \cup {note.event} /\ bankPos' = Advance(bankPos, l)
        /\ note' = Null /\ UNCHANGED <<topic, bankCommitted, jobs, mails, missed>>
    BY <1>7, <2>2 DEF NotifyFails, publishToBankDlq
  <2>4. Behind(bankPos, bankCommitted)' /\ MailedOrDead'
    BY <1>0, <2>1, <2>3, PassKeeps
  <2> QED
    BY <1>0, <2>3, <2>4, BkKept DEF BkRest, NoteIsNext
<1>8. ASSUME NotifyRetried
      PROVE  BkRest'
  BY <1>0, <1>8, BkKept DEF BkRest, NotifyRetried, NoteIsNext
<1>9. ASSUME BankCommit
      PROVE  BkRest'
  <2>1. /\ bankCommitted' = bankPos
        /\ UNCHANGED <<topic, bankPos, note, jobs, mails, bankDlq, missed>>
    BY <1>9 DEF BankCommit, eventVars
  <2>2. Behind(bankPos, bankCommitted)'
    BY <2>1, BehindFacts DEF BkRest, Behind
  <2> QED
    BY <1>0, <2>1, <2>2, BkKept DEF BkRest
<1>10. ASSUME BankCrash
       PROVE  BkRest'
  <2> DEFINE r == Restart(bankCommitted)
  <2>1. /\ bankPos' = r /\ missed' = missed \cup PassedOver(bankPos, bankCommitted)
        /\ note' = Null /\ jobs' = [j \in Jobs |-> NoJob]
        /\ UNCHANGED <<topic, bankCommitted, mails, bankDlq>>
    BY <1>10 DEF BankCrash
  <2>2. Behind(r, bankCommitted)
    BY BehindFacts DEF BkRest
  <2> HIDE DEF r
  <2>3. Behind(bankPos, bankCommitted)'
    BY <2>1, <2>2 DEF Behind
  <2>4. ASSUME NEW l \in Leads, NEW i \in 1..r[l], i \notin 1..bankPos[l]
        PROVE  topic[l][i] \in PassedOver(bankPos, bankCommitted)
    <3>1. i \in (bankPos[l] + 1)..Restart(bankCommitted)[l]
      BY <2>2, <2>4 DEF BkRest, Behind, r
    <3> QED
      BY <3>1 DEF PassedOver
  <2>5. MailedOrDead'
    <3>1. \A l \in Leads : Mailed(l)' = Mailed(l)
      BY <2>1 DEF Mailed
    <3> QED
      BY <2>1, <2>4, <3>1 DEF BkRest, MailedOrDead
  <2>6. jobs' \in [Jobs -> Job] /\ JobsKnown' /\ HandoffsScored'
    BY <2>1 DEF NoJob, Job, JobsKnown, HandoffsScored
  <2> QED
    BY <1>0, <2>1, <2>3, <2>5, <2>6, BkKept DEF BkRest, NoteIsNext
<1>11. ASSUME NEW j \in Jobs, HandoffGetLead(j)
       PROVE  BkRest'
  <2> PICK l : l = jobs[j].lead
    OBVIOUS
  <2> DEFINE q == [pc |-> "decide", lead |-> l, score |-> score[l]]
  <2>1. /\ jobs[j].pc = "getLead" /\ jobs' = [jobs EXCEPT ![j] = q]
        /\ UNCHANGED <<bankPos, bankCommitted, note, mails, bankDlq, missed>>
    BY <1>11 DEF HandoffGetLead
  <2>2. l \in Leads /\ "BANK_HANDOFF" \in Reached(l)
    BY <2>1 DEF BkRest, JobsKnown, HandoffsScored
  <2>3. score[l] \in Scores /\ score[l] # Null
    BY <2>2, BankedScored DEF EvInv, IInv, TypeOK
  <2>4. q \in Job /\ q.lead = l /\ q.score # Null
    BY <2>2, <2>3 DEF Job
  <2> HIDE DEF q
  <2>5. jobs' \in [Jobs -> Job] /\ JobsKnown' /\ HandoffsScored'
    BY <1>0, <2>1, <2>2, <2>4, JobMoves DEF LeadsKept
  <2> QED
    BY <1>0, <2>1, <2>5, BkKept DEF BkRest
<1>12. ASSUME NEW j \in Jobs,
              ResolveRefused(j) \/ HandoffFails(j) \/ \E h \in Handlers : ResolveHandoff(j, h)
       PROVE  BkRest'
  <2>1. /\ jobs' = [jobs EXCEPT ![j] = NoJob]
        /\ UNCHANGED <<bankPos, bankCommitted, note, mails, bankDlq, missed>>
    BY <1>12 DEF ResolveRefused, HandoffFails, ResolveHandoff
  <2>2. NoJob \in Job /\ NoJob.pc = "none"
    BY DEF NoJob, Job
  <2>3. jobs' \in [Jobs -> Job] /\ JobsKnown' /\ HandoffsScored'
    BY <1>0, <2>1, <2>2, JobMoves
  <2> QED
    BY <1>0, <2>1, <2>3, BkKept DEF BkRest
<1>13. CASE UNCHANGED adapterVars
  BY <1>1, <1>13 DEF adapterVars
<1> QED
  BY <1>0, <1>1, <1>2, <1>3, <1>4, <1>6, <1>7, <1>8, <1>9, <1>10, <1>11, <1>12, <1>13 DEF BankNext

\* The invariant holds in every reachable state.
LEMMA BkInvariance == BankSpec => []BkInv
  BY BkInitInv, BkNextInv, PTL DEF BankSpec

\* Only a fault sends an event to the dead-letter topic, or passes it over.
NoneLost == faults = 0 => bankDlq = {} /\ missed = {}

\* What a step of BankingAdapter does to the events sent, and to those lost.
LEMMA BankAccounts ==
    ASSUME BkInv, HandedOut, SentOnce, NoneLost, [BankNext]_adapterVars
    PROVE  HandedOut' /\ SentOnce' /\ NoneLost'
<1>0. EvInv /\ faults \in Nat /\ [Next]_vars
  BY BankProjects DEF BkInv, BkRest, EvInv, EvTypeOK
<1>1. HandedOut'
  BY <1>0, NextHandedOut DEF EvInv
<1>2. ASSUME EventsNext
      PROVE  SentOnce' /\ (faults' = 0 => faults = 0)
  <2>1. SentOnce'
    BY <1>0, <1>2, AccountsStep
  <2>2. faults' = 0 => faults = 0
    BY <1>0, <1>2 DEF EventsNext, ServiceRequest, ServiceStep, ServiceFails, Publish,
                      PublishUnacked, PublishFails, Fault
  <2> QED
    BY <2>1, <2>2
<1>3. ASSUME UNCHANGED <<settled, topic, faults, bankDlq, missed>>
      PROVE  SentOnce' /\ NoneLost'
  BY <1>0, <1>3, SentOnceStays DEF NoneLost
<1>4. ASSUME UNCHANGED <<settled, topic>>, Fault
      PROVE  SentOnce' /\ NoneLost'
  BY <1>0, <1>4, SentOnceStays DEF NoneLost, Fault
<1>5. ASSUME EventsNext, UNCHANGED bankVars
      PROVE  SentOnce' /\ NoneLost'
  BY <1>2, <1>5 DEF NoneLost, bankVars
<1>6. ASSUME NEW l \in Leads, SkipEvent(l) \/ BuildContent(l) \/ \E j \in Jobs : DispatchHandoff(l, j)
      PROVE  UNCHANGED <<settled, topic, faults, bankDlq, missed>>
  BY <1>6 DEF SkipEvent, BuildContent, DispatchHandoff, eventVars
<1>7. ASSUME SendMail \/ BankCommit
             \/ \E j \in Jobs :
                   \/ HandoffGetLead(j) \/ ResolveRefused(j)
                   \/ \E h \in Handlers : ResolveHandoff(j, h)
      PROVE  UNCHANGED <<settled, topic, faults, bankDlq, missed>>
  BY <1>7 DEF SendMail, BankCommit, HandoffGetLead, ResolveRefused, ResolveHandoff, eventVars
<1>8. ASSUME NotifyFails \/ NotifyRetried \/ BankCrash \/ \E j \in Jobs : HandoffFails(j)
      PROVE  UNCHANGED <<settled, topic>> /\ Fault
  BY <1>8 DEF NotifyFails, NotifyRetried, BankCrash, HandoffFails
<1>9. CASE UNCHANGED adapterVars
  BY <1>1, <1>3, <1>9 DEF adapterVars, eventVars, bankVars
<1> QED
  BY <1>1, <1>3, <1>4, <1>5, <1>6, <1>7, <1>8, <1>9 DEF BankNext

\* A status to be notified that is not mailed and whose event is not pending has
\* its event on the topic, ahead of the consumer.
LEMMA OnItsWay ==
    ASSUME BkInv, HandedOut, SentOnce, NoneLost
    PROVE  NotifiedOrOnItsWay
<1> SUFFICES ASSUME faults = 0, NEW l \in Leads, NEW i \in DOMAIN history[l],
                    isNotifiable(history[l][i].to), i \notin Pending(l)
             PROVE  \/ history[l][i].to \in Mailed(l)
                    \/ \E k \in DOMAIN topic[l] : k > bankPos[l] /\ topic[l][k].row = i
  BY DEF NotifiedOrOnItsWay
<1>1. i \in OnTopic(l)
  BY AccountsSuffice DEF BkInv, RowsAccounted
<1>2. PICK k \in DOMAIN topic[l] : topic[l][k].row = i
  BY <1>1 DEF OnTopic
<1>3. topic[l][k].status = history[l][i].to /\ k \in Nat \ {0}
  BY <1>2, EventOnTopic DEF BkInv, EventTrue
<1>4. bankPos[l] \in Nat
  BY DEF BkInv, BkRest, Behind
<1>5. CASE k > bankPos[l]
  BY <1>2, <1>5
<1>6. CASE k \in 1..bankPos[l]
  <2>1. topic[l][k].status \in Mailed(l)
    BY <1>3, <1>6 DEF BkInv, BkRest, MailedOrDead, NoneLost
  <2> QED
    BY <1>3, <2>1
<1> QED
  BY <1>3, <1>4, <1>5, <1>6

\* From transition() to sendMail, across two services and the topic: until
\* something fails, each status to be notified has been mailed or its event is on
\* the way.
THEOREM NotificationsAreOnTheirWay == BankSpec => []RowsAccounted /\ []NotifiedOrOnItsWay
<1>1. BankInit => HandedOut /\ SentOnce /\ NoneLost
  BY DEF BankInit, EventsInit, Init, HandedOut, SentOnce, NoneLost
<1>2. BkInv /\ HandedOut /\ SentOnce => RowsAccounted
  BY AccountsSuffice DEF BkInv
<1> QED
  BY <1>1, <1>2, BkInvariance, BankAccounts, OnItsWay, PTL DEF BankSpec

\* No mail is false, and none of a rejection comes without its reason, whatever the
\* topic loses, repeats or reorders (notify() and buildContent()).
THEOREM MailsAreTrue == BankSpec => []MailsTrue
<1>1. BkInv => MailsTrue
  BY DEF BkInv, BkRest
<1> QED
  BY <1>1, BkInvariance, PTL

\* The consumer is never past an event to be notified that was neither mailed nor
\* sent to the dead-letter topic, but for those a restart passed over.
THEOREM MailedOrDeadLetter == BankSpec => []MailedOrDead
<1>1. BkInv => MailedOrDead
  BY DEF BkInv, BkRest
<1> QED
  BY <1>1, BkInvariance, PTL

\* processHandoff never runs for a lead that was not handed to the bank, and
\* decideFundingOutcome always has a score.
THEOREM HandoffsAreScored == BankSpec => []HandoffsScored
<1>1. BkInv => HandoffsScored
  BY DEF BkInv, BkRest
<1> QED
  BY <1>1, BkInvariance, PTL

\* The bank's calls are requests like any other: lead-service stays lead-service
\* under them, a lead enters no stage before the one it depends on, and moves along the
\* life cycle until its trail is split.
THEOREM BankOverLeadService == BankSpec => Spec /\ ImplementsLedger /\ ImplementsWorkflow
<1>1. BankInit => Init
  BY DEF BankInit, EventsInit
<1>2. BkInv /\ [BankNext]_adapterVars => [Next]_vars
  BY BankProjects DEF BkInv, BkRest
<1>3. BankSpec => Spec
  BY <1>1, <1>2, BkInvariance, PTL DEF BankSpec, Spec
<1> QED
  BY <1>3, LedgerRefinement, WorkflowRefinement, PTL

-----------------------------------------------------------------------------
(* Both outcomes of a decision *)

\* A lead whose trail is not split has kept to one path of the table.
OnePath ==
    \A l \in Leads : ~Split(l) =>
        /\ "APPROVED" \in Reached(l) =>
               status[l] \in {"APPROVED", "BANK_HANDOFF", "FUNDED", "FUNDING_REJECTED"}
        /\ \A s \in {"DECLINED", "FUNDED", "FUNDING_REJECTED"} : s \in Reached(l) => status[l] = s

\* Whatever requests are in flight, a step of lead-service leaves a lead on its path
\* unless it splits the lead's trail.
LEMMA OnePathStep ==
    ASSUME IInv, StaleTraced, OnePath, [Next]_vars
    PROVE  OnePath'
<1> TypeOK
  BY DEF IInv
<1>1. ASSUME NEW l \in Leads, status'[l] = status[l], Split(l)' <=> Split(l),
             Reached(l)' \subseteq Reached(l) \cup {"CREATED"}, ~Split(l)'
      PROVE  /\ "APPROVED" \in Reached(l)' =>
                  status'[l] \in {"APPROVED", "BANK_HANDOFF", "FUNDED", "FUNDING_REJECTED"}
             /\ \A s \in {"DECLINED", "FUNDED", "FUNDING_REJECTED"} : s \in Reached(l)' => status'[l] = s
  BY <1>1 DEF OnePath
<1>2. ASSUME UNCHANGED <<status, history>>
      PROVE  OnePath'
  <2>1. \A l \in Leads : (Split(l)' <=> Split(l)) /\ Reached(l)' = Reached(l)
    BY <1>2 DEF Split, Moves, Reached
  <2> QED
    BY <1>1, <1>2, <2>1 DEF OnePath
<1>3. ASSUME NEW h \in Handlers, NEW t \in Tokens, NEW l \in Leads, CreateLead(h, t, l)
      PROVE  OnePath'
  <2>1. /\ status[l] = "NONE" /\ history[l] = <<>> /\ history' = history
        /\ status' = [status EXCEPT ![l] = "CREATED"]
    BY <1>3 DEF CreateLead, IInv, RowsOwned
  <2>2. Reached(l)' = {"CREATED"}
    BY <2>1 DEF TypeOK, Reached
  <2>3. \A m \in Leads : Split(m)' <=> Split(m)
    BY <2>1 DEF Split, Moves
  <2>4. \A m \in Leads : m # l => status'[m] = status[m] /\ Reached(m)' = Reached(m)
    BY <2>1 DEF Reached
  <2> QED
    BY <1>1, <2>2, <2>3, <2>4 DEF OnePath
<1>4. ASSUME NEW h \in Handlers, CreateHistory(h)
      PROVE  OnePath'
  BY <1>1, <1>4, CreateHistoryStutters DEF OnePath
<1>5. ASSUME NEW h \in Handlers, Transition(h)
      PROVE  OnePath'
  <2>1. PICK l \in Leads, from \in LeadStatus, to \in LeadStatus, by \in Tokens :
           MovesLead(h, l, from, to, by)
    BY <1>5, TransitionEffect
  <2>2. /\ assertValidTransition(from, to)
        /\ status'[l] = to /\ Reached(l)' = Reached(l) \cup {to}
        /\ \A m \in Leads : m # l => /\ status'[m] = status[m] /\ Reached(m)' = Reached(m)
                                     /\ history'[m] = history[m]
    BY <2>1 DEF MovesLead, TypeOK
  <2>3. \A m \in Leads : m # l => (Split(m)' <=> Split(m))
    BY <2>2 DEF Split, Moves
  <2>4. ASSUME ~Split(l)'
        PROVE  ~Split(l) /\ assertValidTransition(status[l], to)
    BY <1>5, <2>1, <2>2, <2>4, DecidedNow
  <2>5. ASSUME ~Split(l)'
        PROVE  /\ "APPROVED" \in Reached(l)' =>
                    status'[l] \in {"APPROVED", "BANK_HANDOFF", "FUNDED", "FUNDING_REJECTED"}
               /\ \A s \in {"DECLINED", "FUNDED", "FUNDING_REJECTED"} :
                      s \in Reached(l)' => status'[l] = s
    BY <2>2, <2>4, <2>5 DEF OnePath, assertValidTransition, ALLOWED_TRANSITIONS
  <2> QED
    BY <1>1, <2>2, <2>3, <2>5 DEF OnePath
<1> QED
  BY <1>2, <1>3, <1>4, <1>5, OtherSteps

\* An applicant is told both outcomes of a decision only about a lead whose trail
\* tells of two decisions taken in one status: whatever requests overlap, and
\* whatever the topic repeats or reorders and the consumer reads again.
THEOREM NoContradictionUnlessSplit == BankSpec => []NoContradiction
<1>1. BankInit => StaleTraced /\ OnePath
  <2>1. Init => OnePath
    BY DEF Init, OnePath, Reached
  <2> QED
    BY <2>1, StaleTracedInit DEF BankInit, EventsInit
<1>2. BkInv /\ StaleTraced /\ OnePath /\ [BankNext]_adapterVars => StaleTraced' /\ OnePath'
  BY BankProjects, StaleTracedStep, OnePathStep DEF BkInv, BkRest, EvInv
<1>3. BkInv /\ OnePath => NoContradiction
  <2> SUFFICES ASSUME BkInv, OnePath, NEW l \in Leads, ~Split(l)
               PROVE  /\ ~({"APPROVED", "DECLINED"} \subseteq Mailed(l))
                      /\ ~({"FUNDED", "FUNDING_REJECTED"} \subseteq Mailed(l))
    BY DEF NoContradiction
  <2>1. Mailed(l) \subseteq Reached(l)
    BY DEF BkInv, BkRest, MailsTrue, Mailed
  <2> QED
    BY <2>1 DEF OnePath
<1> QED
  BY <1>1, <1>2, <1>3, BkInvariance, PTL DEF BankSpec

===============================================================================
