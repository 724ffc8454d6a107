------------------------------ MODULE AnswerCache ------------------------------
(***************************************************************************)
(* What tier1-qa promises of a question about policy: it is answered from  *)
(* the cache or by the model, and which of the two is decided at one       *)
(* moment, from all the entries it has to consider.  Redis, its index and  *)
(* its commands are not seen.                                              *)
(***************************************************************************)
EXTENDS Integers

CONSTANTS Questions, EntryIds, Askers, Nothing,
          ttl,       \* how long an entry may be served
          Few,       \* the sets of entries an entry may be behind and still be considered
          Similar,   \* pairs of questions: what answers one answers the other
          NoFarther  \* <<q, a, b>>: a is no less similar to q than b is

VARIABLES now,
          policies,  \* what answers are grounded on
          cached,    \* what is cached under an id, Nothing before that
          asked      \* where each asker's question is

vars == <<now, policies, cached, asked>>

Saved == {i \in EntryIds : cached[i] # Nothing}
Fresh(i) == now <= cached[i].setAt + ttl

\* known: the entries there were when the cache was consulted.
Asking(phase, question, known, best, context, cachedAt) ==
    [phase |-> phase, question |-> question, known |-> known, best |-> best,
     context |-> context, cachedAt |-> cachedAt]
Idle == Asking("idle", Nothing, {}, Nothing, {}, 0)

In(a, phase) == asked[a].phase = phase
Move(a, q) == asked' = [asked EXCEPT ![a] = q] /\ UNCHANGED <<now, policies>>

\* The entries a question has to consider.
ToConsider(a) ==
    {i \in asked[a].known :
        /\ cached[i].cachedAt > now - ttl
        /\ {j \in Saved \ {i} : cached[j].cachedAt >= cached[i].cachedAt} \in Few}

Answers(i, a) == <<asked[a].question, cached[i].question>> \in Similar
AtLeastAsGood(i, j, a) ==
    <<asked[a].question, cached[i].question, cached[j].question>> \in NoFarther

Init ==
    /\ now = 0 /\ policies = {}
    /\ cached = [i \in EntryIds |-> Nothing]
    /\ asked = [a \in Askers |-> Idle]

Ask(a, question) ==
    /\ In(a, "idle") \/ In(a, "hit")
    /\ Move(a, Asking("asked", question, {}, Nothing, {}, 0))
    /\ UNCHANGED cached

Consult(a) ==
    /\ In(a, "asked")
    /\ Move(a, Asking("looking", asked[a].question, Saved, Nothing, {}, 0))
    /\ UNCHANGED cached

\* The best answer there is, served while it is fresh.
Hit(a, i) ==
    /\ In(a, "looking")
    /\ i \in Saved /\ Fresh(i) /\ Answers(i, a)
    /\ \A j \in ToConsider(a) : AtLeastAsGood(i, j, a)
    /\ Move(a, Asking("hit", asked[a].question, asked[a].known, i, {}, 0))
    /\ UNCHANGED cached

Miss(a) ==
    /\ In(a, "looking")
    /\ \A j \in ToConsider(a) : ~Answers(j, a)
    /\ Move(a, Asking("missed", asked[a].question, asked[a].known, Nothing, {}, 0))
    /\ UNCHANGED cached

\* After a miss: what the answer is grounded on, and then the answer.
Ground(a, context) ==
    /\ In(a, "missed")
    /\ Move(a, Asking("grounded", asked[a].question, asked[a].known, Nothing, context, 0))
    /\ UNCHANGED cached

Answer(a) ==
    /\ In(a, "grounded")
    /\ Move(a, Asking("answered", asked[a].question, {}, Nothing, asked[a].context, now))
    /\ UNCHANGED cached

\* An answer is cached once, under an id of its own, and never replaced.
Save(a, i) ==
    /\ In(a, "answered")
    /\ cached[i] = Nothing
    /\ cached' = [cached EXCEPT ![i] =
                    [question |-> asked[a].question, context |-> asked[a].context,
                     cachedAt |-> asked[a].cachedAt, setAt |-> now]]
    /\ Move(a, Idle)

GiveUp(a) == Move(a, Idle) /\ UNCHANGED cached

\* Policies are added and never taken back; time passes.
Add == policies \subseteq policies' /\ UNCHANGED <<now, cached, asked>>
Pass == now' = now + 1 /\ UNCHANGED <<policies, cached, asked>>

Next ==
    \/ \E a \in Askers :
          \/ Consult(a) \/ Miss(a) \/ Answer(a) \/ GiveUp(a)
          \/ \E question \in Questions : Ask(a, question)
          \/ \E i \in EntryIds : Hit(a, i) \/ Save(a, i)
          \/ \E context \in SUBSET policies : Ground(a, context)
    \/ Add \/ Pass

Spec == Init /\ [][Next]_vars
===============================================================================
