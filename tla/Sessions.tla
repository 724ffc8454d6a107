------------------------------- MODULE Sessions -------------------------------
(* What refresh-token rotation promises, whatever requests overlap: a login    *)
(* opens a session, and the session stays open through any number of           *)
(* rotations until it ends.  What can bring it back is a rotation that was let *)
(* through while it was open; when those are through it has ended for good.    *)
CONSTANT Families

VARIABLES
    session,   \* unused, open or ended
    rotating   \* the sessions with a rotation let through, and not yet done

Init == /\ session = [f \in Families |-> "unused"]
        /\ rotating = {}

Open(f) ==
    /\ session[f] = "unused"
    /\ session' = [session EXCEPT ![f] = "open"]
    /\ UNCHANGED rotating

\* A rotation is let through to an open session only.
Admit(f) ==
    /\ session[f] = "open"
    /\ rotating' = rotating \cup {f}
    /\ UNCHANGED session

Rotate(f) ==
    /\ f \in rotating
    /\ session' = [session EXCEPT ![f] = "open"]
    /\ rotating' \in {rotating, rotating \ {f}}

\* The last rotation of a session is given up.
Drop(f) ==
    /\ rotating' = rotating \ {f}
    /\ UNCHANGED session

\* Reuse and logout end one session, logout-all every session of a user.
End(S) ==
    /\ \A f \in S : session[f] = "open"
    /\ session' = [f \in Families |-> IF f \in S THEN "ended" ELSE session[f]]
    /\ UNCHANGED rotating

Next ==
    \/ \E f \in Families : Open(f) \/ Admit(f) \/ Rotate(f) \/ Drop(f)
    \/ \E S \in SUBSET Families : End(S)

Spec == Init /\ [][Next]_<<session, rotating>>
===============================================================================
