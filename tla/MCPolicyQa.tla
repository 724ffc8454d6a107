------------------------------ MODULE MCPolicyQa ------------------------------
(* The constants of PolicyQa for TLC. *)
EXTENDS PolicyQa, TLC

\* Two questions that are similar enough, and one that is not.
MCQuestions == {<<1, 0>>, <<4, 1>>, <<0, 1>>}
\* A cosine of about 0.92.
MCThreshold == <<85, 100>>
\* A policy in two chunks, a document of another kind, and an empty one.
MCTexts == {[source |-> "policy:", parts |-> <<<<1, 0>>, <<0, 1>>>>],
            [source |-> "other", parts |-> <<<<1, 0>>>>],
            [source |-> "policy:", parts |-> <<>>]}

\* Ids and handlers are interchangeable.
MCSymmetry == Permutations(EntryIds) \cup Permutations(Handlers) \cup Permutations(DocIds)
===============================================================================
