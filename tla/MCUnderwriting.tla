---------------------------- MODULE MCUnderwriting ----------------------------
(* The constants of Underwriting for TLC. *)
EXTENDS Underwriting, TLC

Token(u, r) == [userId |-> u, role |-> r]

\* An administrator, who may take every step and owns the lead, and "bank", the sub
\* claim "system:banking-adapter-mock", which is no UUID.
MCUsers == {"ada", "bank"}
MCUuids == {"ada"}
MCTokens == {Token("ada", "ADMIN"), Token("bank", "SYSTEM")}

MCMimeTypes == {"image/png"}
MCUploads == {[size |-> 2, mimetype |-> "image/png"]}

\* Runs and chunks are interchangeable.
MCSymmetry == Permutations(Runs) \cup Permutations(Chunks)
===============================================================================
