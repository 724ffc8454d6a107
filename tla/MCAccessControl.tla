--------------------------- MODULE MCAccessControl ---------------------------
(* The constants of AccessControl for TLC. *)
EXTENDS AccessControl, TLC

\* Users, secrets and family ids are interchangeable.
MCSymmetry ==
    Permutations(Users) \cup Permutations(RefreshTokens) \cup Permutations(Families)
===============================================================================
