---------------------------- MODULE MCTokenService ----------------------------
(* The constants of TokenService for TLC. *)
EXTENDS TokenService, TLC

\* Users, secrets, family ids and handlers are interchangeable.
MCSymmetry ==
    Permutations(Users) \cup Permutations(RefreshTokens)
      \cup Permutations(Families) \cup Permutations(Handlers)
===============================================================================
