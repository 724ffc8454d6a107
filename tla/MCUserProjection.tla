--------------------------- MODULE MCUserProjection ---------------------------
(* The constants of UserProjection for TLC. *)
EXTENDS UserProjection, TLC

\* "bank" stands for the sub claim "system:banking-adapter-mock", no UUID.
MCUsers == {"ann", "ada", "bank"}
MCUuids == {"ann", "ada"}
\* An applicant, an admin, who may drive every edge, and the bank.
MCTokens ==
    {[userId |-> "ann", role |-> "APPLICANT"], [userId |-> "ada", role |-> "ADMIN"], BankToken}

MCMimeTypes == {"image/png"}
MCUploads == {[size |-> 1, mimetype |-> "image/png"]}
===============================================================================
