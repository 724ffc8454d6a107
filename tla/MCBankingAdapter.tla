--------------------------- MODULE MCBankingAdapter ---------------------------
(* The constants of BankingAdapter for TLC. *)
EXTENDS BankingAdapter, TLC

\* "bank" stands for the sub claim "system:banking-adapter-mock", no UUID.
MCUsers == {"ada", "bank"}
MCUuids == {"ada"}
\* An admin, who may drive every edge and owns the lead.
MCTokens == {[userId |-> "ada", role |-> "ADMIN"], BankToken}

MCMimeTypes == {"image/png"}
MCUploads == {[size |-> 1, mimetype |-> "image/png"]}
===============================================================================
