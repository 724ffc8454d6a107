------------------------------ MODULE LeadStages ------------------------------
(***************************************************************************)
(* The stages of a loan application as a tree: each stage but the first    *)
(* depends on exactly one other.  Stated on its own, not through           *)
(* lead-service's tables, so that those can be held against it.            *)
(***************************************************************************)

LaterStages == {"KYC_UPLOADED", "CREDIT_CHECKED", "APPROVED", "DECLINED",
                "BANK_HANDOFF", "FUNDED", "FUNDING_REJECTED"}

Prerequisite(stage) ==
    CASE stage = "KYC_UPLOADED" -> "CREATED"
      [] stage = "CREDIT_CHECKED" -> "KYC_UPLOADED"
      [] stage \in {"APPROVED", "DECLINED"} -> "CREDIT_CHECKED"
      [] stage = "BANK_HANDOFF" -> "APPROVED"
      [] stage \in {"FUNDED", "FUNDING_REJECTED"} -> "BANK_HANDOFF"
===============================================================================
