------------------------ MODULE LeadStatusStateMachine ------------------------
(***************************************************************************)
(* The lead life cycle of lead-service: the statuses, the transition table *)
(* and the table of the roles that may drive a transition by hand.         *)
(* Source: apps/lead-service/src/leads/state-machine.  The exceptions the  *)
(* code throws are the FALSE case of these predicates.                     *)
(***************************************************************************)

LeadStatus ==
    {"CREATED", "KYC_UPLOADED", "CREDIT_CHECKED", "APPROVED", "DECLINED",
     "BANK_HANDOFF", "FUNDED", "FUNDING_REJECTED"}

Role == {"APPLICANT", "LOAN_OFFICER", "UNDERWRITER", "ADMIN", "SYSTEM"}

\* The table as a relation: the pairs <<from, to>>.
ALLOWED_TRANSITIONS ==
    {<<"CREATED", "KYC_UPLOADED">>,
     <<"KYC_UPLOADED", "CREDIT_CHECKED">>,
     <<"CREDIT_CHECKED", "APPROVED">>,
     <<"CREDIT_CHECKED", "DECLINED">>,
     <<"APPROVED", "BANK_HANDOFF">>,
     <<"BANK_HANDOFF", "FUNDED">>,
     <<"BANK_HANDOFF", "FUNDING_REJECTED">>}

\* A pair the table does not list may be driven by nobody.
MANUAL_TRANSITION_ROLES(from, to) ==
    CASE <<from, to>> = <<"KYC_UPLOADED", "CREDIT_CHECKED">>
             -> {"LOAN_OFFICER", "UNDERWRITER", "ADMIN"}
      [] <<from, to>> = <<"CREDIT_CHECKED", "APPROVED">>
             -> {"UNDERWRITER", "ADMIN"}
      [] <<from, to>> = <<"CREDIT_CHECKED", "DECLINED">>
             -> {"UNDERWRITER", "ADMIN"}
      [] <<from, to>> = <<"APPROVED", "BANK_HANDOFF">>
             -> {"LOAN_OFFICER", "UNDERWRITER", "ADMIN"}
      [] <<from, to>> = <<"BANK_HANDOFF", "FUNDED">>
             -> {"SYSTEM", "ADMIN"}
      [] <<from, to>> = <<"BANK_HANDOFF", "FUNDING_REJECTED">>
             -> {"SYSTEM", "ADMIN"}
      [] OTHER -> {}

isTerminal(status) ==
    \A to \in LeadStatus : <<status, to>> \notin ALLOWED_TRANSITIONS

assertValidTransition(from, to) == <<from, to>> \in ALLOWED_TRANSITIONS

\* Mutant: any staff role may drive any listed transition.
assertManualTransitionAllowed_AnyStaff(from, to, role) ==
    assertValidTransition(from, to) /\ role # "APPLICANT"

assertManualTransitionAllowed(from, to, role) ==
    /\ assertValidTransition(from, to)
    /\ role \in MANUAL_TRANSITION_ROLES(from, to)

===============================================================================
