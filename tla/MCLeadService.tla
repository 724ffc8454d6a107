---------------------------- MODULE MCLeadService ----------------------------
(* The constants of LeadService for TLC. *)
EXTENDS LeadService, TLC

Token(u, r) == [userId |-> u, role |-> r]

\* Two staff roles, which drive every edge between them and own the leads, and "bank",
\* the sub claim "system:banking-adapter-mock", which is no UUID.
MCUuids == {"lou", "ada"}
MCUsers == MCUuids \cup {"bank"}
MCTokens ==
    {Token("lou", "LOAN_OFFICER"), Token("ada", "ADMIN"), Token("bank", "SYSTEM")}

MCMimeTypes == {"image/png"}
\* One file at the size limit, and one for each check of assertValidFile.
MCUploads ==
    {[size |-> 2, mimetype |-> "image/png"], [size |-> 3, mimetype |-> "image/png"],
     [size |-> 0, mimetype |-> "image/png"], [size |-> 1, mimetype |-> "text/html"]}

\* Handlers and paths are interchangeable.
MCSymmetry == Permutations(Handlers) \cup Permutations(Paths)
===============================================================================
