------------------------------ MODULE MCGateway ------------------------------
(* The constants of Gateway for TLC. *)
EXTENDS Gateway, TLC

MCRequests == 1..2
MCSkews == {0, 1}
MCKeys == {"auth", "general"} \X {"ip1", "ann", "bob"}
MCLimits == [k \in MCKeys |-> 1]
From(p, u) == [path |-> p, ip |-> "ip1", user |-> u]

\* Two users and an anonymous client behind one address.
MCClients ==
    {From("/auth/login", Null), From("/auth/login", "ann"), From("/leads", "ann"),
     From("/dashboard", "bob"), From("/healthz", Null), From("/other", Null)}
===============================================================================
