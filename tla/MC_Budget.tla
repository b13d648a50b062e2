----------------------------- MODULE MC_Budget -----------------------------
\* One tenant with one team; a user of the team and a user without a team.
\* The team and the tenant have limits.
EXTENDS Budget

alice == [tenant |-> "acme", team |-> "eng", user |-> "alice"]
bob   == [tenant |-> "acme", team |-> NoID, user |-> "bob"]

MC_Callers == {alice, bob}
MC_Limits == <<"acme", "eng">> :> 20 @@ <<"acme">> :> 40
=============================================================================
