--------------------------- MODULE MC_UserMemory ---------------------------
EXTENDS UserMemory

MC_Users == {"u1", "u2"}
MC_Messages == {<<"u1", {"name"}>>, <<"u1", {"name", "role"}>>, <<"u2", {"role"}>>}
MC_Patterns == <<"name", "role">>
=============================================================================
