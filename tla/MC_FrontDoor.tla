---------------------------- MODULE MC_FrontDoor ----------------------------
EXTENDS FrontDoor

MC_Tokens == ("good" :> "t1") @@ ("forged" :> None)
Cfg(keys, jwt, maxReq, maxTok, valid) ==
    [keys |-> keys, jwt |-> jwt, maxReq |-> maxReq, maxTok |-> maxTok, valid |-> valid]
\* The file as it is started with, half written, and after two edits.
MC_Configs == << Cfg("k1" :> "t1", FALSE, 1, 4, TRUE),
                 Cfg(<<>>, FALSE, 1, 0, FALSE),
                 Cfg("k2" :> "t2", TRUE, 2, 0, TRUE),
                 Cfg("k2" :> "t2", TRUE, 0, 0, TRUE) >>
Cred(cert, bearer, xkey) == [cert |-> cert, bearer |-> bearer, xkey |-> xkey]
MC_Credentials == {Cred(None, "k1", None), Cred("t2", None, None), Cred(None, "good", "k2")}
Slots == Permutations(Requests)
=============================================================================
