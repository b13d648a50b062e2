--------------------------- MODULE MC_RequestPath ---------------------------
(* Small instances of RequestPath.  All short texts meet the compressor as *)
(* an old tool result; a few conversations meet every builder.             *)
EXTENDS RequestPath

LineSet(kinds, ns) == kinds \X ns

User(t) == Message("user", <<<<t, 1>>>>)
Bot(t) == Message("assistant", <<<<t, 1>>>>)
System(t) == Message("system", <<<<t, 1>>>>)
Calling(t, ids) == [Message("assistant", t) EXCEPT !.calls = ids]
Result(id, t) == [Message("tool", t) EXCEPT !.id = id]
Image(parts) == [Message("user", <<>>) EXCEPT !.parts = parts]

Live == User("live")

\* Every text of at most four lines, and JSON arrays of at most three objects.
Texts == BoundedSeq(LineSet({"", "a", "kw", "#", "/*", "*/"}, {1}), 4) \ {<<>>}
MoreTexts == {s \o t : s \in BoundedSeq(LineSet({"a ", "/**/", "kw"}, {1}), 2),
                       t \in BoundedSeq(LineSet({"", "/*", "a", "*/"}, {1}), 2)} \ {<<>>}
Arrays == BoundedSeq(LineSet({"pa", "pab", "cab"}, {1, 2}), 3) \ {<<>>}

OneOld == {<<Message("user", t), Bot("b1"), Live>> : t \in Texts \cup MoreTexts \cup Arrays}

Long == [i \in 1..11 |-> <<"a", i>>]
Longer == [i \in 1..12 |-> <<"b", i>>]

Conversations == {
    <<System("sys"), User("u1"), User("u2"), Bot("b1"), System("sys2"), Live>>,
    <<Message("user", Long), Calling(<<>>, <<"c1", "c2">>), Result("c1", Long), Result("c2", <<<<"r2", 1>>>>)>>,
    <<User("u1"), Calling(<<<<"t", 1>>>>, <<"c1", "c2">>), Result("c1", <<<<"r1", 1>>>>),
      Result("c2", Long), Bot("b1"), Bot("b2"), Live>>,
    <<Message("user", Long), Message("assistant", Longer), Message("user", Long), Bot("b1"), Live>>,
    <<Image(<<<<"text", <<<<"cap", 1>>>>>>, <<"image", <<>>>>, <<"text", <<<<"cap2", 1>>>>>>>>), User("u2")>>,
    <<Image(<<<<"text", <<<<"", 1>>>>>>>>), User("u2")>>,
    <<Image(<<<<"image", <<>>>>>>), User("u2")>>,
    <<Bot("b1"), Live>> }

MCTargets == {"openai", "anthropic", "gemini", "bedrock"} \X BOOLEAN
Formats == {"openai", "anthropic", "gemini", "bedrock"}
MCFirst == (OneOld \X {<<"anthropic", FALSE>>}) \cup (Conversations \X (Formats \X {FALSE}))
           \cup {<<<<User("u1"), Message("assistant", Long), Live>>, t>> : t \in Formats \X {TRUE}}

\* A session goes on with a user message, or with the results of the calls
\* it was last answered with.
MCFollowUps(h) ==
    LET talk == {<<User("next")>>}
                \cup IF h # <<>> /\ Last(h).calls # <<>>
                     THEN {[i \in DOMAIN Last(h).calls |->
                                Result(Last(h).calls[i], <<<<"res", i>>>>)]}
                     ELSE {}
    IN  IF h # <<>> /\ Head(h) \in {Live, User("u1"), User("u2")}
        THEN talk \X (Formats \X {FALSE}) ELSE {}

MCAnswers == {<<>>, <<"c9">>, <<"ret">>, <<"ret", "c9">>, <<"bad">>}
=============================================================================
