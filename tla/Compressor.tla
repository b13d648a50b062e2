----------------------------- MODULE Compressor -----------------------------
(***************************************************************************)
(* Content-aware compression of old messages (plugins/compressor).         *)
(*                                                                         *)
(* A text is a sequence of lines, a line a pair <<kind, n>>.  The kinds    *)
(* are what the code looks at: "" (blank), "a " (text with trailing        *)
(* blanks), "a", "kw" (a line with a code keyword), "#" (a line comment),  *)
(* "/*", "*/" and "/**/" (a line that opens, ends or is a block comment),  *)
(* and the elements of a JSON array of objects, pretty-printed ("pa",      *)
(* "pab") or compact ("ca", "cab"), named for their keys; n stands for     *)
(* their values.  The output adds "sa"/"sab" (the schema line), "row" (a   *)
(* value row) and "rep" (the count marker of a run of n equal lines).      *)
(***************************************************************************)
EXTENDS Integers, SequencesExt

\* jsonArrayDedupMinEntries, the shortest array rendered as schema and rows
CONSTANT MinEntries

Keys == [pa |-> "a", ca |-> "a", pab |-> "ab", cab |-> "ab"]
CompactOf == [a |-> "ca", ab |-> "cab"]
SchemaOf == [a |-> "sa", ab |-> "sab"]
KeysOfSchema == [sa |-> "a", sab |-> "ab"]

\* Characters of a line, in units that keep the order of the code's lengths.
Width == [pa |-> 6, pab |-> 8, ca |-> 4, cab |-> 6, sa |-> 2, sab |-> 3]
Size(text) ==
    FoldLeft(LAMBDA n, l : n + IF l[1] \in DOMAIN Width THEN Width[l[1]]
                               ELSE IF l[1] = "row" THEN 2 ELSE 1, 0, text)

IsJSON(text) == text # <<>> /\ \A i \in DOMAIN text : text[i][1] \in DOMAIN Keys

\* Mutant: the number of keys is not compared, extra keys go unnoticed.
commonObjectSchemaLoose(text) ==
    \A i \in DOMAIN text : Keys[text[i][1]] \in {Keys[text[1][1]], "ab"}

\* Every element has exactly the keys of the first.
commonObjectSchema(text) ==
    \A i \in DOMAIN text : Keys[text[i][1]] = Keys[text[1][1]]

renderSchemaForm(text) ==
    <<<<SchemaOf[Keys[text[1][1]]], 1>>>>
        \o [i \in DOMAIN text |-> <<"row", text[i][2]>>]

Compact(text) == [i \in DOMAIN text |-> <<CompactOf[Keys[text[i][1]]], text[i][2]>>]

\* What compressJSON renders, before it looks whether that is any smaller.
JSONForm(text) ==
    IF Len(text) >= MinEntries /\ commonObjectSchema(text)
    THEN renderSchemaForm(text) ELSE Compact(text)

compressJSONApplies(text) == IsJSON(text) /\ Size(JSONForm(text)) < Size(text)

looksLikeCode(text) == \E i \in DOMAIN text : text[i][1] \in {"kw"} \cup DOMAIN Keys

\* One turn of the loop of stripComments.
StripLine(acc, l) ==
    IF acc.inBlock THEN [acc EXCEPT !.inBlock = l[1] \notin {"*/", "/**/"}]
    ELSE IF l[1] \in {"#", "/**/"} THEN acc
    ELSE IF l[1] = "/*" THEN [acc EXCEPT !.inBlock = TRUE]
    ELSE [acc EXCEPT !.out = Append(@, l)]

stripComments(text) ==
    IF looksLikeCode(text)
    THEN FoldLeft(StripLine, [out |-> <<>>, inBlock |-> FALSE], text).out
    ELSE text

TrimRight(l) == IF l[1] = "a " THEN <<"a", l[2]>> ELSE l

collapseBlankLines(text) ==
    FoldLeft(LAMBDA out, l :
                 IF l[1] = "" /\ out # <<>> /\ Last(out)[1] = "" THEN out
                 ELSE Append(out, TrimRight(l)),
             <<>>, text)

\* The runs of equal lines, as pairs of the line and its length.
Runs(text) ==
    FoldLeft(LAMBDA rs, l :
                 IF rs # <<>> /\ Last(rs)[1] = l THEN Append(Front(rs), <<l, Last(rs)[2] + 1>>)
                 ELSE Append(rs, <<l, 1>>),
             <<>>, text)

CollapsedRun(r) ==
    IF r[1][1] # "" /\ r[2] >= 3 THEN <<r[1], <<"rep", r[2]>>>>
    ELSE [i \in 1..r[2] |-> r[1]]

collapseRepeatedLines(text) ==
    LET rs == Runs(text) IN FlattenSeq([i \in DOMAIN rs |-> CollapsedRun(rs[i])])

Collapsed(text) ==
    IF compressJSONApplies(text) THEN JSONForm(text)
    ELSE collapseRepeatedLines(collapseBlankLines(stripComments(text)))

\* The length truncation leaves out; the code cuts at maxChars bytes.
omittedChars(text, maxChars) ==
    LET n == Size(Collapsed(text)) IN IF n <= maxChars THEN 0 ELSE n - maxChars

-----------------------------------------------------------------------------
(***************************************************************************)
(* What a reader of the compressed text can recover, and what there was to *)
(* recover, stated without the loops of the code.                          *)
(***************************************************************************)
\* Count markers and schema rows undone.
Recovered(text) ==
    IF text # <<>> /\ text[1][1] \in DOMAIN KeysOfSchema
    THEN [i \in 1..(Len(text) - 1) |->
              <<CompactOf[KeysOfSchema[text[1][1]]], text[i + 1][2]>>]
    ELSE FlattenSeq([i \in DOMAIN text |->
              IF text[i][1] = "rep" THEN [j \in 1..(text[i][2] - 1) |-> text[i - 1]]
              ELSE <<text[i]>>])

\* Line i stands inside a block comment opened on an earlier line.
InBlock(text, i) ==
    \E j \in 1..(i - 1) : text[j][1] = "/*"
                          /\ \A k \in (j + 1)..(i - 1) : text[k][1] \notin {"*/", "/**/"}

IsComment(text, i) ==
    looksLikeCode(text) /\ (InBlock(text, i) \/ text[i][1] \in {"#", "/*", "/**/"})

\* The text without comments, trailing blanks and repeated blank lines, or
\* the array without its layout.
Substance(text) ==
    IF IsJSON(text) THEN Compact(text)
    ELSE LET kept == {i \in DOMAIN text : ~IsComment(text, i)}
             drop == {i \in kept : /\ text[i][1] = ""
                                   /\ \E j \in kept : /\ j < i /\ text[j][1] = ""
                                                      /\ ~\E k \in kept : j < k /\ k < i}
             at   == SetToSortSeq(kept \ drop, <)
         IN  [n \in DOMAIN at |-> TrimRight(text[at[n]])]
=============================================================================
