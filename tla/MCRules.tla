------------------------------ MODULE MCRules ------------------------------
(* Rules over a small alphabet, with the patterns of PathnamePattern and   *)
(* its regular expressions, and Patterns beside them: an administrator     *)
(* writes a table or a pattern. G, H and P stand for GET, HEAD and POST.   *)
EXTENDS Rules, Patterns, TLC

MCInit == Init /\ InitPattern
MCNext == \/ pattern = <<>> /\ Next /\ UNCHANGED <<segments, pattern>>
          \/ table = <<>> /\ WritePattern /\ UNCHANGED table
MCSpec == MCInit /\ [][MCNext]_<<table, segments, pattern>>

-----------------------------------------------------------------------------
(* Tables                                                                  *)

MCUpper == "a" :> "A" @@ "b" :> "B" @@ "g" :> "G" @@ "n" :> "N" @@ "y" :> "Y"
MCLower == "A" :> "a" @@ "B" :> "b" @@ "G" :> "g" @@ "N" :> "n" @@ "Y" :> "y"

MCReCompileIgnoringCase(text) == CompileRegex(Cased(MCLower, text))

MCCharacters == {"a", "b", "g", "n", "y", "A", "N", "Y", "G", "P", "H",
                 " ", ".", "|", "(", "{", ":", "*", Slash}
MCHeaderNameChars == {"a", "b", "1"}
MCLabels == {<<"a">>, <<"b">>, <<"a", "b">>}
MCMethods == {<<"g">>, <<"H">>, <<"P">>}
MCRequestPaths == {<<>>, <<Slash>>, <<Slash, "a">>, <<Slash, "b">>, <<Slash, "a", Slash>>}

Header(name, value) == [keys |-> {"name", "value"}, name |-> name, value |-> value]
Other == [type |-> "other", items |-> <<>>]
Domains == {<<"b">>, <<"A", ".", "b", ".">>, <<" ", "b", " ">>, <<".">>, <<>>,
            <<".", "b">>, <<"b", ".", " ", ".">>}

MCValues ==
    "domain" :> ({String(d) : d \in Domains} \cup
        {List(<<>>), List(<<<<"a">>, <<" ">>>>), List(<<<<"a">>, <<"a", ".", "b">>>>), Other})
    @@ "domain_regex" :> {String(<<"A", ".", "b", "|", "a", "b">>), List(<<<<"(">>>>)}
    @@ "include_subdomains" :> {Boolean(TRUE), Boolean(FALSE), Other}
    @@ "methods" :> {String(<<" ", "a", "N", "y">>), String(<<"G">>), List(<<>>),
                     List(<<<<"g", " ">>, <<"P">>>>), List(<<AnyMethod>>), List(<<<<" ">>>>)}
    @@ "pathname_regex" :> {String(<<>>), List(<<<<"a", Slash>>, <<"b">>>>), List(<<>>)}
    @@ "pathname_pattern" :> {String(<<Slash, ":", "a">>), List(<<<<Slash, "{">>>>),
                              List(<<<<Slash>>, <<Slash, "b", Slash, "*">>>>)}
    @@ "inject_headers" :> {List(<<Header(<<" ", "a">>, <<"b">>)>>), List(<<>>),
                            List(<<Header(<<"a", ":">>, <<"b">>)>>),
                            List(<<Header(<<"a">>, <<"\n">>)>>), String(<<"a">>)}
    @@ "stream" :> {Boolean(TRUE), Other}
    @@ "port" :> {Other}

-----------------------------------------------------------------------------
(* Patterns over letters, a dot, and the characters patterns are made of   *)

MCNameStart == {"a", "b"}
MCNameContinue == {"a", "b", "1"}
MCPatternPaths == {<<Slash>> \o rest : rest \in BoundedSeq({"a", ".", Slash}, 4)}

Segment(text, modifier, part, words) ==
    [text |-> text, modifier |-> modifier, grouped |-> FALSE, part |-> part, words |-> words]
Word(text, word) == Segment(text, "", "word", {word})
Grouped(word, modifier) ==
    [Segment(word, modifier, "word", {word}) EXCEPT !.grouped = TRUE]
AOrAA == {<<"a">>, <<"a", "a">>}

MCSegments ==
    {Word(<<"a">>, <<"a">>), Word(<<>>, <<>>), Word(<<Escape, ".">>, <<".">>),
     Segment(<<":", "a", "1", ".">>, "", "named file", {}),
     Segment(<<":", Quote, ".", Quote>>, "", "name", {}),
     Grouped(<<>>, "?"), Grouped(<<"a">>, "+"), Grouped(<<"a">>, "")}
    \cup {Segment(<<":", "a">>, m, "name", {}) : m \in {"", "?", "+", "*"}}
    \cup {Segment(<<":", "a", "(", "a", "|", "a", "a", ")">>, m, "word", AOrAA) : m \in {"", "+"}}
    \cup {Segment(<<"(", "a", "|", "a", "a", ")">>, m, "word", AOrAA) : m \in {"", "?"}}
    \cup {Segment(<<"*">>, m, "any", {}) : m \in {"", "?", "+"}}

MCSlips == {"a", Slash, ":", "*", "?", "{", "}", "(", ")", "[", Escape, Quote}
=============================================================================
