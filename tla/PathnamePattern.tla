-------------------------- MODULE PathnamePattern --------------------------
(***************************************************************************)
(* URLPattern pathnames (src/src/addon/pathname_pattern.py): the tokens of *)
(* a pattern, the regular expression they become, and what it matches.     *)
(* The host of a full URL is not examined further (urlsplit refuses        *)
(* brackets in it).                                                        *)
(*                                                                         *)
(* Texts are sequences of characters. The loops over an index are          *)
(* recursion over the text that is left. A regular expression is the       *)
(* sequence of its parts, a character each for literal text, so that the   *)
(* code's source[:-1] is Front. What Python's re makes of a part is        *)
(* Ends.                                                                   *)
(***************************************************************************)
EXTENDS Integers, Sequences, SequencesExt, FiniteSetsExt

CONSTANTS
    NameStart,      \* characters a parameter's name may start with
    NameContinue    \* characters it may go on with

Slash == "/"
Escape == "\\"
Quote == "\""
Modifiers == {"?", "+", "*"}

-----------------------------------------------------------------------------
(* Tokens, and the outcome of consuming some of a text                     *)

TextToken(value) == [kind |-> "text", value |-> value, modifier |-> ""]
(* regex holds the source in parentheses, or nothing.                      *)
ParamToken(name, regex, modifier) ==
    [kind |-> "param", name |-> name, regex |-> regex, modifier |-> modifier]
WildcardToken(modifier) == [kind |-> "wildcard", modifier |-> modifier]
RegexToken(source, modifier) ==
    [kind |-> "regex", regex |-> <<source>>, modifier |-> modifier]
GroupToken(tokens, modifier) ==
    [kind |-> "group", tokens |-> tokens, modifier |-> modifier]

(* A value and the text after it, or the ValueError.                       *)
Consumed(value, rest) == [ok |-> TRUE, value |-> value, rest |-> rest]
ValueError == [ok |-> FALSE, value |-> <<>>, rest |-> <<>>]

(* The characters before the first one that is not in allowed.             *)
SpanOf(text, allowed) ==
    Min({i \in 0..Len(text) : i = Len(text) \/ text[i + 1] \notin allowed})

(* str.split                                                               *)
RECURSIVE SplitOn(_, _)
SplitOn(text, char) ==
    LET i == SelectInSeq(text, LAMBDA c : c = char)
    IN  IF i = 0 THEN <<text>>
        ELSE <<SubSeq(text, 1, i - 1)>> \o SplitOn(SubSeq(text, i + 1, Len(text)), char)

ConsumeModifier(text) ==
    IF text # <<>> /\ Head(text) \in Modifiers
    THEN Consumed(Head(text), Tail(text))
    ELSE Consumed("", text)

RECURSIVE ConsumeQuoted(_, _)
ConsumeQuoted(text, name) ==
    IF text = <<>> THEN ValueError
    ELSE CASE Head(text) = Quote  -> Consumed(name, Tail(text))
           [] Head(text) = Escape ->
                IF Tail(text) = <<>> THEN ValueError
                ELSE ConsumeQuoted(Tail(Tail(text)), Append(name, text[2]))
           [] OTHER -> ConsumeQuoted(Tail(text), Append(name, Head(text)))

ConsumeName(text) ==
    CASE text # <<>> /\ Head(text) \in NameStart ->
           LET n == SpanOf(text, NameContinue)
           IN  Consumed(SubSeq(text, 1, n), SubSeq(text, n + 1, Len(text)))
      [] text # <<>> /\ Head(text) = Quote -> ConsumeQuoted(Tail(text), <<>>)
      [] OTHER -> Consumed(<<>>, text)

(* text is what follows the opening parenthesis.                           *)
RECURSIVE ConsumeRegex(_, _, _, _)
ConsumeRegex(text, depth, inClass, source) ==
    IF text = <<>> THEN ValueError
    ELSE LET char == Head(text)
             On(d, class) == ConsumeRegex(Tail(text), d, class, Append(source, char))
         IN  CASE char = Escape ->
                    IF Tail(text) = <<>> THEN ValueError
                    ELSE ConsumeRegex(Tail(Tail(text)), depth, inClass,
                                      source \o SubSeq(text, 1, 2))
               [] char = "[" -> On(depth, TRUE)
               [] char = "]" -> On(depth, FALSE)
               [] char = "(" /\ ~inClass -> On(depth + 1, FALSE)
               [] char = ")" /\ ~inClass ->
                    IF depth = 1 THEN Consumed(source, Tail(text))
                    ELSE On(depth - 1, FALSE)
               [] OTHER -> On(depth, inClass)

(* end is "}" inside a group and "" outside; path is the literal text      *)
(* that no token holds yet.                                                *)
RECURSIVE ConsumeUntil(_, _, _, _)
ConsumeUntil(text, end, path, output) ==
    LET written == IF path = <<>> THEN output ELSE Append(output, TextToken(path))
        (* the token with the modifier that follows it                     *)
        Write(Token(_), parsed) ==
            IF ~parsed.ok THEN ValueError
            ELSE LET modifier == ConsumeModifier(parsed.rest)
                 IN  ConsumeUntil(modifier.rest, end, <<>>,
                                  Append(written, Token(modifier.value)))
        char == Head(text)
        rest == Tail(text)
        name == ConsumeName(rest)
        hasRegex == name.rest # <<>> /\ Head(name.rest) = "("
        regex == IF hasRegex
                 THEN ConsumeRegex(Tail(name.rest), 1, FALSE, <<>>)
                 ELSE Consumed(<<>>, name.rest)
        source == ConsumeRegex(rest, 1, FALSE, <<>>)
        tokens == ConsumeUntil(rest, "}", <<>>, <<>>)
    IN  IF text = <<>> THEN IF end = "" THEN Consumed(written, <<>>) ELSE ValueError
        ELSE CASE char = end -> Consumed(written, rest)
               [] char = Escape ->
                    IF rest = <<>> THEN ValueError
                    ELSE ConsumeUntil(Tail(rest), end, Append(path, Head(rest)), output)
               [] char = ":" ->
                    IF ~name.ok \/ name.value = <<>> THEN ValueError
                    ELSE Write(LAMBDA m : ParamToken(name.value,
                                   IF hasRegex THEN <<regex.value>> ELSE <<>>, m), regex)
               [] char = "*" -> Write(WildcardToken, Consumed(<<>>, rest))
               [] char = "(" -> Write(LAMBDA m : RegexToken(source.value, m), source)
               [] char = "{" ->
                    IF end # "" THEN ValueError
                    ELSE Write(LAMBDA m : GroupToken(tokens.value, m), tokens)
               [] char \in {"}", "[", "]", "+", "?"} \ {end} -> ValueError
               [] OTHER -> ConsumeUntil(rest, end, Append(path, char), output)

ParsePathnamePatternTokens(pattern) == ConsumeUntil(pattern, "", <<>>, <<>>)

-----------------------------------------------------------------------------
(* From tokens to a regular expression                                     *)

Literal(text) == [i \in DOMAIN text |-> [op |-> "char", char |-> text[i]]]

(* Mutant: the slash is not part of what the modifier repeats.             *)
ModifiedBehindPrefix(body, modifier, prefix) ==
    Literal(prefix) \o (IF modifier = "" THEN body
                        ELSE <<[op |-> modifier, body |-> body]>>)
ModifiedRegexSource(body, modifier, prefix) ==
    LET combined == Literal(prefix) \o body
    IN  IF modifier = "" THEN combined ELSE <<[op |-> modifier, body |-> combined]>>

(* Mutant: a parameter without a regular expression is a wildcard.         *)
ParamIsWildcard(token) ==
    IF token.kind = "wildcard" \/ token.regex \in {<<>>, << <<>> >>}
    THEN [op |-> "any"]
    ELSE [op |-> "source", source |-> token.regex[1]]
Body(token) ==
    CASE token.kind = "wildcard" -> [op |-> "any"]
      [] token.kind = "param" /\ token.regex \in {<<>>, << <<>> >>} -> [op |-> "segment"]
      [] OTHER -> [op |-> "source", source |-> token.regex[1]]

RECURSIVE TokensToRegexSource(_, _)
TokensToRegexSource(tokens, automaticPrefix) ==
    IF tokens = <<>> THEN <<>>
    ELSE
    LET token == Last(tokens)
        source == TokensToRegexSource(Front(tokens), automaticPrefix)
        takesSlash ==
            /\ automaticPrefix /\ token.modifier # "" /\ Front(tokens) # <<>>
            /\ LET previous == Last(Front(tokens))
               IN  previous.kind = "text" /\ Last(previous.value) = Slash
    IN  CASE token.kind = "text" -> source \o Literal(token.value)
          [] token.kind = "group" ->
               source \o ModifiedRegexSource(TokensToRegexSource(token.tokens, FALSE),
                                             token.modifier, <<>>)
          [] takesSlash ->
               Front(source) \o ModifiedRegexSource(<<Body(token)>>, token.modifier, <<Slash>>)
          [] OTHER -> source \o ModifiedRegexSource(<<Body(token)>>, token.modifier, <<>>)

IsLiteralPathnamePattern(pattern) ==
    ToSet(pattern) \cap {":", "*", "{", "}", "(", ")", Escape} = {}

(* A scheme, "://" and a network location.                                 *)
IsFullUrlPathnamePattern(pattern) ==
    LET n == SpanOf(pattern, NameContinue)
    IN  /\ n > 0 /\ Len(pattern) > n + 3 /\ Head(pattern) \in NameStart
        /\ SubSeq(pattern, n + 1, n + 3) = <<":", Slash, Slash>>
        /\ pattern[n + 4] \notin {Slash, "?"}

(* The regular expression, as value, unless the pattern is refused.        *)
CompilePathnamePattern(pattern) ==
    LET tokens == ParsePathnamePatternTokens(pattern)
    IN  CASE IsFullUrlPathnamePattern(pattern) -> ValueError
          [] IsLiteralPathnamePattern(pattern) -> Consumed(Literal(pattern), <<>>)
          [] tokens.ok -> Consumed(TokensToRegexSource(tokens.value, TRUE), <<>>)
          [] OTHER -> ValueError

(* The sequences with a group, and without it where it is optional.        *)
(* Mutant: the group is never left out.                                    *)
AlwaysIncluded(included, sequences, modifier) == included
WithGroup(included, sequences, modifier) ==
    IF modifier = "?" THEN included \o sequences ELSE included

(* The expansion of optional groups; ok is FALSE where one repeats. The    *)
(* limit of 256 combinations is beyond the patterns that are checked.      *)
RECURSIVE FlattenPathnamePatternTokens(_)
FlattenPathnamePatternTokens(tokens) ==
    IF tokens = <<>> THEN Consumed(<< <<>> >>, <<>>)
    ELSE
    LET token == Last(tokens)
        front == FlattenPathnamePatternTokens(Front(tokens))
        inner == FlattenPathnamePatternTokens(token.tokens)
        included == FlattenSeq([i \in DOMAIN front.value |->
                        [j \in DOMAIN inner.value |-> front.value[i] \o inner.value[j]]])
    IN  CASE ~front.ok -> ValueError
          [] token.kind # "group" ->
               Consumed([i \in DOMAIN front.value |-> Append(front.value[i], token)], <<>>)
          [] token.modifier \in {"+", "*"} \/ ~inner.ok -> ValueError
          [] OTHER -> Consumed(WithGroup(included, front.value, token.modifier), <<>>)

-----------------------------------------------------------------------------
(* What Python's re does with the expression. A source in parentheses is   *)
(* alternatives of literal text.                                           *)

Alternatives(source) == ToSet(SplitOn(source, "|"))

(* Where a match of the parts may end in path if it starts at one of from. *)
RECURSIVE Ends(_, _, _), Repeated(_, _, _)
Ends(source, path, from) ==
    IF source = <<>> \/ from = {} THEN from
    ELSE
    LET part == Head(source)
        Word(word) == {i \in Len(word)..Len(path) :
                         /\ i - Len(word) \in from
                         /\ SubSeq(path, i - Len(word) + 1, i) = word}
        to == CASE part.op = "char" -> Word(<<part.char>>)
                [] part.op = "any" -> Min(from)..Len(path)
                [] part.op = "segment" ->
                     {j \in 1..Len(path) : \E i \in from :
                        i < j /\ \A k \in i + 1..j : path[k] # Slash}
                [] part.op = "source" ->
                     UNION {Word(word) : word \in Alternatives(part.source)}
                [] part.op = "?" -> from \cup Ends(part.body, path, from)
                [] part.op = "*" -> Repeated(part.body, path, from)
                [] part.op = "+" -> Repeated(part.body, path, Ends(part.body, path, from))
    IN  Ends(Tail(source), path, to)

Repeated(body, path, from) ==
    LET more == from \cup Ends(body, path, from)
    IN  IF more = from THEN from ELSE Repeated(body, path, more)

FullMatch(source, path) == Len(path) \in Ends(source, path, {0})
Search(source, text) == \E i \in 0..Len(text) : Ends(source, text, {i}) # {}

CompileRegex(text) ==
    IF "(" \in ToSet(text) THEN ValueError
    ELSE Consumed(<<[op |-> "source", source |-> text]>>, <<>>)
=============================================================================
