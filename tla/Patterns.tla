------------------------------ MODULE Patterns ------------------------------
(***************************************************************************)
(* What pathname patterns mean: an administrator writes the text of a      *)
(* pattern segment by segment, with a slip of the pen, and it is compiled  *)
(* and matched by PathnamePattern.                                         *)
(***************************************************************************)
EXTENDS PathnamePattern

CONSTANTS
    PatternPaths,     \* with which patterns are tried
    Segments,         \* of which patterns are written, see Text
    Slips,            \* characters typed by mistake
    MaxSegments, MaxSlipped  \* segments, and segments of a pattern with a slip

VARIABLES
    segments,   \* what the pattern is meant to be
    pattern     \* and its text

-----------------------------------------------------------------------------
(* Writing                                                                 *)

InitPattern == segments = <<>> /\ pattern = <<>>

(* A segment and the slash before it.                                      *)
Text(segment) ==
    LET suffix == IF segment.modifier = "" THEN <<>> ELSE <<segment.modifier>>
    IN  IF segment.grouped
        THEN <<"{", Slash>> \o segment.text \o <<"}">> \o suffix
        ELSE <<Slash>> \o segment.text \o suffix
Rendered(list) == FlattenSeq([i \in DOMAIN list |-> Text(list[i])])

WriteSegment(segment) ==
    /\ Len(segments) < MaxSegments /\ pattern = Rendered(segments)
    /\ segments' = Append(segments, segment)
    /\ pattern' = pattern \o Text(segment)

Slip(i, char) ==
    /\ segments # <<>> /\ pattern = Rendered(segments) /\ Len(segments) <= MaxSlipped
    /\ i \in 1..Len(pattern) + 1
    /\ pattern' = InsertAt(pattern, i, char)
    /\ UNCHANGED segments

WritePattern ==
    \/ \E segment \in Segments : WriteSegment(segment)
    \/ \E i \in 1..MaxSlipped * 16, char \in Slips : Slip(i, char)

-----------------------------------------------------------------------------
(* How often a segment may occur, and what it may be.                      *)
Occurs(modifier, n) ==
    CASE modifier = "" -> n = 1  [] modifier = "?" -> n <= 1
      [] modifier = "+" -> n >= 1  [] modifier = "*" -> TRUE
Fits(segment, part) ==
    \/ segment.part = "word" /\ part \in segment.words
    \/ segment.part = "name" /\ part # <<>>
    \/ segment.part = "named file" /\ Len(part) > 1 /\ Last(part) = "."

(* parts, the segments of a path, fit those of a pattern. A wildcard is    *)
(* one segment or more, even empty ones.                                   *)
RECURSIVE Fit(_, _)
Fit(list, parts) ==
    IF list = <<>> THEN parts = <<>>
    ELSE LET segment == Head(list)
         IN  \E n \in 0..Len(parts) :
               /\ IF segment.part = "any"
                  THEN n > 0 \/ segment.modifier \in {"?", "*"}
                  ELSE Occurs(segment.modifier, n)
                       /\ \A i \in 1..n : Fits(segment, parts[i])
               /\ Fit(Tail(list), SubSeq(parts, n + 1, Len(parts)))

Parts(path) == IF path = <<>> THEN <<>> ELSE Tail(SplitOn(path, Slash))
Paths == PatternPaths \cup {<<>>}

(* A pattern that is written without a slip is accepted and matches the    *)
(* whole of exactly those paths whose segments are what it names: a        *)
(* parameter is one segment, not an empty one; ?, + and * repeat a segment *)
(* with its slash; trailing slashes count; special characters may be       *)
(* escaped (parse_pathname_pattern_tokens, _tokens_to_regex_source).       *)
PatternsMeanTheirSegments ==
    LET compiled == CompilePathnamePattern(pattern)
    IN  pattern = Rendered(segments) =>
            /\ compiled.ok
            /\ \A path \in Paths :
                 FullMatch(compiled.value, path) <=> Fit(segments, Parts(path))

(* Without a wildcard, a repetition or a group in parentheses, whatever    *)
(* else is typed, a pattern that is accepted matches no path with more     *)
(* segments than it has slashes.                                           *)
SlashesIn(text) == Len(SelectSeq(text, LAMBDA c : c = Slash))
ParametersStayInTheirSegment ==
    LET compiled == CompilePathnamePattern(pattern)
    IN  ToSet(pattern) \cap {"*", "+", "("} = {} /\ compiled.ok =>
            \A path \in Paths : FullMatch(compiled.value, path) =>
                SlashesIn(path) <= SlashesIn(pattern)

(* The flat token sequences of a pattern match together what it matches    *)
(* (flatten_pathname_pattern_tokens, pathname_tokens_to_regex_source).     *)
FlatSequencesCoverThePattern ==
    LET tokens == ParsePathnamePatternTokens(pattern)
        flat == FlattenPathnamePatternTokens(tokens.value)
    IN  pattern = Rendered(segments) /\ flat.ok =>
            \A path \in Paths :
                FullMatch(TokensToRegexSource(tokens.value, TRUE), path) <=>
                    \E i \in DOMAIN flat.value :
                        FullMatch(TokensToRegexSource(flat.value[i], TRUE), path)
=============================================================================
