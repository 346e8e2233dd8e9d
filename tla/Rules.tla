------------------------------- MODULE Rules -------------------------------
(***************************************************************************)
(* Allow rules (src/src/addon/rules.py): what a rule table is accepted as, *)
(* and the requests it then matches. An administrator writes a table key   *)
(* by key.                                                                 *)
(*                                                                         *)
(* A TOML value is a string, a list or something else; strings are         *)
(* sequences of characters. An item that is not a string is refused like   *)
(* a blank one, which stands for it. An error anywhere refuses the file,   *)
(* so that the order of the checks does not matter. What Python's re and   *)
(* PathnamePattern compile a text to, as Accepted(source) or Refused,      *)
(* and what it matches, are parameters.                                    *)
(***************************************************************************)
EXTENDS Integers, Sequences, SequencesExt, FiniteSetsExt

CONSTANTS
    Values,           \* what an administrator may write for a key
    Characters,       \* that texts are made of
    Upper, Lower,     \* a letter's other case, functions on characters
    HeaderNameChars,
    Labels,           \* of which the hosts of requests are made
    RequestMethods, RequestPaths,
    ReCompile(_), ReCompileIgnoringCase(_),  \* re.compile
    CompilePattern(_),                       \* compile_pathname_pattern
    ReSearch(_, _), ReFullMatch(_, _),       \* re.search and re.fullmatch
    MaxKeys, MaxLabels

VARIABLE table  \* an [[allow]] table: the keys that are set, and their values

Blank == " "  \* any white space

(* Letters have two cases. *)
ASSUME CaseAssumption ==
    /\ \A letter \in DOMAIN Upper :
         /\ letter \notin DOMAIN Lower \cup {Blank, "."}
         /\ Upper[letter] \in DOMAIN Lower \ {Blank, "."}
         /\ Lower[Upper[letter]] = letter
    /\ "." \notin DOMAIN Lower

(* A label is a lower case word. *)
ASSUME LabelsAssumption ==
    \A label \in Labels :
        /\ label \in Seq(Characters) /\ label # <<>>
        /\ ToSet(label) \cap ({Blank, "."} \cup DOMAIN Lower) = {}

(* A string is one text, and a boolean has a value. *)
ASSUME ValuesAssumption ==
    \A key \in DOMAIN Values : \A value \in Values[key] :
        /\ value.type = "string" => Len(value.items) = 1
        /\ value.type = "boolean" => value.value \in BOOLEAN
        /\ key # "inject_headers" => value.items \in Seq(Seq(Characters))

ASSUME BoundsAssumption == MaxKeys \in Nat /\ MaxLabels \in Nat

-----------------------------------------------------------------------------
(* Names and methods                                                       *)

RStrip(text, char) ==
    SubSeq(text, 1, Max({0} \cup {i \in DOMAIN text : text[i] # char}))
Strip(text) ==
    LET kept == {i \in DOMAIN text : text[i] # Blank}
    IN  IF kept = {} THEN <<>> ELSE SubSeq(text, Min(kept), Max(kept))
Cased(case, text) == [i \in DOMAIN text |->
    IF text[i] \in DOMAIN case THEN case[text[i]] ELSE text[i]]

NormalizeHost(host) == Cased(Lower, RStrip(Strip(host), "."))
NormalizeMethod(method) == Cased(Upper, Strip(method))

AnyMethod == <<"A", "N", "Y">>
DefaultAllowedMethods == {<<"G">>, <<"H">>}

RequestPathname(path) == IF path = <<>> THEN <<"/">> ELSE path

-----------------------------------------------------------------------------
(* Parsing a table                                                         *)

String(text) == [type |-> "string", items |-> <<text>>]
List(items) == [type |-> "list", items |-> items]
Boolean(value) == [type |-> "boolean", items |-> <<>>, value |-> value]

(* The outcome of parsing: a value, or a ValueError.                       *)
Accepted(value) == [ok |-> TRUE, value |-> value]
Refused == [ok |-> FALSE, value |-> <<>>]

IsBlank(text) == Strip(text) = <<>>

(* Whether get_toml_array returns the strings of a value or refuses it.    *)
(* Mutant: a list may be empty.                                            *)
HasAnyList(value) ==
    \/ value.type = "string"
    \/ value.type = "list" /\ \A i \in DOMAIN value.items : ~IsBlank(value.items[i])
HasTomlArray(value) ==
    \/ value.type = "string"
    \/ /\ value.type = "list" /\ value.items # <<>>
       /\ \A i \in DOMAIN value.items : ~IsBlank(value.items[i])

(* A filter of either kind is compiled and matched in its own way.         *)
Compiled(key, source) ==
    IF key = "pathname_regex" THEN ReCompile(source) ELSE CompilePattern(source)

ParsePathnameFilterValue(value, key) ==
    LET compiled == {Compiled(key, source) : source \in ToSet(value.items)}
    IN  IF HasTomlArray(value) /\ \A result \in compiled : result.ok
        THEN Accepted({[usesSearch |-> key = "pathname_regex", source |-> result.value] :
                         result \in compiled})
        ELSE Refused

FiltersIfSet(rule, key) ==
    IF key \in DOMAIN rule THEN ParsePathnameFilterValue(rule[key], key) ELSE Accepted({})

(* Mutant: patterns are read only where there is no pathname_regex.        *)
ParseEitherFilter(rule) ==
    IF "pathname_regex" \in DOMAIN rule THEN FiltersIfSet(rule, "pathname_regex")
    ELSE FiltersIfSet(rule, "pathname_pattern")
ParsePathnameFilters(rule) ==
    LET regexes == FiltersIfSet(rule, "pathname_regex")
        patterns == FiltersIfSet(rule, "pathname_pattern")
    IN  IF regexes.ok /\ patterns.ok
        THEN Accepted(regexes.value \cup patterns.value)
        ELSE Refused

ParseMethods(rule) ==
    IF "methods" \notin DOMAIN rule THEN Accepted(DefaultAllowedMethods)
    ELSE
    LET value == rule["methods"]
        methods == {NormalizeMethod(value.items[i]) : i \in DOMAIN value.items}
    IN  CASE value.type = "string" /\ methods = {AnyMethod} -> Accepted({AnyMethod})
          [] value.type = "list" /\ methods # {} /\ methods \cap {AnyMethod, <<>>} = {} ->
               Accepted(methods)
          [] OTHER -> Refused

(* A header item has its keys, and a name and a value.                     *)
IsInjectedHeader(header) ==
    /\ header.keys = {"name", "value"}
    /\ ~IsBlank(header.name) /\ ToSet(Strip(header.name)) \subseteq HeaderNameChars
    /\ ToSet(header.value) \cap {"\r", "\n"} = {}

ParseInjectHeaders(rule) ==
    IF "inject_headers" \notin DOMAIN rule THEN Accepted(<<>>)
    ELSE
    LET value == rule["inject_headers"]
    IN  IF /\ value.type = "list" /\ value.items # <<>>
           /\ \A i \in DOMAIN value.items : IsInjectedHeader(value.items[i])
        THEN Accepted([i \in DOMAIN value.items |->
                         <<Strip(value.items[i].name), value.items[i].value>>])
        ELSE Refused

AllowRuleKeys == {"domain", "domain_regex", "include_subdomains", "inject_headers",
                  "methods", "pathname_regex", "pathname_pattern", "stream"}

(* A boolean that is FALSE if its key is not set.                          *)
IsBooleanIfSet(rule, key) == key \in DOMAIN rule => rule[key].type = "boolean"
Flag(rule, key) == key \in DOMAIN rule /\ rule[key].value

ParseDomainValue(rule) ==
    LET value == rule["domain"]
    IN  IF HasTomlArray(value)
        THEN Accepted([i \in DOMAIN value.items |-> NormalizeHost(value.items[i])])
        ELSE Refused

ParseDomainRegexValue(rule) ==
    LET value == rule["domain_regex"]
        patterns == [i \in DOMAIN value.items |-> ReCompileIgnoringCase(value.items[i])]
    IN  IF HasTomlArray(value) /\ \A i \in DOMAIN patterns : patterns[i].ok
        THEN Accepted([i \in DOMAIN patterns |-> patterns[i].value])
        ELSE Refused

(* One table of parse_rules_text: a DomainRule, unless it is refused.      *)
ParseRule(rule) ==
    LET hasDomain == "domain" \in DOMAIN rule
        hasRegex == "domain_regex" \in DOMAIN rule
        allowedKeys == AllowRuleKeys \
            (IF hasDomain THEN {"domain_regex"} ELSE {"domain", "include_subdomains"})
        domain == IF hasDomain THEN ParseDomainValue(rule)
                               ELSE ParseDomainRegexValue(rule)
        methods == ParseMethods(rule)
        filters == ParsePathnameFilters(rule)
        headers == ParseInjectHeaders(rule)
    IN  IF /\ DOMAIN rule \subseteq allowedKeys
           /\ hasDomain # hasRegex
           /\ methods.ok /\ filters.ok /\ headers.ok
           /\ IsBooleanIfSet(rule, "stream")
           /\ IsBooleanIfSet(rule, "include_subdomains")
           /\ domain.ok
        THEN Accepted([domain |-> domain.value, isRegex |-> hasRegex,
                       includeSubdomains |-> Flag(rule, "include_subdomains"),
                       methods |-> methods.value, pathnameFilters |-> filters.value,
                       injectHeaders |-> headers.value, stream |-> Flag(rule, "stream")])
        ELSE Refused

-----------------------------------------------------------------------------
(* Matching a request                                                      *)

(* Mutant: a subdomain is a host that ends with the domain.                *)
MatchesSuffix(rule, host) ==
    LET normalized == NormalizeHost(host)
    IN  \E i \in DOMAIN rule.domain :
          IF rule.isRegex THEN ReSearch(rule.domain[i], normalized)
          ELSE \/ normalized = NormalizeHost(rule.domain[i])
               \/ rule.includeSubdomains
                  /\ IsSuffix(NormalizeHost(rule.domain[i]), normalized)
MatchesHost(rule, host) ==
    LET normalized == NormalizeHost(host)
    IN  \E i \in DOMAIN rule.domain :
          IF rule.isRegex THEN ReSearch(rule.domain[i], normalized)
          ELSE LET domain == NormalizeHost(rule.domain[i])
               IN  \/ normalized = domain
                   \/ rule.includeSubdomains /\ IsSuffix(<<".">> \o domain, normalized)

MethodMatches(allowedMethods, method) ==
    AnyMethod \in allowedMethods \/ NormalizeMethod(method) \in allowedMethods

FilterMatches(filter, pathname) ==
    IF filter.usesSearch THEN ReSearch(filter.source, pathname)
    ELSE ReFullMatch(filter.source, pathname)

Matches(rule, host, method, path) ==
    /\ MethodMatches(rule.methods, method)
    /\ MatchesHost(rule, host)
    /\ \/ rule.pathnameFilters = {}
       \/ \E filter \in rule.pathnameFilters :
            FilterMatches(filter, RequestPathname(path))

-----------------------------------------------------------------------------
(* Writing                                                                 *)

Init == table = <<>>

SetKey(key, value) ==
    /\ key \notin DOMAIN table /\ Cardinality(DOMAIN table) < MaxKeys
    /\ table' = [k \in DOMAIN table \cup {key} |-> IF k = key THEN value ELSE table[k]]

Next == \E key \in DOMAIN Values : \E value \in Values[key] : SetKey(key, value)

Spec == Init /\ [][Next]_table

-----------------------------------------------------------------------------
(* What tables mean                                                        *)

(* The rule of a table that is accepted.                                   *)
RulesOf(t) == {parsed.value : parsed \in {p \in {ParseRule(t)} : p.ok}}

(* Types, and what an accepted rule is: of a host or a regular expression  *)
(* at least, whose kind the first of them tells; for a method; headers     *)
(* have a name and stay on their line (DomainRule, parse_rules_text).      *)
TypeOK ==
    /\ DOMAIN table \subseteq DOMAIN Values /\ Cardinality(DOMAIN table) <= MaxKeys
    /\ \A key \in DOMAIN table : table[key] \in Values[key]
    /\ \A rule \in RulesOf(table) :
         /\ DOMAIN rule.domain # {}
         /\ rule.isRegex \in BOOLEAN /\ rule.stream \in BOOLEAN
         /\ rule.includeSubdomains \in BOOLEAN
         /\ rule.isRegex => ~rule.includeSubdomains
         /\ rule.methods # {} /\ <<>> \notin rule.methods
         /\ AnyMethod \in rule.methods => rule.methods = {AnyMethod}
         /\ \A i \in DOMAIN rule.injectHeaders :
              /\ rule.injectHeaders[i][1] # <<>>
              /\ ToSet(rule.injectHeaders[i][2]) \cap {"\r", "\n"} = {}

(* Lists of labels are hosts, in any case, with a root dot or without.     *)
HostLabels == BoundedSeq(Labels, MaxLabels) \ {<<>>}
Dotted(labels) == FlattenSeq([i \in DOMAIN labels |-> <<".">> \o labels[i]])
Host(labels) == Tail(Dotted(labels))
Spellings(labels) ==
    LET host == Host(labels)
    IN  {host, Cased(Upper, host), Append(host, "."), Append(Cased(Upper, host), ".")}

(* The host of a domain, normalized as it is parsed and as it is matched   *)
(* (to the second, "b. ." is b).                                           *)
HostOf(domain) == NormalizeHost(NormalizeHost(domain))

(* A domain rule matches the hosts whose labels are those of a domain, and *)
(* with include_subdomains those that end with them: never a host that     *)
(* only ends with the same characters, whatever the spelling of either     *)
(* (matches_host, normalize_host).                                         *)
HostsMatchByLabel ==
    \A rule \in RulesOf(table) : ~rule.isRegex =>
        \A labels \in HostLabels : \A host \in Spellings(labels) :
            MatchesHost(rule, host) <=>
                \E domain \in ToSet(table["domain"].items) :
                    \E k \in 0..Len(labels) - 1 :
                        /\ k = 0 \/ Flag(table, "include_subdomains")
                        /\ Host(SubSeq(labels, k + 1, Len(labels))) = HostOf(domain)

(* The requests a table lets through; one that is refused, none.           *)
Allowed(t) ==
    LET rule == ParseRule(t)
        hosts == {Host(labels) : labels \in HostLabels}
    IN  IF ~rule.ok THEN {}
        ELSE {request \in hosts \X RequestMethods \X RequestPaths :
                Matches(rule.value, request[1], request[2], request[3])}

(* A key that is added to an accepted table lets more requests through     *)
(* only if it is include_subdomains, methods, or a second kind of pathname *)
(* filter; methods lets other methods through, but to the same hosts and   *)
(* paths, and the others take nothing away; stream and inject_headers      *)
(* change nothing. A key that is not accepted takes everything away        *)
(* (parse_rules_text, matches).                                            *)
PathnameKeys == {"pathname_regex", "pathname_pattern"}
Widens(t, key) ==
    \/ key = "include_subdomains"
    \/ key \in PathnameKeys /\ PathnameKeys \ {key} \subseteq DOMAIN t
ByDefault(requests) ==
    {<<request[1], method, request[3]>> : request \in requests,
        method \in {m \in RequestMethods : NormalizeMethod(m) \in DefaultAllowedMethods}}
KeysNarrow ==
    [][\A key \in DOMAIN table' \ DOMAIN table :
         ParseRule(table).ok =>
           LET before == Allowed(table)  after == Allowed(table')
           IN  \/ after = {}
               \/ Widens(table, key) /\ before \subseteq after
               \/ key \in {"stream", "inject_headers"} /\ after = before
               \/ key \in PathnameKeys /\ ~Widens(table, key) /\ after \subseteq before
               \/ key = "methods" /\ ByDefault(after) \subseteq before
      ]_table
=============================================================================
