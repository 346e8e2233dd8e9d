---------------------------- MODULE AddonProofs ----------------------------
(* Theorems about Addon, for all hosts, methods, paths and rule lists.     *)
EXTENDS Addon, WellFoundedInduction, TLAPS

USE AddonAssumption DEF AddonAssumption

(* A write is under way only in a running addon, and writes the option.    *)
WriteInv == pending # NoText => phase = "running" /\ option = pending

(* The loaded rules are those of the files, and the option is the text of  *)
(* the web file, unless they were edited since.                            *)
RulesCurrent ==
    phase # "down" /\ pending = NoText /\ "reload" \notin edited /\ Parses(files)
        => rules = LoadedRules(files)
OptionCurrent ==
    phase # "down" /\ pending = NoText /\ "option" \notin edited /\ option # Broken
        /\ files.web # Broken => RulesIn(files.web) = option

IInv ==
    /\ TypeOK
    /\ phase \in {"down", "loaded", "running"}
    /\ WriteInv /\ RulesCurrent /\ OptionCurrent

Names == {"web", "examples"}

-----------------------------------------------------------------------------
(* Lemmas about rules                                                      *)

(* What load_rules loads is rules.                                         *)
LEMMA LoadedAreRules ==
  ASSUME NEW fs \in [Names -> {Absent} \cup Texts], Parses(fs)
  PROVE  LoadedRules(fs) \in Seq(AllowRules)
<1>1. \A name \in Names : RulesIn(fs[name]) \in Seq(AllowRules)
  BY DEF Parses, RulesIn, Texts, Names
<1> QED
  BY <1>1 DEF LoadedRules, Names

(* is_allowed allows only what a rule matches.                             *)
LEMMA AllowedMatches ==
  ASSUME rules \in Seq(AllowRules), NEW request, IsAllowed(request).allowed
  PROVE  \E i \in DOMAIN rules : Matches(rules[i], request)
<1> DEFINE matching == {i \in 1..Len(rules) : Matches(rules[i], request)}
<1>1. SelectInSeq(rules, LAMBDA rule : Matches(rule, request)) # 0
  BY DEF IsAllowed
<1>2. matching # {}
  BY <1>1 DEF SelectInSeq
<1> QED
  BY <1>2

(* A set of positions has a first one.                                     *)
LEMMA FirstExists ==
  ASSUME NEW S \in SUBSET Nat, S # {}
  PROVE  Min(S) \in S
<1> DEFINE R == OpToRel(<, Nat)
<1>1. PICK x \in S : \A y \in S : <<y, x>> \notin R
  <2>1. IsWellFoundedOn(R, Nat)
    BY NatLessThanWellFounded
  <2> HIDE DEF R
  <2> QED
    BY <2>1, WFMin
<1>2. \A y \in S : x <= y
  <2> SUFFICES ASSUME NEW y \in S PROVE x <= y
    OBVIOUS
  <2>1. ~(y < x)
    BY <1>1 DEF OpToRel
  <2> QED
    BY <2>1
<1> QED
  BY <1>2 DEF Min

(* ... and answers with headers of a rule, if any.                         *)
LEMMA AnswerTypes ==
  ASSUME rules \in Seq(AllowRules), NEW request
  PROVE  /\ IsAllowed(request).headers \in Headers \cup {NoHeaders}
         /\ IsAllowed(request).stream \in BOOLEAN
<1> DEFINE matching == {i \in 1..Len(rules) : Matches(rules[i], request)}
           first == SelectInSeq(rules, LAMBDA rule : Matches(rule, request))
<1>1. first = IF matching # {} THEN Min(matching) ELSE 0
  BY DEF SelectInSeq
<1>2. first = 0 \/ first \in 1..Len(rules)
  <2>1. matching \in SUBSET Nat /\ matching \subseteq 1..Len(rules)
    OBVIOUS
  <2> HIDE DEF first, matching
  <2>2. matching # {} => Min(matching) \in matching
    BY <2>1, FirstExists
  <2> QED
    BY <1>1, <2>1, <2>2
<1>3. first # 0 => rules[first] \in AllowRules
  BY <1>2
<1> HIDE DEF first
<1>4. first # 0 => rules[first].headers \in Headers \cup {NoHeaders}
                     /\ rules[first].stream \in BOOLEAN
  BY <1>3 DEF AllowRules
<1> QED
  BY <1>4 DEF IsAllowed, first

-----------------------------------------------------------------------------
(* The flow history                                                        *)

(* Each action makes a step of FlowHistory or leaves its variables alone.  *)
LEMMA HistoryStep ==
  ASSUME [Next]_vars
  PROVE  [History!Next]_(History!vars)
<1> USE DEF History!Next, History!vars, history
<1>1. CASE Load
  BY <1>1 DEF Load
<1>2. CASE Running
  BY <1>2 DEF Running
<1>3. CASE Request \/ DnsRequest
  BY <1>3 DEF Request, AllowAll, Raise, Decide, DnsRequest
<1>4. CASE Exit
  BY <1>4 DEF Exit
<1>5. CASE EnsureWebRulesFile \/ ConfigureText \/ WritePart \/ FinishWrite \/ WriteFails
           \/ ConfigureAllowAll \/ ResponseHeaders \/ EditRules
  BY <1>5 DEF EnsureWebRulesFile, ConfigureText, Configure, WritePart, FinishWrite,
              WriteFails, ConfigureAllowAll, ResponseHeaders, EditRules
<1>6. CASE UNCHANGED vars
  BY <1>6 DEF vars
<1> QED
  BY <1>1, <1>2, <1>3, <1>4, <1>5, <1>6 DEF Next

(* Flows are proxied, and the process ends, in a phase of their own.       *)
LEMMA PhaseStep ==
  ASSUME IInv, [Next]_vars
  PROVE  phase' \in {"down", "loaded", "running"}
BY HistoryStep DEF IInv, History!Next, History!vars, History!Load, History!Running,
                   History!ProxyRequest, History!ProxyUncounted, History!Exit

-----------------------------------------------------------------------------
(* The invariant                                                           *)

LEMMA InitInv == Init => IInv
<1> SUFFICES ASSUME Init PROVE IInv
  OBVIOUS
<1>1. files \in [Names -> {Absent} \cup Texts]
  BY DEF Init, Texts, Names
<1>2. <<>> \in Seq(AllowRules) /\ <<>> \in Texts
  BY DEF Texts
<1>3. flow \in [status : {"none", "sent", "answered"}, request : Requests \cup {NoRequest},
               headers : Headers \cup {NoHeaders}, stream : BOOLEAN, rules : Seq(AllowRules)]
  BY <1>2 DEF Init, NoFlow
<1>4. TypeOK
  BY <1>1, <1>2, <1>3 DEF Init, TypeOK, Names
<1>5. phase = "down" /\ pending = NoText
  BY DEF Init, History!Init
<1> QED
  BY <1>4, <1>5 DEF IInv, WriteInv, RulesCurrent, OptionCurrent

(* reload_rules: the rules are those of the files.                         *)
LEMMA ReloadInv ==
  ASSUME IInv, NEW fs \in [Names -> {Absent} \cup Texts], Reload(fs)
  PROVE  /\ rules' \in Seq(AllowRules)
         /\ Parses(fs) => rules' = LoadedRules(fs)
         /\ edited' \subseteq {"reload", "option"} /\ "reload" \notin edited'
         /\ "option" \in edited' <=> "option" \in edited
BY LoadedAreRules DEF Reload, IInv, TypeOK

(* The web file with another text.                                         *)
LEMMA WebFile ==
  ASSUME IInv, NEW text \in Texts, NEW fs, fs = [files EXCEPT !.web = text]
  PROVE  /\ fs \in [Names -> {Absent} \cup Texts]
         /\ fs.web = text /\ fs.examples = files.examples
         /\ text # Broken /\ Parses(files) => Parses(fs)
BY DEF IInv, TypeOK, Names, Parses

LEMMA StartInv ==
  ASSUME IInv, EnsureWebRulesFile \/ Load \/ Running \/ Exit
  PROVE  IInv'
<1> files \in [Names -> {Absent} \cup Texts]
  BY DEF IInv, TypeOK, Names
<1> Next
  BY DEF Next
<1>p. phase' \in {"down", "loaded", "running"}
  BY PhaseStep
<1>e. <<>> \in Seq(AllowRules) /\ <<>> \in Texts
  BY DEF Texts
<1>1. CASE EnsureWebRulesFile
  <2>1. files' \in [Names -> {Absent} \cup Texts]
    BY <1>1, <1>e, WebFile DEF EnsureWebRulesFile
  <2> QED
    BY <1>1, <1>p, <2>1 DEF EnsureWebRulesFile, IInv, TypeOK, Names, WriteInv, RulesCurrent,
                            OptionCurrent
<1>2. CASE Load
  <2>1. phase = "down" /\ phase' = "loaded"
    BY <1>2 DEF Load, History!Load
  <2>2. pending = NoText /\ pending' = NoText
    BY <1>2, <2>1 DEF Load, IInv, WriteInv
  <2>3. rules' \in Seq(AllowRules) /\ option' \in Texts
    <3>1. rules' \in Seq(AllowRules)
      BY <1>2, <1>e, LoadedAreRules DEF Load
    <3>2. option' \in Texts
      BY <1>2, <1>e DEF Load, RulesIn, Texts, Names
    <3> QED
      BY <3>1, <3>2
  <2>4. TypeOK'
    BY <1>2, <2>2, <2>3 DEF Load, IInv, TypeOK
  <2>5. RulesCurrent' /\ OptionCurrent'
    BY <1>2 DEF Load, RulesCurrent, OptionCurrent
  <2> QED
    BY <1>p, <2>2, <2>4, <2>5 DEF IInv, WriteInv
<1>3. CASE Running
  <2>1. Reload(files) /\ phase = "loaded" /\ pending = NoText
    BY <1>3 DEF Running, Idle, History!Running
  <2>2. /\ rules' \in Seq(AllowRules)
        /\ Parses(files) => rules' = LoadedRules(files)
        /\ edited' \subseteq {"reload", "option"} /\ "reload" \notin edited'
        /\ "option" \in edited' <=> "option" \in edited
    BY <2>1, ReloadInv
  <2>3. TypeOK'
    BY <1>3, <2>2 DEF Running, IInv, TypeOK
  <2>4. WriteInv' /\ RulesCurrent'
    BY <1>3, <2>1, <2>2 DEF Running, WriteInv, RulesCurrent
  <2>5. OptionCurrent'
    BY <1>3, <2>1, <2>2 DEF Running, IInv, OptionCurrent
  <2> QED
    BY <1>p, <2>3, <2>4, <2>5 DEF IInv
<1>4. CASE Exit
  <2>1. phase' = "down" /\ pending' = NoText
    BY <1>4 DEF Exit, History!Exit
  <2>2. flow' \in [status : {"none", "sent", "answered"}, request : Requests \cup {NoRequest},
                  headers : Headers \cup {NoHeaders}, stream : BOOLEAN,
                  rules : Seq(AllowRules)]
    BY <1>4, <1>e DEF Exit, NoFlow
  <2>3. TypeOK'
    BY <1>4, <1>e, <2>1, <2>2 DEF Exit, IInv, TypeOK
  <2> QED
    BY <1>p, <2>1, <2>3 DEF IInv, WriteInv, RulesCurrent, OptionCurrent
<1> QED
  BY <1>1, <1>2, <1>3, <1>4

(* A reload of files that did not change, when no write is under way.      *)
LEMMA ReloadOnly ==
  ASSUME IInv, Idle, Reload(files), UNCHANGED <<files, pending, phase>>,
         TypeOK', OptionCurrent'
  PROVE  IInv'
<1>1. files \in [Names -> {Absent} \cup Texts]
  BY DEF IInv, TypeOK, Names
<1>2. /\ Parses(files) => rules' = LoadedRules(files)
      /\ phase' \in {"down", "loaded", "running"}
  BY <1>1, ReloadInv DEF IInv
<1> QED
  BY <1>2 DEF IInv, Idle, WriteInv, RulesCurrent

LEMMA ConfigureInv ==
  ASSUME IInv, ConfigureText
  PROVE  IInv'
<1>1. PICK text \in IF phase = "running" THEN RuleLists \cup {Broken} ELSE {option} :
             Configure(text)
  BY DEF ConfigureText
<1>2. /\ text \in Texts /\ Idle /\ option' = text /\ pending = NoText
      /\ files \in [Names -> {Absent} \cup Texts]
  BY <1>1 DEF Configure, Idle, IInv, TypeOK, Names, Texts
<1>3. CASE Persists(text)
  <2>1. /\ pending' = text /\ text \in RuleLists /\ phase = "running" /\ phase' = phase
        /\ files' = [files EXCEPT !.web = <<>>] /\ UNCHANGED <<rules, edited>>
    BY <1>1, <1>2, <1>3 DEF Configure, Persists, Texts
  <2>2. files' \in [Names -> {Absent} \cup Texts]
    BY <2>1, WebFile DEF Texts
  <2>3. TypeOK'
    BY <1>1, <1>2, <2>1, <2>2 DEF Configure, IInv, TypeOK, Names
  <2> QED
    BY <1>2, <2>1, <2>3 DEF IInv, WriteInv, RulesCurrent, OptionCurrent
<1>4. CASE ~Persists(text)
  <2>1. Reload(files) /\ UNCHANGED <<files, pending, phase>>
    BY <1>1, <1>4 DEF Configure
  <2>2. /\ rules' \in Seq(AllowRules) /\ edited' \subseteq {"reload", "option"}
        /\ "option" \in edited' <=> "option" \in edited
    BY <1>2, <2>1, ReloadInv
  <2>3. TypeOK'
    BY <1>1, <1>2, <2>1, <2>2 DEF Configure, IInv, TypeOK
  <2>4. OptionCurrent'
    <3>1. text = Broken \/ text = option
      BY <1>1, <1>2, <1>4 DEF Persists
    <3> QED
      BY <1>2, <2>1, <2>2, <3>1 DEF IInv, OptionCurrent
  <2> QED
    BY <1>2, <2>1, <2>3, <2>4, ReloadOnly
<1> QED
  BY <1>3, <1>4

LEMMA WriteStepInv ==
  ASSUME IInv, WritePart \/ FinishWrite \/ WriteFails
  PROVE  IInv'
<1>1. CASE FinishWrite
  <2>1. /\ pending \in RuleLists /\ option = pending /\ pending' = NoText
        /\ files' = [files EXCEPT !.web = pending]
    BY <1>1 DEF FinishWrite, IInv, TypeOK, WriteInv
  <2>2. /\ files' \in [Names -> {Absent} \cup Texts] /\ files'.web = pending
    BY <2>1, WebFile DEF Texts
  <2>3. rules' \in Seq(AllowRules)
    BY <1>1, <2>2, LoadedAreRules DEF FinishWrite, IInv, TypeOK
  <2>4. TypeOK'
    BY <1>1, <2>1, <2>2, <2>3 DEF FinishWrite, IInv, TypeOK, Names
  <2>5. RulesIn(files'.web) = option'
    BY <1>1, <2>1, <2>2 DEF FinishWrite, RulesIn
  <2> QED
    BY <1>1, <2>1, <2>4, <2>5 DEF FinishWrite, IInv, WriteInv, RulesCurrent, OptionCurrent
<1>2. CASE WriteFails
  BY <1>2 DEF WriteFails, IInv, TypeOK, WriteInv, RulesCurrent, OptionCurrent
<1>3. CASE WritePart
  <2>1. PICK part \in Parts[pending] : files' = [files EXCEPT !.web = part]
    BY <1>3 DEF WritePart
  <2>2. pending \in RuleLists /\ pending # NoText
    BY <1>3 DEF WritePart, IInv, TypeOK
  <2>3. part \in Texts
    BY <2>1, <2>2
  <2>4. files' \in [Names -> {Absent} \cup Texts]
    BY <2>1, <2>3, WebFile
  <2>5. TypeOK'
    BY <1>3, <2>4 DEF WritePart, IInv, TypeOK, Names
  <2> QED
    BY <1>3, <2>2, <2>5 DEF WritePart, IInv, WriteInv, RulesCurrent, OptionCurrent
<1> QED
  BY <1>1, <1>2, <1>3

(* Handlers of flows change only the flow and the history.                 *)
LEMMA HandlerInv ==
  ASSUME IInv, Request \/ ResponseHeaders \/ DnsRequest
  PROVE  IInv'
<1> DEFINE Flows == [status : {"none", "sent", "answered"}, request : Requests \cup {NoRequest},
                     headers : Headers \cup {NoHeaders}, stream : BOOLEAN,
                     rules : Seq(AllowRules)]
<1>1. rules \in Seq(AllowRules) /\ flow \in Flows
  BY DEF IInv, TypeOK
<1>2. /\ UNCHANGED <<files, rules, option, allowAll, blockDns, pending, edited>>
      /\ phase' = phase
  BY DEF Request, AllowAll, Raise, Decide, ResponseHeaders, DnsRequest, History!ProxyRequest,
         History!ProxyUncounted
<1>3. flow' \in Flows
  <2>1. CASE Request
    <3>1. PICK request \in Requests :
            \/ flow' = Sent(request)
            \/ flow' = [Sent(request) EXCEPT !.headers = IsAllowed(request).headers,
                                             !.rules = rules]
            \/ flow' = NoFlow
      BY <2>1 DEF Request, AllowAll, Raise, Decide
    <3>2. IsAllowed(request).headers \in Headers \cup {NoHeaders} /\ <<>> \in Seq(AllowRules)
      BY <1>1, AnswerTypes
    <3>3. NoFlow \in Flows /\ Sent(request) \in Flows
      BY <3>2 DEF NoFlow, Sent
    <3>4. [Sent(request) EXCEPT !.headers = IsAllowed(request).headers,
                                !.rules = rules] \in Flows
      BY <1>1, <3>2 DEF NoFlow, Sent
    <3> QED
      BY <3>1, <3>3, <3>4
  <2>2. CASE ResponseHeaders
    <3>1. IsAllowed(flow.request).stream \in BOOLEAN
      BY <1>1, AnswerTypes
    <3> QED
      BY <1>1, <2>2, <3>1 DEF ResponseHeaders
  <2>3. CASE DnsRequest
    BY <1>1, <2>3 DEF DnsRequest
  <2> QED
    BY <2>1, <2>2, <2>3
<1> QED
  BY <1>2, <1>3 DEF IInv, TypeOK, WriteInv, RulesCurrent, OptionCurrent

(* An edit is remembered until the files are loaded, or written, again.    *)
LEMMA EditInv ==
  ASSUME IInv, EditRules
  PROVE  IInv'
<1>1. PICK name \in Names, text \in Texts : files' = [files EXCEPT ![name] = text]
  BY DEF EditRules, IInv, TypeOK, Names, Texts
<1>2. files' \in [Names -> {Absent} \cup Texts]
  BY <1>1 DEF IInv, TypeOK, Names
<1>3. /\ edited' \subseteq {"reload", "option"} /\ "reload" \in edited'
      /\ "option" \notin edited' => "option" \notin edited /\ files'.web = files.web
  BY DEF EditRules, IInv, TypeOK
<1>4. UNCHANGED <<rules, option, allowAll, blockDns, pending, flow, phase>>
  BY DEF EditRules
<1>5. TypeOK'
  BY <1>2, <1>3, <1>4 DEF IInv, TypeOK, Names
<1> QED
  BY <1>3, <1>4, <1>5 DEF IInv, WriteInv, RulesCurrent, OptionCurrent

LEMMA StepInv == IInv /\ [Next]_vars => IInv'
<1> SUFFICES ASSUME IInv, [Next]_vars PROVE IInv'
  OBVIOUS
<1>1. CASE ConfigureAllowAll
  <2>1. /\ Idle /\ Reload(files) /\ files \in [Names -> {Absent} \cup Texts]
        /\ UNCHANGED <<files, option, pending, phase>>
    BY <1>1 DEF ConfigureAllowAll, IInv, TypeOK, Names
  <2>2. /\ rules' \in Seq(AllowRules) /\ edited' \subseteq {"reload", "option"}
        /\ "option" \in edited' <=> "option" \in edited
    BY <2>1, ReloadInv
  <2>3. TypeOK' /\ OptionCurrent'
    BY <1>1, <2>1, <2>2 DEF ConfigureAllowAll, IInv, TypeOK, OptionCurrent
  <2> QED
    BY <2>1, <2>3, ReloadOnly
<1>2. CASE UNCHANGED vars
  BY <1>2 DEF vars, IInv, TypeOK, WriteInv, RulesCurrent, OptionCurrent
<1> QED
  BY <1>1, <1>2, StartInv, ConfigureInv, WriteStepInv, HandlerInv, EditInv DEF Next

THEOREM Inductive == Spec => []IInv
BY InitInv, StepInv, PTL DEF Spec

-----------------------------------------------------------------------------
(* Theorems                                                                *)

(* Rules in force, files, option and flows stay rules, texts and flows.    *)
THEOREM TypeCorrect == Spec => []TypeOK
<1>1. IInv => TypeOK
  BY DEF IInv
<1> QED
  BY <1>1, Inductive, PTL

(* Without edits and cut writes since, the rules in force are those of the *)
(* files and the web file is the option (configure, reload_rules).         *)
THEOREM Applied == Spec => []AppliedImmediately
<1>1. IInv => AppliedImmediately
  <2> SUFFICES ASSUME IInv, Idle, "reload" \notin edited, Parses(files)
               PROVE  /\ rules = LoadedRules(files)
                      /\ "option" \notin edited /\ option # Broken
                           => RulesIn(files.web) = option
    BY DEF AppliedImmediately
  <2>1. files.web # Broken
    BY DEF IInv, TypeOK, Parses
  <2> QED
    BY <2>1 DEF IInv, Idle, RulesCurrent, OptionCurrent
<1> QED
  BY <1>1, Inductive, PTL

(* A host of an allowed request resolves, for every list of rules          *)
(* (is_allowed, is_dns_allowed).                                           *)
THEOREM Resolves == Spec => []NamesResolve
<1>1. IInv => NamesResolve
  <2> SUFFICES ASSUME IInv, NEW request \in Requests, IsAllowed(request).allowed
               PROVE  Forwards(request.host)
    BY DEF NamesResolve
  <2>1. PICK i \in DOMAIN rules : Matches(rules[i], request)
    BY AllowedMatches DEF IInv, TypeOK
  <2> QED
    BY <2>1 DEF Forwards, IsDnsAllowed, Matches
<1> QED
  BY <1>1, Inductive, PTL

(* Only an administrator's edit, or the write of a text that parses while  *)
(* it is under way, makes the files invalid (_persist_rules_text).         *)
THEOREM EditsBreak == Spec => OnlyEditsBreakRules
<1> DEFINE Kept == Parses(files) /\ ~Parses(files') =>
                     \/ "reload" \in edited' /\ option' = option
                     \/ pending' \in RuleLists /\ pending' = option' /\ rules' = rules
<1>1. IInv /\ [Next]_vars => [Kept]_vars
  <2> SUFFICES ASSUME IInv, Next, Parses(files), ~Parses(files')
               PROVE  \/ "reload" \in edited' /\ option' = option
                      \/ pending' \in RuleLists /\ pending' = option' /\ rules' = rules
    OBVIOUS
  <2>1. files' # files
    OBVIOUS
  <2>2. CASE EnsureWebRulesFile
    BY <2>2, WebFile DEF EnsureWebRulesFile, Texts
  <2>3. CASE ConfigureText
    BY <2>1, <2>3, WebFile DEF ConfigureText, Configure, Texts
  <2>4. CASE FinishWrite
    <3>1. pending \in RuleLists /\ files' = [files EXCEPT !.web = pending]
      BY <2>4 DEF FinishWrite, IInv, TypeOK
    <3> QED
      BY <3>1, WebFile DEF Texts
  <2>5. CASE EditRules
    BY <2>5 DEF EditRules
  <2>6. CASE WritePart
    BY <2>6 DEF WritePart, IInv, TypeOK, WriteInv
  <2> QED
    BY <2>1, <2>2, <2>3, <2>4, <2>5, <2>6
    DEF Next, Load, Running, WriteFails, ConfigureAllowAll, Request, ResponseHeaders,
        DnsRequest, Exit
<1> HIDE DEF Kept
<1>2. Spec => [][Kept]_vars
  BY <1>1, Inductive, PTL DEF Spec
<1> QED
  BY <1>2 DEF Kept, OnlyEditsBreakRules

(* No start of mitmweb writes a rules file that exists (configure's guard).*)
THEOREM FilesKept == Spec => StartKeepsFiles
<1> DEFINE Kept == phase # "running" /\ files' # files =>
                     files.web = Absent \/ "reload" \in edited'
<1>1. IInv /\ [Next]_vars => [Kept]_vars
  <2> SUFFICES ASSUME IInv, Next, phase # "running", files' # files
               PROVE  files.web = Absent \/ "reload" \in edited'
    OBVIOUS
  <2> QED
    BY DEF Next, EnsureWebRulesFile, Load, Running, ConfigureText, Configure, Persists,
           WritePart, FinishWrite, WriteFails, ConfigureAllowAll, Request, ResponseHeaders, DnsRequest,
           Exit, EditRules, IInv, WriteInv
<1> HIDE DEF Kept
<1>2. Spec => [][Kept]_vars
  BY <1>1, Inductive, PTL DEF Spec
<1> QED
  BY <1>2 DEF Kept, StartKeepsFiles

(* What FlowHistoryProofs proves of FlowHistory.                           *)
Counts == INSTANCE FlowHistoryProofs

(* The stored flows of a history are bounded.                              *)
LEMMA HistoryBound == History!Spec => [](History!HistoryBounded)
<1>1. Counts!Spec => []Counts!HistoryBounded
  BY Counts!Bounded DEF Counts!HistoryAssumption, History!HistoryAssumption
<1>2. History!Init => Counts!Init
  BY DEF History!Init, Counts!Init
<1>3. [History!Next]_(History!vars) => [Counts!Next]_(Counts!vars)
  BY DEF History!Next, Counts!Next, History!vars, Counts!vars, History!Load, Counts!Load,
         History!IsPositive, Counts!IsPositive, History!Running, Counts!Running,
         History!ProxyRequest, Counts!ProxyRequest, History!ProxyUncounted,
         Counts!ProxyUncounted, History!RecordRequest, Counts!RecordRequest,
         History!TrimHistory, Counts!TrimHistory, History!Newest, Counts!Newest,
         History!Fault, Counts!Fault, History!Exit, Counts!Exit
<1>4. Counts!HistoryBounded => History!HistoryBounded
  BY DEF History!HistoryBounded, Counts!HistoryBounded
<1> QED
  BY <1>1, <1>2, <1>3, <1>4, PTL DEF History!Spec, Counts!Spec

(* Every handler that returns counts its flow, whatever configure, edits,  *)
(* cut writes and ends of processes do in between, and so the view of the  *)
(* addon is bounded by what it keeps, counts and raised for (request,      *)
(* dns_request).                                                           *)
THEOREM CountsEveryFlow == Spec => ImplementsHistory /\ [](History!HistoryBounded)
<1>1. Init => History!Init
  BY DEF Init
<1>2. Spec => History!Spec
  BY <1>1, HistoryStep, PTL DEF Spec, History!Spec
<1> QED
  BY <1>2, HistoryBound DEF ImplementsHistory
=============================================================================
