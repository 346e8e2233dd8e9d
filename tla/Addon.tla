------------------------------- MODULE Addon -------------------------------
(***************************************************************************)
(* The mitmproxy addon (src/src/addon/addon.py): allow rules in files and  *)
(* in an option of the web interface, loaded, persisted and applied to the *)
(* flows of one mitmweb process after another. FlowHistory counts what it  *)
(* proxies.                                                                *)
(*                                                                         *)
(* One flow stands for all: handlers share only rules, options and the     *)
(* flow history. Handlers run one at a time in mitmproxy's event loop;     *)
(* administrators edit files, and the process ends, at any time.           *)
(***************************************************************************)
EXTENDS Sequences, SequencesExt, Integers

CONSTANTS
    Hosts, LocalHost,      \* names, and the machine's own
    Methods, Paths,        \* methods and URL pathnames of requests
    NoPathname,            \* of a URL that urlsplit refuses
    Headers, NoHeaders,    \* what inject_headers may be
    RuleLists,             \* rules a file or the option may hold
    Parts,                 \* what the text of some rules may be when cut short
    Broken,                \* a text that does not parse as rules
    Absent,                \* no file
    NoText,                \* nothing is being written
    NoRequest,             \* of no flow
    Interruptible,         \* whether a write may be cut short
    ConfigValues, DefaultInterval, DefaultKeep, MaxStored, MaxFaults

VARIABLES
    files,     \* the rules directory: the web interface's file and another
    rules,     \* self.rules
    option,    \* the rules_text option
    allowAll,  \* the allow_all_traffic option
    blockDns,  \* self.block_dns
    pending,   \* the text write_text is writing, its file already truncated
    flow,      \* an HTTP flow
    edited,    \* history: whether a file changed, but for a completed write of
               \* the option, after the last "reload", and the web file after
               \* the "option" was last its text
    phase, interval, keep, counter, view, stored, uncounted, missed, faults

History == INSTANCE FlowHistory

history == <<interval, keep, counter, view, stored, uncounted, missed, faults>>
vars == <<files, rules, option, allowAll, blockDns, pending, flow, edited,
          phase, history>>

AllowRules == [hosts : SUBSET Hosts, methods : SUBSET Methods, paths : SUBSET Paths,
               headers : Headers \cup {NoHeaders}, stream : BOOLEAN]
Texts == {Broken} \cup Seq(AllowRules)
Requests == [host : Hosts, method : Methods, path : Paths \cup {NoPathname}]

ASSUME AddonAssumption ==
    /\ RuleLists \subseteq Seq(AllowRules) /\ <<>> \in RuleLists
    /\ {Broken, Absent, NoText} \cap RuleLists = {} /\ Broken # Absent
    /\ Parts \in [RuleLists -> SUBSET Texts] /\ NoPathname \notin Paths
    /\ History!HistoryAssumption
    /\ LocalHost \in Hosts /\ NoRequest \notin Requests /\ Interruptible \in BOOLEAN

-----------------------------------------------------------------------------
(* Rules (src/src/addon/rules.py)                                          *)

MatchesHost(rule, host) == host \in rule.hosts

Matches(rule, request) ==
    /\ request.method \in rule.methods
    /\ MatchesHost(rule, request.host)
    /\ request.path \in rule.paths

(* is_allowed: the first rule that matches decides.                        *)
IsAllowed(request) ==
    LET i == SelectInSeq(rules, LAMBDA rule : Matches(rule, request)) IN
    IF i = 0 THEN [allowed |-> FALSE, headers |-> NoHeaders, stream |-> FALSE]
    ELSE [allowed |-> TRUE, headers |-> rules[i].headers, stream |-> rules[i].stream]

(* Mutant: the HTTP match instead of matches_host.                         *)
IsRootAllowed(host) == IsAllowed([host |-> host, method |-> "POST", path |-> "/"]).allowed

IsDnsAllowed(host) == \E i \in DOMAIN rules : MatchesHost(rules[i], host)

(* load_rules: every file parses, or none counts.                          *)
Parses(fs) == \A name \in DOMAIN fs : fs[name] # Broken

RulesIn(text) == IF text = Absent THEN <<>> ELSE text

LoadedRules(fs) == RulesIn(fs.web) \o RulesIn(fs.examples)

-----------------------------------------------------------------------------

TypeOK ==
    /\ files \in [{"web", "examples"} -> {Absent} \cup Texts]
    /\ option \in Texts
    /\ pending \in RuleLists \cup {NoText}
    /\ allowAll \in BOOLEAN /\ blockDns \in BOOLEAN /\ edited \subseteq {"reload", "option"}
    /\ flow \in [status : {"none", "sent", "answered"}, request : Requests \cup {NoRequest},
                 headers : Headers \cup {NoHeaders}, stream : BOOLEAN, rules : Seq(AllowRules)]
    /\ rules \in Seq(AllowRules)

NoFlow == [status |-> "none", request |-> NoRequest, headers |-> NoHeaders,
           stream |-> FALSE, rules |-> <<>>]

Init ==
    /\ files \in [web : {Absent, <<>>}, examples : RuleLists]
    /\ rules = <<>> /\ option = <<>>
    /\ allowAll = FALSE /\ blockDns = TRUE
    /\ pending = NoText /\ flow = NoFlow
    /\ edited = {}
    /\ History!Init

Idle == phase # "down" /\ pending = NoText

(* reload_rules, of these files.                                           *)
Reload(fs) ==
    /\ rules' = IF Parses(fs) THEN LoadedRules(fs) ELSE rules
    /\ edited' = edited \ {"reload"}

(* The hook's ensure_web_rules_file.                                       *)
EnsureWebRulesFile ==
    /\ phase = "down" /\ files.web = Absent
    /\ files' = [files EXCEPT !.web = <<>>]
    /\ UNCHANGED <<rules, option, allowAll, blockDns, pending, flow, edited, phase, history>>

(* Mutant: without the exists() check.                                     *)
LoadAnything ==
    /\ History!Load
    /\ option' = files.web
    /\ rules' = IF Parses(files) THEN LoadedRules(files) ELSE <<>>
    /\ allowAll' = FALSE /\ blockDns' \in BOOLEAN /\ edited' = {}
    /\ UNCHANGED <<files, pending, flow>>

(* load: the option's default is the text of the web file, unless that is  *)
(* not even text.                                                          *)
Load ==
    /\ History!Load
    /\ option' \in IF files.web = Broken THEN {Broken, <<>>} ELSE {RulesIn(files.web)}
    /\ rules' = IF Parses(files) THEN LoadedRules(files) ELSE <<>>
    /\ allowAll' = FALSE /\ blockDns' \in BOOLEAN /\ edited' = {}
    /\ UNCHANGED <<files, pending, flow>>

Running ==
    /\ Idle /\ History!Running
    /\ Reload(files)
    /\ UNCHANGED <<files, option, allowAll, blockDns, pending, flow>>

(* Mutant: persisting at startup as well.                                  *)
AlwaysPersists(text) == text # Broken

(* configure: only a running addon persists, and only a text that parses.  *)
Persists(text) == phase = "running" /\ text # Broken

(* Mutant: written without a reload.                                       *)
WriteOnly ==
    /\ pending # NoText
    /\ files' = [files EXCEPT !.web = pending]
    /\ pending' = NoText
    /\ UNCHANGED <<rules, edited, option, allowAll, blockDns, flow, phase, history>>

(* Mutant: without parse_rules_text.                                       *)
ConfigureUnchecked(text) ==
    /\ Idle /\ option' = text
    /\ files' = [files EXCEPT !.web = IF phase = "running" THEN text ELSE @]
    /\ Reload(files')
    /\ UNCHANGED <<allowAll, blockDns, pending, flow, phase, history>>

(* configure with rules_text: truncate and write the file, then reload.    *)
Configure(text) ==
    /\ Idle /\ option' = text
    /\ IF Persists(text)
       THEN /\ pending' = text /\ files' = [files EXCEPT !.web = <<>>]
            /\ UNCHANGED <<rules, edited>>
       ELSE Reload(files) /\ UNCHANGED <<files, pending>>
    /\ UNCHANGED <<allowAll, blockDns, flow, phase, history>>

FinishWrite ==
    /\ pending # NoText
    /\ files' = [files EXCEPT !.web = pending]
    /\ pending' = NoText
    /\ rules' = IF Parses(files') THEN LoadedRules(files') ELSE rules
    /\ edited' = {}
    /\ UNCHANGED <<option, allowAll, blockDns, flow, phase, history>>

(* Some of the text reaches the file: none, a part that does not parse, or *)
(* one that lacks rules or the ends of one.                                *)
WritePart ==
    /\ Interruptible /\ pending # NoText
    /\ \E part \in Parts[pending] : files' = [files EXCEPT !.web = part]
    /\ UNCHANGED <<rules, option, allowAll, blockDns, pending, flow, edited,
                   phase, history>>

(* The write raises, and configure ends there, with what it wrote so far.  *)
WriteFails ==
    /\ Interruptible /\ pending # NoText
    /\ pending' = NoText
    /\ edited' = {"reload", "option"}
    /\ UNCHANGED <<files, rules, option, allowAll, blockDns, flow,
                   phase, history>>

(* mitmproxy calls configure with every option before it calls running;    *)
(* later an operator sets one in the web interface.                        *)
ConfigureText ==
    \E text \in IF phase = "running" THEN RuleLists \cup {Broken} ELSE {option} :
        Configure(text)

(* configure with any other option; this one is the addon's own.           *)
ConfigureAllowAll ==
    /\ Idle /\ phase = "running"
    /\ allowAll' \in BOOLEAN
    /\ Reload(files)
    /\ UNCHANGED <<files, option, blockDns, pending, flow, phase, history>>

(* request_pathname of its URL raises.                                     *)
HasPathname(request) == request.path # NoPathname

Sent(request) == [NoFlow EXCEPT !.status = "sent", !.request = request]

(* The branches of request, with what each does to a flow that the view    *)
(* has stored.                                                             *)
AllowAll(request) == allowAll /\ flow' = Sent(request) /\ History!ProxyRequest

(* Nothing catches the exception but mitmproxy, which goes on.             *)
Raise(request) ==
    /\ ~allowAll /\ ~HasPathname(request)
    /\ flow' = Sent(request) /\ History!ProxyUncounted

Decide(request) ==
    LET result == IsAllowed(request) IN
    /\ ~allowAll /\ HasPathname(request)
    /\ flow' = IF result.allowed
               THEN [Sent(request) EXCEPT !.headers = result.headers, !.rules = rules]
               ELSE NoFlow
    /\ History!ProxyRequest

(* request: a new flow, or the next one, is sent to its server or killed.  *)
Request ==
    /\ Idle /\ flow.status # "sent"
    /\ \E request \in Requests : AllowAll(request) \/ Raise(request) \/ Decide(request)
    /\ UNCHANGED <<files, rules, option, allowAll, blockDns, pending, edited>>

(* responseheaders: the rules are asked again, or it raises.               *)
ResponseHeaders ==
    /\ Idle /\ flow.status = "sent"
    /\ flow' = [flow EXCEPT !.status = "answered",
                            !.stream = /\ HasPathname(flow.request)
                                       /\ IsAllowed(flow.request).stream]
    /\ UNCHANGED <<files, rules, option, allowAll, blockDns, pending, edited,
                   phase, history>>

(* dns_request forwards a query, or answers REFUSED.                       *)
Forwards(host) ==
    allowAll \/ ~blockDns \/ IsDnsAllowed(host) \/ host = LocalHost

(* Mutant: an early return skips the count.                                *)
DnsUncounted ==
    /\ Idle
    /\ \E host \in Hosts :
         IF Forwards(host)
         THEN /\ stored < MaxStored /\ stored' = stored + 1 /\ view' = Append(view, stored')
              /\ UNCHANGED <<phase, interval, keep, counter, uncounted, missed, faults>>
         ELSE History!ProxyRequest
    /\ UNCHANGED <<files, rules, option, allowAll, blockDns, pending, flow, edited>>

(* dns_request, which counts in its finally.                               *)
DnsRequest ==
    /\ Idle /\ History!ProxyRequest
    /\ UNCHANGED <<files, rules, option, allowAll, blockDns, pending, flow, edited>>

(* mitmweb ends: its options, rules and flows are gone.                    *)
Exit ==
    /\ History!Exit
    /\ pending # NoText => Interruptible
    /\ rules' = <<>> /\ option' = <<>> /\ allowAll' = FALSE /\ blockDns' = TRUE
    /\ pending' = NoText /\ flow' = NoFlow /\ edited' = {}
    /\ UNCHANGED files

(* An administrator edits a file, but not the web file while it is written.*)
EditRules ==
    /\ \E name \in DOMAIN files, text \in RuleLists \cup {Broken} :
         /\ name = "web" => pending = NoText
         /\ files' = [files EXCEPT ![name] = text]
    /\ edited' = edited \cup {"reload"} \cup (IF files.web # files'.web THEN {"option"} ELSE {})
    /\ UNCHANGED <<rules, option, allowAll, blockDns, pending, flow, phase, history>>

Next ==
    \/ EnsureWebRulesFile \/ Load \/ Running \/ ConfigureText \/ WritePart \/ FinishWrite
    \/ WriteFails \/ ConfigureAllowAll \/ Request \/ ResponseHeaders \/ DnsRequest
    \/ Exit \/ EditRules

Spec == Init /\ [][Next]_vars

-----------------------------------------------------------------------------
(* Properties                                                              *)

(* README.md: "Rules added through the options interface are applied       *)
(* immediately without a service reload": as long as nobody else edits a   *)
(* file and writes complete, the loaded rules are those of the files, and  *)
(* the web file holds the option, whatever was rejected, broken or lost    *)
(* before.                                                                 *)
AppliedImmediately ==
    Idle /\ "reload" \notin edited /\ Parses(files) =>
        /\ rules = LoadedRules(files)
        /\ "option" \notin edited /\ option # Broken => RulesIn(files.web) = option

(* _persist_rules_text: "Invalid rules text is rejected so a malformed     *)
(* option cannot break the running rule set": files that parse cease to    *)
(* only by an edit, or while an option that parses is being written, and   *)
(* then the rules in force stay.                                           *)
OnlyEditsBreakRules ==
    [][Parses(files) /\ ~Parses(files') =>
         \/ "reload" \in edited' /\ option' = option
         \/ pending' \in RuleLists /\ pending' = option' /\ rules' = rules]_vars

(* Starting mitmweb leaves every rules file alone, one it cannot read      *)
(* included: configure's _startup_done guard.                              *)
StartKeepsFiles ==
    [][phase # "running" /\ files' # files =>
         files.web = Absent \/ "reload" \in edited']_vars

(* A host with an allowed request always has a name that resolves, so DNS  *)
(* filtering never blocks what the HTTP rules allow.                       *)
NamesResolve ==
    phase # "down" =>
        \A request \in Requests : IsAllowed(request).allowed => Forwards(request.host)

(* Every flow whose handler returns is counted once, HTTP or DNS, allowed, *)
(* refused or killed, between loads, writes and the ends of processes, so  *)
(* the addon has every property of FlowHistory.                            *)
ImplementsHistory == History!Spec

(* README.md: "If /etc/mitmwall/rules.d is missing or any rule file is     *)
(* invalid, mitmwall fails closed".                                        *)
FailsClosed == Idle /\ "reload" \notin edited /\ ~Parses(files) => rules = <<>>

(* example-rules.toml: "inject_headers is taken from the first matching    *)
(* rule that defines it."                                                  *)
HeadersAsDocumented ==
    flow.status \in {"sent", "answered"} =>
        LET i == SelectInSeq(flow.rules, LAMBDA rule :
                     Matches(rule, flow.request) /\ rule.headers # NoHeaders)
        IN flow.headers = IF i = 0 THEN NoHeaders ELSE flow.rules[i].headers
=============================================================================
