------------------------------ MODULE Firewall ------------------------------
(***************************************************************************)
(* The firewall policy the systemd hook installs and removes in one        *)
(* address family: add_rules and clear_rules of src/src/systemd/hook.py,   *)
(* with the rule migrations of migrations.py.                              *)
(*                                                                         *)
(* A start or a stop is a program: the list of iptables commands the code  *)
(* runs, in its order. Each command is an action, may fail, and may be the *)
(* last one before the hook is killed; the next start or stop then finds   *)
(* whatever was left. What the chains do to traffic is evaluated the way   *)
(* the kernel does, rule by rule.                                          *)
(***************************************************************************)
EXTENDS Iptables, FiniteSets

CONSTANTS
    Proxy, Resolver,   \* the accounts mitmwall and systemd-resolve
    NtpOrder,          \* time synchronization accounts, in the code's order
    Configurable,      \* accounts an operator may list in bypass_users
    Ordinary,          \* everybody else
    IsIpv6,            \* ip6tables or iptables
    CustomLists,       \* custom rules an operator may configure, as services
    NoChain,           \* the managed chain does not exist
    AccountsChange,    \* whether time synchronization accounts come and go
    MaxAdminRules,     \* bound: rules an administrator inserts
    MaxFaults          \* bound: commands that fail, hooks that are killed, and
                       \* rules other management inserts while a hook runs

NtpUsers == ToSet(NtpOrder)
Users == {Proxy, Resolver} \cup NtpUsers \cup Configurable \cup Ordinary

-----------------------------------------------------------------------------
(* Packets and rules                                                       *)

WebServices == <<"http", "https">>
DnsServices == <<"dns-udp", "dns-tcp">>

(* mitmproxy's listeners: 58080, 58053 and 58081.                          *)
Listener(service) ==
    CASE service \in ToSet(WebServices) -> "proxy"
      [] service = "dns-udp" -> "dnsproxy-udp"
      [] service = "dns-tcp" -> "dnsproxy-tcp"

Services == ToSet(WebServices) \cup ToSet(DnsServices) \cup
            {"ntp", "icmp6", "other", "proxy", "dnsproxy-udp", "dnsproxy-tcp", "webui"}

(* Over the loopback interface, to another local address, to a remote      *)
(* network an operator may open, or to any other remote host.              *)
Places == {"loopback", "local", "custom", "remote"}

(* A connection's first packet; a later one of a connection opened from    *)
(* here before the rules existed; a reply to a connection from elsewhere.  *)
Conns == {"new", "original", "reply"}

Packets == [user : Users, service : Services, place : Places, conn : Conns]

Tags == {"admin", "none", "mitmwall-redirect", "mitmwall-custom"}
Verdicts == {"ACCEPT", "DROP", "REDIRECT", "MITMWALL_OUTPUT"}

Rules == [tag : Tags, users : SUBSET Users, services : SUBSET Services,
          places : SUBSET Places, conns : SUBSET Conns, verdict : Verdicts]

(* NtpOrder is a tuple of distinct names in hook.py; parse_bypass_users    *)
(* leaves out the proxy's own account; no configuration is no custom rule. *)
ASSUME FirewallAssumption ==
    /\ NtpOrder \in Seq(NtpUsers) /\ IsInjective(NtpOrder)
    /\ Proxy # Resolver /\ {Proxy, Resolver} \cap NtpUsers = {}
    /\ IsFiniteSet(Configurable) /\ Proxy \notin Configurable
    /\ Ordinary \cap ({Proxy, Resolver} \cup NtpUsers \cup Configurable) = {}
    /\ <<>> \in CustomLists /\ CustomLists \subseteq Seq(Services)
    /\ NoChain \notin Seq(Rules)
    /\ IsIpv6 \in BOOLEAN /\ AccountsChange \in BOOLEAN
    /\ MaxAdminRules \in Nat /\ MaxFaults \in Nat

Rule(tag, users, services, places, verdict) ==
    [tag |-> tag, users |-> users, services |-> services, places |-> places,
     conns |-> Conns, verdict |-> verdict]

Matching(r, p) ==
    /\ p.user \in r.users /\ p.service \in r.services
    /\ p.place \in r.places /\ p.conn \in r.conns

(* add_redirect_rule: not for traffic over loopback.                       *)
RedirectRule(service, bypass) ==
    Rule("mitmwall-redirect", Users \ ({Proxy} \cup bypass), {service},
         Places \ {"loopback"}, "REDIRECT")

(* add_dns_redirect_rule: local resolvers are redirected as well.          *)
DnsRedirectRule(service, bypass) ==
    Rule("mitmwall-redirect", Users \ ({Proxy, Resolver} \cup bypass), {service},
         Places, "REDIRECT")

NtpDnsBypassRule(service, user) == Rule("none", {user}, {service}, Places, "ACCEPT")

(* Mutant: the destination is forgotten.                                   *)
CustomRuleAnywhere(service) == Rule("mitmwall-custom", Users, {service}, Places, "ACCEPT")

(* Custom rules open one port of a network, "other" here, over TCP.        *)
CustomRule(service) == Rule("mitmwall-custom", Users, {service}, {"custom"}, "ACCEPT")

(* What older releases installed: redirects without a comment.             *)
LegacyRule(service) == Rule("none", Ordinary, {service}, Places, "REDIRECT")

JumpRule == Rule("none", Users, Services, Places, "MITMWALL_OUTPUT")

AdminRule(verdict) == Rule("admin", Users, Services, Places, verdict)

OwnerRule(user) == Rule("none", {user}, Services, Places, "ACCEPT")

ServiceRule(service, places) == Rule("none", Users, {service}, places, "ACCEPT")

ReplyRule == [Rule("none", Users, Services, Places, "ACCEPT") EXCEPT !.conns = {"reply"}]

LoopbackRule == Rule("none", Users, Services, {"loopback"}, "ACCEPT")

DropRule == Rule("none", Users, Services, Places, "DROP")

-----------------------------------------------------------------------------
(* Programs: the commands of a start and of a stop                         *)

Each(F(_), list) == [i \in DOMAIN list |-> F(list[i])]

RemoveAll(chain, rule)   == [op |-> "remove_all", chain |-> chain, rule |-> rule]
RemoveByComment(chain, tag) == [op |-> "remove_by_comment", chain |-> chain, tag |-> tag]
Insert(chain, rule)      == [op |-> "insert", chain |-> chain, rule |-> rule]
AppendOwn(rule)          == [op |-> "append", chain |-> "own", rule |-> rule]
InsertBeforeDrop(rule)   == [op |-> "add_rule", chain |-> "own", rule |-> rule]
EnsureChain              == [op |-> "ensure_chain", chain |-> "own"]
FlushChain               == [op |-> "flush_chain", chain |-> "own"]
CallForwarding           == [op |-> "forwarding", chain |-> "nat"]

(* Mutant: older copies stay.                                              *)
InsertOnly(chain, rule) == <<Insert(chain, rule)>>

(* Iptables.ensure_first. *)
EnsureFirst(chain, rule) == <<RemoveAll(chain, rule), Insert(chain, rule)>>

ClearManagedRedirects == <<RemoveByComment("nat", "mitmwall-redirect")>>

(* Mutant: the nat bypasses stay.                                          *)
ClearCustomFilter == <<RemoveByComment("own", "mitmwall-custom")>>

ClearCustomRules ==
    <<RemoveByComment("own", "mitmwall-custom"), RemoveByComment("nat", "mitmwall-custom")>>

ClearLegacyRedirects ==
    Each(LAMBDA s : RemoveAll("nat", LegacyRule(s)), WebServices \o DnsServices)

(* The accounts of NtpOrder that exist.                                    *)
Installed(accounts) ==
    FlattenSeq(Each(LAMBDA u : IF u \in accounts THEN <<u>> ELSE <<>>, NtpOrder))

(* Every rule of MITMWALL_OUTPUT, in order. *)
OwnRules(bypass, accounts) ==
    <<ReplyRule>>
    \o Each(OwnerRule, SetToSeq(bypass)) \o <<OwnerRule(Proxy), OwnerRule(Resolver)>>
    \o FlattenSeq(Each(LAMBDA u : Each(LAMBDA s : Rule("none", {u}, {s}, Places, "ACCEPT"),
                                       <<"ntp">> \o DnsServices),
                       Installed(accounts)))
    \o (IF IsIpv6 THEN <<ServiceRule("icmp6", Places)>> ELSE <<>>)
    \o <<LoopbackRule>>
    \o Each(LAMBDA s : ServiceRule(s, {"loopback", "local"}),
            <<"proxy", "dnsproxy-udp", "dnsproxy-tcp", "webui">>)
    \o <<DropRule>>

AddOutputFilter(bypass, accounts) ==
    <<EnsureChain, FlushChain>>
    \o Each(AppendOwn, OwnRules(bypass, accounts))
    \o EnsureFirst("out", JumpRule)

AddCustomRules(custom) ==
    ClearCustomRules
    \o FlattenSeq(Each(LAMBDA s : EnsureFirst("nat", CustomRule(s))
                                  \o <<InsertBeforeDrop(CustomRule(s))>>, custom))

NtpDnsBypasses(Command(_), accounts, service) ==
    FlattenSeq(Each(LAMBDA u : Command(NtpDnsBypassRule(service, u)), Installed(accounts)))

(* run_startup_migrations, then add_rules. *)
StartProgram(bypass, accounts, custom) ==
    ClearLegacyRedirects
    \o ClearManagedRedirects
    \o <<CallForwarding>>
    \o FlattenSeq(Each(LAMBDA s : EnsureFirst("nat", DnsRedirectRule(s, bypass)), DnsServices))
    \o FlattenSeq(Each(LAMBDA s : EnsureFirst("nat", RedirectRule(s, bypass)), WebServices))
    \o FlattenSeq(Each(LAMBDA s : NtpDnsBypasses(LAMBDA r : EnsureFirst("nat", r), accounts, s),
                       DnsServices))
    \o AddOutputFilter(bypass, accounts)
    \o AddCustomRules(custom)

(* remove_output_filter does nothing while the chain is absent.            *)
RemoveOutputFilter == <<RemoveAll("out", JumpRule), FlushChain>>

(* restore_forwarding, then clear_rules. *)
StopProgram(accounts) ==
    <<CallForwarding>>
    \o ClearManagedRedirects
    \o ClearLegacyRedirects
    \o ClearCustomRules
    \o Each(LAMBDA s : RemoveAll("nat", LegacyRule(s)), WebServices)
    \o FlattenSeq(Each(LAMBDA s : NtpDnsBypasses(LAMBDA r : <<RemoveAll("nat", r)>>, accounts, s)
                                  \o <<RemoveAll("nat", LegacyRule(s))>>, DnsServices))
    \o RemoveOutputFilter

-----------------------------------------------------------------------------
VARIABLES
    chains,    \* nat OUTPUT, filter OUTPUT and MITMWALL_OUTPUT ("own")
    unit,      \* the systemd unit
    running,   \* which hook runs: "none", "start" or "stop"
    todo,      \* the commands it has yet to run
    bypass,    \* bypass_users in config.toml
    custom,    \* custom rules in config.toml
    accounts,  \* the time synchronization accounts that exist
    listed,    \* the line number remove_by_comment has listed, or 0
    applied,   \* history: the configuration the last start read
    admin,     \* history: the rules of other management per built-in chain
    disturbed, \* history: it inserted a rule since the running hook began
    shifted,   \* history: it did since the listing, into the listed chain
    faults     \* history: faults so far

config == <<bypass, custom, accounts, applied>>
others == <<admin, disturbed>>
vars   == <<chains, unit, running, todo, listed, config, others, shifted, faults>>

HasOwn == chains.own # NoChain

TypeOK ==
    /\ chains \in [nat : Seq(Rules), out : Seq(Rules), own : {NoChain} \cup Seq(Rules)]
    /\ admin \in [nat : Seq(Rules), out : Seq(Rules)]
    /\ unit \in {"inactive", "starting", "active", "stopping"}
    /\ running \in {"none", "start", "stop"}
    /\ running = "none" => todo = <<>>
    /\ listed \in Nat /\ disturbed \in BOOLEAN /\ shifted \in BOOLEAN
    /\ bypass \subseteq Configurable /\ custom \in CustomLists /\ accounts \subseteq NtpUsers
    /\ faults \in 0..MaxFaults

(* A clean machine, or one that an older release left its redirects on.    *)
Init ==
    /\ \E legacy \in {<<>>, <<LegacyRule("https"), LegacyRule("dns-udp"), LegacyRule("https")>>} :
         chains = [nat |-> legacy, out |-> <<>>, own |-> NoChain]
    /\ unit = "inactive"
    /\ running = "none" /\ todo = <<>>
    /\ bypass = {} /\ custom = <<>> /\ accounts = NtpUsers
    /\ applied = [bypass |-> {}, custom |-> <<>>, accounts |-> {}]
    /\ admin = [nat |-> <<>>, out |-> <<>>]
    /\ listed = 0 /\ disturbed = FALSE /\ shifted = FALSE
    /\ faults = 0

Fault == faults < MaxFaults /\ faults' = faults + 1

(* Mutant: a failed hook leaves its commands queued.                       *)
ExitKeepsTodo(ok) ==
    /\ running' = "none" /\ listed' = 0
    /\ disturbed' = FALSE /\ shifted' = FALSE
    /\ UNCHANGED <<todo, admin>>
    /\ unit' = IF running = "stop" THEN "inactive" ELSE IF ok THEN "active" ELSE "stopping"

Exit(ok) ==
    /\ running' = "none" /\ todo' = <<>> /\ listed' = 0
    /\ disturbed' = FALSE /\ shifted' = FALSE
    /\ UNCHANGED admin
    /\ unit' = IF running = "stop" THEN "inactive" ELSE IF ok THEN "active" ELSE "stopping"

-----------------------------------------------------------------------------
(* One action per kind of command                                          *)

Running(op) == todo # <<>> /\ Head(todo).op = op

Done ==
    /\ todo' = Tail(todo)
    /\ UNCHANGED <<unit, running, listed, config, others, shifted, faults>>
More == UNCHANGED <<todo, unit, running, listed, config, others, shifted, faults>>

SetChain(name, chain) == chains' = [chains EXCEPT ![name] = chain]

(* What other management put into a chain.                                 *)
AdminRules(chain) ==
    FlattenSeq(Each(LAMBDA r : IF r.tag = "admin" THEN <<r>> ELSE <<>>, chain))

(* Mutant: "-D" names another table than "-C", so the loop never ends.     *)
DeleteElsewhere ==
    /\ Running("remove_all")
    /\ LET c == Head(todo) IN RuleExists(chains[c.chain], c.rule)
    /\ More /\ UNCHANGED chains

(* remove_all: "-C", then "-D" while a copy is there.                      *)
DeleteCopy ==
    /\ Running("remove_all")
    /\ LET c == Head(todo) IN
         /\ RuleExists(chains[c.chain], c.rule)
         /\ SetChain(c.chain, DeleteRule(chains[c.chain], c.rule))
    /\ More

AllDeleted ==
    /\ Running("remove_all")
    /\ LET c == Head(todo) IN ~RuleExists(chains[c.chain], c.rule)
    /\ Done /\ UNCHANGED chains

Present(name) == name = "own" => HasOwn

(* remove_by_comment: list, delete the first tagged line by its number,    *)
(* list again. The listing and the deletion are two commands.              *)
ListTagged ==
    /\ Running("remove_by_comment") /\ listed = 0
    /\ LET c == Head(todo) IN
         /\ Present(c.chain) /\ IsTagged(chains[c.chain], c.tag)
         /\ listed' = TaggedLine(chains[c.chain], c.tag)
    /\ UNCHANGED <<chains, todo, unit, running, config, others, shifted, faults>>

(* Whatever rule has that number by now goes. "admin" forgets a rule that  *)
(* goes because the lines have shifted, and no other.                      *)
DeleteListed ==
    /\ Running("remove_by_comment") /\ listed # 0
    /\ LET c == Head(todo).chain IN
         /\ SetChain(c, DeleteLineNumber(chains[c], listed))
         /\ admin' = IF shifted THEN [admin EXCEPT ![c] = AdminRules(chains'[c])] ELSE admin
    /\ listed' = 0 /\ shifted' = FALSE
    /\ UNCHANGED <<todo, unit, running, config, disturbed, faults>>

NothingTagged ==
    /\ Running("remove_by_comment") /\ listed = 0
    /\ LET c == Head(todo) IN Present(c.chain) => ~IsTagged(chains[c.chain], c.tag)
    /\ Done /\ UNCHANGED chains

InsertFirst ==
    /\ Running("insert")
    /\ LET c == Head(todo) IN SetChain(c.chain, InsertRule(chains[c.chain], 1, c.rule))
    /\ Done

AppendToOwn ==
    /\ Running("append")
    /\ SetChain("own", AppendRule(chains.own, Head(todo).rule))
    /\ Done

CreateOwn ==
    /\ Running("ensure_chain")
    /\ IF HasOwn THEN UNCHANGED chains ELSE SetChain("own", <<>>)
    /\ Done

(* On stop remove_output_filter returns early if the chain is absent.      *)
FlushOwn ==
    /\ Running("flush_chain")
    /\ IF HasOwn THEN SetChain("own", <<>>) ELSE UNCHANGED chains
    /\ Done

(* Mutant: custom rules always go to the end.                              *)
AddAtEnd ==
    /\ Running("add_rule")
    /\ SetChain("own", AppendRule(chains.own, Head(todo).rule))
    /\ Done

(* add_rule: before the DROP rule, or at the end.                          *)
AddCustomRule ==
    /\ Running("add_rule")
    /\ LET line == FindDropLineNumber(chains.own)
           rule == Head(todo).rule
       IN SetChain("own", IF line # 0 THEN InsertRule(chains.own, line, rule)
                                      ELSE AppendRule(chains.own, rule))
    /\ Done

(* enable_forwarding or restore_forwarding: no rule of these chains.       *)
Forward ==
    /\ Running("forwarding")
    /\ Done /\ UNCHANGED chains

CommandFails ==
    /\ todo # <<>>
    /\ Fault
    /\ Exit(FALSE)
    /\ UNCHANGED <<chains, config>>

HookEnds ==
    /\ running # "none" /\ todo = <<>>
    /\ Exit(TRUE)
    /\ UNCHANGED <<chains, config, faults>>

-----------------------------------------------------------------------------
(* systemd, the operator, the machine                                      *)

Start ==
    /\ unit = "inactive" /\ running = "none"
    /\ unit' = "starting" /\ running' = "start"
    /\ todo' = StartProgram(bypass, accounts, custom)
    /\ applied' = [bypass |-> bypass, custom |-> custom, accounts |-> accounts]
    /\ UNCHANGED <<chains, listed, bypass, custom, accounts, others, shifted, faults>>

Deactivate ==
    /\ unit = "active" /\ running = "none"
    /\ unit' = "stopping"
    /\ UNCHANGED <<chains, running, todo, listed, config, others, shifted, faults>>

Stop ==
    /\ unit \in {"stopping", "inactive"} /\ running = "none"
    /\ running' = "stop"
    /\ todo' = StopProgram(accounts)
    /\ UNCHANGED <<chains, unit, listed, config, others, shifted, faults>>

Reboot ==
    /\ Fault
    /\ chains' = [nat |-> admin.nat, out |-> admin.out, own |-> NoChain]
    /\ unit' = "inactive" /\ running' = "none" /\ todo' = <<>> /\ listed' = 0
    /\ disturbed' = FALSE /\ shifted' = FALSE
    /\ UNCHANGED <<config, admin>>

(* bypass_users and the custom rules are read at the next start.           *)
EditConfig ==
    /\ running = "none"
    /\ bypass' \in SUBSET Configurable /\ custom' \in CustomLists
    /\ UNCHANGED <<chains, unit, running, todo, listed, accounts, applied, others, shifted, faults>>

(* A time synchronization package is removed or installed.                 *)
AccountChanges ==
    /\ AccountsChange
    /\ running = "none"
    /\ accounts' \in SUBSET NtpUsers
    /\ UNCHANGED <<chains, unit, running, todo, listed, bypass, custom, applied, others, shifted,
                   faults>>

(* Other firewall management puts a rule at the head of a built-in chain,  *)
(* at any time: the xtables lock is held for one command only. While a     *)
(* hook runs, this counts as a fault.                                      *)
AdminInserts ==
    /\ Len(admin.nat) + Len(admin.out) < MaxAdminRules
    /\ IF running = "none" THEN UNCHANGED faults ELSE Fault
    /\ \E c \in {"nat", "out"} :
         /\ SetChain(c, InsertRule(chains[c], 1, AdminRule("ACCEPT")))
         /\ admin' = [admin EXCEPT ![c] = InsertRule(@, 1, AdminRule("ACCEPT"))]
         /\ shifted' = (shifted \/ (listed # 0 /\ Head(todo).chain = c))
    /\ disturbed' = (disturbed \/ running # "none")
    /\ UNCHANGED <<unit, running, todo, listed, config>>

Command ==
    \/ DeleteCopy \/ AllDeleted \/ ListTagged \/ DeleteListed \/ NothingTagged
    \/ InsertFirst \/ AppendToOwn \/ CreateOwn \/ FlushOwn \/ AddCustomRule
    \/ Forward \/ CommandFails \/ HookEnds

Next ==
    \/ Command \/ Start \/ Deactivate \/ Stop \/ Reboot
    \/ EditConfig \/ AccountChanges \/ AdminInserts

Spec == Init /\ [][Next]_vars

(* Commands go on, systemd runs ExecStopPost, an incomplete stop is        *)
(* repeated.                                                               *)
FairSpec ==
    Spec /\ WF_vars(Command) /\ WF_vars(unit = "stopping" /\ Stop) /\ SF_vars(Stop)

-----------------------------------------------------------------------------
(* What the chains do to a packet                                          *)

Judge(chain, p, policy) == FirstMatch(chain, LAMBDA r : Matching(r, p), policy)

(* Only the first packet of a connection passes the nat table.             *)
Redirected(p) == p.conn = "new" /\ Judge(chains.nat, p, "ACCEPT") = "REDIRECT"

(* The filter OUTPUT chain with the managed chain in place of the jump.    *)
Filter ==
    FlattenSeq(Each(LAMBDA r : IF r = JumpRule THEN chains.own ELSE <<r>>, chains.out))

Outcome(filter, p) ==
    LET redirected == Redirected(p)
        routed == IF redirected
                  THEN [p EXCEPT !.service = Listener(p.service), !.place = "local"]
                  ELSE p
    IN IF Judge(filter, routed, "ACCEPT") = "DROP" THEN "blocked"
       ELSE IF redirected THEN "proxied" ELSE "direct"

-----------------------------------------------------------------------------
(* Properties                                                              *)

(* A destination the configuration of the last start opened.               *)
Opened(p) == p.place = "custom" /\ p.service \in ToSet(applied.custom)

(* README.md's list: which new connections go to the proxy...              *)
ToProxy(p) ==
    /\ p.conn = "new" /\ ~Opened(p)
    /\ p.user \notin {Proxy} \cup applied.bypass
    /\ \/ p.service \in ToSet(WebServices) /\ p.place # "loopback"
       \/ p.service \in ToSet(DnsServices) /\ p.user \notin {Resolver} \cup applied.accounts

(* ... and which traffic leaves untouched.                                 *)
ToDestination(p) ==
    \/ p.conn = "reply" \/ p.place = "loopback" \/ Opened(p)
    \/ p.user \in {Proxy, Resolver} \cup applied.bypass
    \/ p.user \in applied.accounts /\ p.service \in {"ntp"} \cup ToSet(DnsServices)
    \/ IsIpv6 /\ p.service = "icmp6"
    \/ p.place = "local" /\ p.service \in {"proxy", "dnsproxy-udp", "dnsproxy-tcp", "webui"}

(* The last command of a start has run: the proxy is about to be started,  *)
(* and the chains stay as they are until ExecStopPost.                     *)
StartIsDone == running = "start" /\ todo = <<>>

(* Every packet of every account then meets exactly the policy, whatever   *)
(* earlier starts, failures and other rules left behind, unless other      *)
(* management inserted rules of its own while the hook ran.                *)
PolicyEnforced ==
    StartIsDone /\ ~disturbed =>
        LET filter == Filter IN
        \A p \in Packets :
            Outcome(filter, p) = IF ToProxy(p) THEN "proxied"
                         ELSE IF ToDestination(p) THEN "direct" ELSE "blocked"

(* The hook, which deletes rules by value and by line number, removes or   *)
(* copies a rule of other management only if another one was inserted      *)
(* between a listing of remove_by_comment and its deletion: "admin" is     *)
(* every rule inserted but those.                                          *)
AdminRulesKept == \A c \in {"nat", "out"} : AdminRules(chains[c]) = admin[c]

(* remove_by_comment: "Remove every rule in a chain carrying an exact      *)
(* comment token."                                                         *)
RemovesOnlyTagged ==
    [][DeleteListed => chains[Head(todo).chain][listed].tag = Head(todo).tag]_vars

(* The configuration names no custom rule twice, nor systemd-resolve, which *)
(* has its own rule anyway.                                                *)
NamesOnce == IsInjective(applied.custom) /\ Resolver \notin applied.bypass

(* Repeated starts over whatever is left never leave two copies of a rule, *)
(* in the managed chain unless the configuration names one twice.          *)
NothingAccumulates ==
    StartIsDone =>
        \A c \in DOMAIN chains : (c = "own" => NamesOnce) =>
            \A i, j \in DOMAIN chains[c] :
                chains[c][i] = chains[c][j] /\ chains[c][i].tag # "admin" => i = j

(* A DNS bypass of an account that has been removed.                       *)
Orphaned(rule) ==
    \E s \in ToSet(DnsServices), u \in NtpUsers \ accounts : rule = NtpDnsBypassRule(s, u)

(* Nothing of mitmwall is in the chains, but for orphaned bypasses and its *)
(* own chain, which remove_output_filter empties and keeps.                *)
Clean ==
    /\ AdminRules(chains.nat) = admin.nat
    /\ \A i \in DOMAIN chains.nat : chains.nat[i].tag = "admin" \/ Orphaned(chains.nat[i])
    /\ chains.out = admin.out
    /\ chains.own \in {NoChain, <<>>}

(* A stop that completes removes every rule any release ever installed,    *)
(* whatever failed before.                                                 *)
StopCleans == running = "stop" /\ todo = <<>> => Clean

(* An ordinary user reaches a remote host that no operator opened: over a  *)
(* service the proxy takes, over DNS, or over any other.                   *)
Probes == [user : Ordinary, service : {"https", "dns-udp", "other"},
           place : {"remote"}, conn : {"new", "original"}]

Open == LET filter == Filter IN \E p \in Probes : Outcome(filter, p) = "direct"

(* Once the policy is closed, a start opens it only while it rebuilds the  *)
(* managed chain: between the flush and the DROP rule, and between the     *)
(* removal and the insertion of the jump. A rule of other management is    *)
(* no step of the start.                                                   *)
OpensOnlyInRebuild ==
    [][/\ running = "start" /\ running' = "start" /\ chains' # chains /\ todo # <<>>
       /\ Head(todo) \notin {FlushChain, RemoveAll("out", JumpRule)}
       /\ admin'.out = admin.out
       /\ Open'
       => Open]_vars

(* Whatever failed, repeated stops remove everything, or a start takes     *)
(* over.                                                                   *)
RetryCleans == unit \in {"stopping", "inactive"} ~> (Clean \/ unit = "starting")

(* remove_ntp_dns_bypass_rule: "Remove the NTP DNS bypass rules installed  *)
(* by the "start" action."                                                 *)
StopRemovesNtpBypasses ==
    running = "stop" /\ todo = <<>> =>
        \A s \in ToSet(DnsServices), u \in NtpUsers :
            ~RuleExists(chains.nat, NtpDnsBypassRule(s, u))
=============================================================================
