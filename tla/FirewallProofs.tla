--------------------------- MODULE FirewallProofs ---------------------------
(***************************************************************************)
(* Proofs about Firewall: whatever earlier starts, failures, kills, edits  *)
(* and other rules left in the chains, for every configuration and every   *)
(* set of accounts.                                                        *)
(*                                                                         *)
(* The argument has three parts. A start's commands come in phases, and    *)
(* every insertion directly follows the removal of the same rule. At each  *)
(* step of a start or a stop, what a command establishes holds, or the     *)
(* command has yet to run. And what a chain does to a packet depends only  *)
(* on which rules are above which.                                         *)
(***************************************************************************)
EXTENDS Firewall, ChainProofs

-----------------------------------------------------------------------------
(* The commands of a program                                               *)

LegacyRules == {LegacyRule(s) : s \in ToSet(WebServices) \cup ToSet(DnsServices)}

Redirects(b) ==
    {DnsRedirectRule(s, b) : s \in ToSet(DnsServices)}
    \cup {RedirectRule(s, b) : s \in ToSet(WebServices)}

NtpBypasses(a) == {NtpDnsBypassRule(s, u) : s \in ToSet(DnsServices), u \in NtpUsers \cap a}

CustomRules(cu) == {CustomRule(s) : s \in ToSet(cu)}

(* What a start inserts into the nat chain.                                *)
NatRules(b, a, cu) == Redirects(b) \cup NtpBypasses(a) \cup CustomRules(cu)

(* What a start puts into the managed chain.                               *)
NtpFilterRules(a) ==
    {Rule("none", {u}, {s}, Places, "ACCEPT") : u \in NtpUsers \cap a,
                                                s \in {"ntp", "dns-udp", "dns-tcp"}}

ListenerRules ==
    {ServiceRule(s, {"loopback", "local"}) :
         s \in {"proxy", "dnsproxy-udp", "dnsproxy-tcp", "webui"}}

ManagedAccepts(b, a) ==
    {ReplyRule, OwnerRule(Proxy), OwnerRule(Resolver), LoopbackRule}
    \cup {OwnerRule(u) : u \in b} \cup NtpFilterRules(a) \cup ListenerRules
    \cup (IF IsIpv6 THEN {ServiceRule("icmp6", Places)} ELSE {})

Managed(b, a) == ManagedAccepts(b, a) \cup {DropRule}

StartCommands(b, a, cu) ==
    {RemoveAll("nat", r) : r \in LegacyRules}
    \cup {RemoveByComment("nat", "mitmwall-redirect"), CallForwarding}
    \cup {RemoveAll("nat", r) : r \in NatRules(b, a, cu)}
    \cup {Insert("nat", r) : r \in NatRules(b, a, cu)}
    \cup {EnsureChain, FlushChain}
    \cup {AppendOwn(r) : r \in Managed(b, a)}
    \cup {RemoveAll("out", JumpRule), Insert("out", JumpRule)}
    \cup {RemoveByComment("own", "mitmwall-custom"), RemoveByComment("nat", "mitmwall-custom")}
    \cup {InsertBeforeDrop(r) : r \in CustomRules(cu)}

StopCommands(a) ==
    {CallForwarding, FlushChain, RemoveByComment("nat", "mitmwall-redirect"),
     RemoveByComment("own", "mitmwall-custom"), RemoveByComment("nat", "mitmwall-custom"),
     RemoveAll("out", JumpRule)}
    \cup {RemoveAll("nat", r) : r \in LegacyRules \cup NtpBypasses(a)}

(* A start runs its commands in this order.                                *)
Phase(c) ==
    CASE c.op = "remove_by_comment" -> IF c.tag = "mitmwall-redirect" THEN 2 ELSE 11
      [] c.op = "forwarding"        -> 3
      [] c.op = "ensure_chain"      -> 6
      [] c.op = "flush_chain"       -> 7
      [] c.op = "append"            -> IF c.rule.verdict = "DROP" THEN 9 ELSE 8
      [] c.op = "add_rule"          -> 12
      [] c.op \in {"remove_all", "insert"} ->
             IF c.chain = "out" THEN 10
             ELSE IF c.rule.tag = "mitmwall-redirect" THEN 4
             ELSE IF c.rule.tag = "mitmwall-custom" THEN 12
             ELSE IF c.rule.verdict = "ACCEPT" THEN 5 ELSE 1

(* A run of commands in order, from phases lo to hi, in which a rule is    *)
(* removed just before it is inserted, and then inserted, but for the      *)
(* rules of older releases.                                                *)
Arranged(s, lo, hi) ==
    /\ \A i \in 1..Len(s) : Phase(s[i]) \in lo..hi
    /\ \A i, j \in 1..Len(s) : i < j => Phase(s[i]) <= Phase(s[j])
    /\ \A i \in 1..Len(s) : s[i].op = "insert" =>
           i > 1 /\ s[i - 1] = RemoveAll(s[i].chain, s[i].rule)
    /\ \A i \in 1..Len(s) : s[i].op = "remove_all" /\ Phase(s[i]) # 1 =>
           i < Len(s) /\ s[i + 1] = Insert(s[i].chain, s[i].rule)

LEMMA ArrangedEmpty == ASSUME NEW n \in Nat PROVE Arranged(<<>>, n, n)
  BY DEF Arranged

LEMMA ArrangedJoin ==
    ASSUME NEW S, NEW s \in Seq(S), NEW t \in Seq(S),
           NEW lo \in Nat, NEW m \in Nat, NEW k \in Nat, NEW hi \in Nat,
           lo <= m, m <= k, k <= hi,
           Arranged(s, lo, m), Arranged(t, k, hi)
    PROVE  Arranged(s \o t, lo, hi)
<1> DEFINE u == s \o t
<1>1. /\ u \in Seq(S) /\ Len(u) = Len(s) + Len(t)
      /\ \A i \in 1..Len(s) : u[i] = s[i]
      /\ \A i \in 1..Len(t) : u[i + Len(s)] = t[i]
      /\ Len(s) \in Nat /\ Len(t) \in Nat /\ Len(u) \in Nat
  BY ConcatLines
<1> HIDE DEF u
<1>2. ASSUME NEW i \in 1..Len(u), i > Len(s)
      PROVE  i - Len(s) \in 1..Len(t) /\ u[i] = t[i - Len(s)]
  <2>1. i - Len(s) \in 1..Len(t) /\ (i - Len(s)) + Len(s) = i
    BY <1>1, <1>2
  <2> QED
    BY <2>1, <1>1
<1>3. ASSUME NEW i \in 1..Len(u), i <= Len(s) PROVE i \in 1..Len(s) /\ u[i] = s[i]
  BY <1>1, <1>3
<1>4. ASSUME NEW i \in 1..Len(u)
      PROVE  /\ Phase(u[i]) \in lo..hi
             /\ i <= Len(s) => Phase(u[i]) <= m
             /\ i > Len(s) => Phase(u[i]) >= k
  <2>1. CASE i <= Len(s)
    <3>1. Phase(u[i]) \in lo..m
      BY <1>3, <2>1 DEF Arranged
    <3> QED
      BY <2>1, <3>1, <1>1
  <2>2. CASE i > Len(s)
    <3>1. Phase(u[i]) \in k..hi
      BY <1>2, <2>2 DEF Arranged
    <3> QED
      BY <2>2, <3>1, <1>1
  <2> QED
    BY <2>1, <2>2, <1>1
<1>5. ASSUME NEW i \in 1..Len(u), NEW j \in 1..Len(u), i < j
      PROVE  Phase(u[i]) <= Phase(u[j])
  <2>1. CASE j <= Len(s)
    <3>1. i <= Len(s)
      BY <1>1, <1>5, <2>1
    <3> QED
      BY <1>3, <1>5, <2>1, <3>1 DEF Arranged
  <2>2. CASE i > Len(s)
    <3>1. j > Len(s)
      BY <1>1, <1>5, <2>2
    <3>2. i - Len(s) < j - Len(s)
      BY <1>1, <1>5
    <3> QED
      BY <1>2, <2>2, <3>1, <3>2 DEF Arranged
  <2>3. CASE i <= Len(s) /\ j > Len(s)
    BY <1>4, <2>3
  <2> QED
    BY <2>1, <2>2, <2>3, <1>1
<1>6. ASSUME NEW i \in 1..Len(u), u[i].op = "insert"
      PROVE  i > 1 /\ u[i - 1] = RemoveAll(u[i].chain, u[i].rule)
  <2>1. CASE i <= Len(s)
    <3>1. i \in 1..Len(s) /\ u[i] = s[i]
      BY <1>3, <2>1
    <3>2. i > 1 /\ s[i - 1] = RemoveAll(s[i].chain, s[i].rule)
      BY <1>6, <3>1 DEF Arranged
    <3>3. i - 1 \in 1..Len(s)
      BY <3>1, <3>2
    <3> QED
      BY <1>1, <3>1, <3>2, <3>3
  <2>2. CASE i > Len(s)
    <3> DEFINE j == i - Len(s)
    <3>1. j \in 1..Len(t) /\ u[i] = t[j]
      BY <1>2, <2>2
    <3>2. j > 1 /\ t[j - 1] = RemoveAll(t[j].chain, t[j].rule)
      BY <1>6, <3>1 DEF Arranged
    <3>3. j - 1 \in 1..Len(t) /\ (j - 1) + Len(s) = i - 1 /\ i > 1
      BY <1>1, <3>1, <3>2
    <3>4. u[i - 1] = t[j - 1]
      BY <1>1, <3>3
    <3> QED
      BY <3>1, <3>2, <3>3, <3>4
  <2> QED
    BY <2>1, <2>2, <1>1
<1>7. ASSUME NEW i \in 1..Len(u), u[i].op = "remove_all", Phase(u[i]) # 1
      PROVE  i < Len(u) /\ u[i + 1] = Insert(u[i].chain, u[i].rule)
  <2>1. CASE i <= Len(s)
    <3>1. i \in 1..Len(s) /\ u[i] = s[i]
      BY <1>3, <2>1
    <3>2. i < Len(s) /\ s[i + 1] = Insert(s[i].chain, s[i].rule)
      BY <1>7, <3>1 DEF Arranged
    <3>3. i + 1 \in 1..Len(s) /\ i < Len(u)
      BY <1>1, <3>1, <3>2
    <3> QED
      BY <1>1, <3>1, <3>2, <3>3
  <2>2. CASE i > Len(s)
    <3> DEFINE j == i - Len(s)
    <3>1. j \in 1..Len(t) /\ u[i] = t[j]
      BY <1>2, <2>2
    <3>2. j < Len(t) /\ t[j + 1] = Insert(t[j].chain, t[j].rule)
      BY <1>7, <3>1 DEF Arranged
    <3>3. j + 1 \in 1..Len(t) /\ (j + 1) + Len(s) = i + 1 /\ i < Len(u)
      BY <1>1, <3>1, <3>2
    <3>4. u[i + 1] = t[j + 1]
      BY <1>1, <3>3
    <3> QED
      BY <3>1, <3>2, <3>3, <3>4
  <2> QED
    BY <2>1, <2>2, <1>1
<1>8. Arranged(u, lo, hi)
  BY <1>4, <1>5, <1>6, <1>7 DEF Arranged
<1> QED
  BY <1>8 DEF u

LEMMA ArrangedFlatten ==
    ASSUME NEW S, NEW ss \in Seq(Seq(S)), NEW n \in Nat,
           \A s \in ToSet(ss) : Arranged(s, n, n)
    PROVE  Arranged(FlattenSeq(ss), n, n)
<1> DEFINE Fine(uu) == (\A s \in ToSet(uu) : Arranged(s, n, n)) => Arranged(FlattenSeq(uu), n, n)
           A == {uu \in Seq(Seq(S)) : Fine(uu)}
<1>1. <<>> \in A
  <2>1. Arranged(FlattenSeq(<<>>), n, n) /\ <<>> \in Seq(Seq(S))
    BY FlattenEmpty, ArrangedEmpty
  <2> QED
    BY <2>1
<1>2. ASSUME NEW uu \in Seq(Seq(S)), uu \in A, NEW e \in Seq(S) PROVE Append(uu, e) \in A
  <2>1. Append(uu, e) \in Seq(Seq(S))
    BY AppendProperties
  <2>2. Fine(Append(uu, e))
    <3> SUFFICES ASSUME \A s \in ToSet(Append(uu, e)) : Arranged(s, n, n)
                 PROVE  Arranged(FlattenSeq(Append(uu, e)), n, n)
      OBVIOUS
    <3>1. ToSet(Append(uu, e)) = ToSet(uu) \cup {e}
      BY ToSetAppend
    <3>2. Arranged(e, n, n) /\ Arranged(FlattenSeq(uu), n, n)
      BY <1>2, <3>1
    <3>3. FlattenSeq(uu) \in Seq(S)
      BY FlattenTyped
    <3>4. Arranged(FlattenSeq(uu) \o e, n, n)
      BY <3>2, <3>3, ArrangedJoin
    <3> QED
      BY <3>4, FlattenAppend
  <2> QED
    BY <2>1, <2>2
<1>3. ss \in A
  <2> HIDE DEF A
  <2> QED
    BY <1>1, <1>2, SeqInduction
<1> QED
  BY <1>3

-----------------------------------------------------------------------------
(* The rules                                                               *)

LEMMA ServicesAre ==
    /\ ToSet(WebServices) = {"http", "https"}
    /\ ToSet(DnsServices) = {"dns-udp", "dns-tcp"}
    /\ Services = {"http", "https", "dns-udp", "dns-tcp", "ntp", "icmp6", "other", "proxy",
                   "dnsproxy-udp", "dnsproxy-tcp", "webui"}
<1>1. DOMAIN WebServices = {1, 2} /\ DOMAIN DnsServices = {1, 2}
  BY DEF WebServices, DnsServices
<1>2. ToSet(WebServices) = {"http", "https"} /\ ToSet(DnsServices) = {"dns-udp", "dns-tcp"}
  BY <1>1 DEF ToSet, WebServices, DnsServices
<1> QED
  BY <1>2 DEF Services

LEMMA UsersAre ==
    /\ Proxy \in Users /\ Resolver \in Users /\ Configurable \subseteq Users
    /\ Ordinary \subseteq Users /\ NtpUsers \subseteq Users
  BY DEF Users

LEMMA RuleTyped ==
    ASSUME NEW tag \in Tags, NEW us \in SUBSET Users, NEW ss \in SUBSET Services,
           NEW ps \in SUBSET Places, NEW v \in Verdicts
    PROVE  Rule(tag, us, ss, ps, v) \in Rules
  BY DEF Rule, Rules

LEMMA RulesTyped ==
    /\ JumpRule \in Rules /\ DropRule \in Rules /\ ReplyRule \in Rules /\ LoopbackRule \in Rules
    /\ AdminRule("ACCEPT") \in Rules
    /\ \A u \in Users : OwnerRule(u) \in Rules
    /\ \A s \in Services, ps \in SUBSET Places : ServiceRule(s, ps) \in Rules
    /\ \A s \in Services, u \in Users : Rule("none", {u}, {s}, Places, "ACCEPT") \in Rules
    /\ \A s \in Services, b \in SUBSET Users :
           RedirectRule(s, b) \in Rules /\ DnsRedirectRule(s, b) \in Rules
    /\ \A s \in Services : LegacyRule(s) \in Rules /\ CustomRule(s) \in Rules
<1>1. /\ "none" \in Tags /\ "admin" \in Tags /\ "mitmwall-redirect" \in Tags
      /\ "mitmwall-custom" \in Tags
      /\ "ACCEPT" \in Verdicts /\ "DROP" \in Verdicts /\ "REDIRECT" \in Verdicts
      /\ "MITMWALL_OUTPUT" \in Verdicts
      /\ {"loopback"} \subseteq Places /\ {"custom"} \subseteq Places
      /\ Places \ {"loopback"} \subseteq Places
  BY DEF Tags, Verdicts, Places
<1>2. Ordinary \subseteq Users
  BY UsersAre
<1>3. ReplyRule \in Rules
  BY <1>1 DEF ReplyRule, Rule, Rules, Conns
<1>4. JumpRule \in Rules /\ DropRule \in Rules /\ LoopbackRule \in Rules
      /\ AdminRule("ACCEPT") \in Rules
  BY <1>1, RuleTyped DEF JumpRule, DropRule, LoopbackRule, AdminRule
<1>5. /\ \A u \in Users : OwnerRule(u) \in Rules
      /\ \A s \in Services, ps \in SUBSET Places : ServiceRule(s, ps) \in Rules
      /\ \A s \in Services, u \in Users : Rule("none", {u}, {s}, Places, "ACCEPT") \in Rules
  BY <1>1, RuleTyped DEF OwnerRule, ServiceRule
<1>6. /\ \A s \in Services, b \in SUBSET Users :
           RedirectRule(s, b) \in Rules /\ DnsRedirectRule(s, b) \in Rules
      /\ \A s \in Services : LegacyRule(s) \in Rules /\ CustomRule(s) \in Rules
  BY <1>1, <1>2, RuleTyped DEF RedirectRule, DnsRedirectRule, LegacyRule, CustomRule
<1> QED
  BY <1>3, <1>4, <1>5, <1>6

(* Installed is the accounts of NtpOrder that exist, each once.            *)
LEMMA InstalledAccounts ==
    ASSUME NEW a
    PROVE  /\ Installed(a) \in Seq(NtpUsers)
           /\ ToSet(Installed(a)) = NtpUsers \cap a
           /\ Distinct(Installed(a))
<1> DEFINE ss == [i \in DOMAIN NtpOrder |-> IF NtpOrder[i] \in a THEN <<NtpOrder[i]>> ELSE <<>>]
<1>1. /\ NtpOrder \in Seq(NtpUsers) /\ IsInjective(NtpOrder)
      /\ DOMAIN NtpOrder = 1..Len(NtpOrder) /\ Len(NtpOrder) \in Nat
      /\ \A i \in 1..Len(NtpOrder) : NtpOrder[i] \in NtpUsers
  BY FirewallAssumption
<1>2. Installed(a) = FlattenSeq(ss)
  BY DEF Installed, Each
<1>3. \A i \in 1..Len(NtpOrder) :
          /\ ss[i] = IF NtpOrder[i] \in a THEN <<NtpOrder[i]>> ELSE <<>>
          /\ ss[i] \in Seq(NtpUsers)
          /\ ToSet(ss[i]) = {NtpOrder[i]} \cap a
          /\ Distinct(ss[i])
  <2> SUFFICES ASSUME NEW i \in 1..Len(NtpOrder)
               PROVE  /\ ss[i] = IF NtpOrder[i] \in a THEN <<NtpOrder[i]>> ELSE <<>>
                      /\ ss[i] \in Seq(NtpUsers)
                      /\ ToSet(ss[i]) = {NtpOrder[i]} \cap a
                      /\ Distinct(ss[i])
    OBVIOUS
  <2>1. ss[i] = IF NtpOrder[i] \in a THEN <<NtpOrder[i]>> ELSE <<>>
    BY <1>1
  <2> HIDE DEF ss
  <2>2. CASE NtpOrder[i] \in a
    BY <1>1, <2>1, <2>2 DEF ToSet, Distinct
  <2>3. CASE NtpOrder[i] \notin a
    BY <1>1, <2>1, <2>3 DEF ToSet, Distinct
  <2> QED
    BY <2>1, <2>2, <2>3
<1>4. ss \in Seq(Seq(NtpUsers)) /\ Len(ss) = Len(NtpOrder)
  <2>1. DOMAIN ss = 1..Len(NtpOrder)
    BY <1>1
  <2>2. ss \in [1..Len(NtpOrder) -> Seq(NtpUsers)]
    BY <1>1, <1>3, <2>1
  <2> HIDE DEF ss
  <2> QED
    BY <1>1, <2>1, <2>2
<1> HIDE DEF ss
<1>5. ToSet(FlattenSeq(ss)) = NtpUsers \cap a
  <2>1. \A e : e \in ToSet(FlattenSeq(ss)) <=> \E i \in 1..Len(ss) : e \in ToSet(ss[i])
    BY <1>4, FlattenMembers
  <2>2. \A e : e \in NtpUsers <=> \E i \in 1..Len(NtpOrder) : e = NtpOrder[i]
    BY <1>1 DEF NtpUsers, ToSet
  <2>3. \A i \in 1..Len(ss) : ToSet(ss[i]) = {NtpOrder[i]} \cap a
    BY <1>3, <1>4
  <2>4. ASSUME NEW e PROVE e \in ToSet(FlattenSeq(ss)) <=> e \in NtpUsers \cap a
    <3>1. e \in ToSet(FlattenSeq(ss)) <=> \E i \in 1..Len(NtpOrder) : e = NtpOrder[i] /\ e \in a
      BY <1>4, <2>1, <2>3
    <3> QED
      BY <3>1, <2>2
  <2> QED
    BY <2>4
<1>6. Distinct(FlattenSeq(ss))
  <2>1. ASSUME NEW i \in 1..Len(ss), NEW j \in 1..Len(ss), i # j
        PROVE  ToSet(ss[i]) \cap ToSet(ss[j]) = {}
    <3>1. NtpOrder[i] # NtpOrder[j]
      BY <1>1, <1>4, <2>1 DEF IsInjective
    <3> QED
      BY <1>3, <1>4, <3>1
  <2> QED
    BY <1>3, <1>4, <2>1, DistinctFlatten
<1>7. FlattenSeq(ss) \in Seq(NtpUsers)
  BY <1>4, FlattenTyped
<1> QED
  BY <1>2, <1>5, <1>6, <1>7

AcceptRules == {r \in Rules : r.verdict = "ACCEPT"}

LEMMA AcceptRulesTyped ==
    /\ ReplyRule \in AcceptRules /\ LoopbackRule \in AcceptRules
    /\ \A u \in Users : OwnerRule(u) \in AcceptRules
    /\ \A s \in Services, ps \in SUBSET Places : ServiceRule(s, ps) \in AcceptRules
    /\ \A s \in Services, u \in Users : Rule("none", {u}, {s}, Places, "ACCEPT") \in AcceptRules
<1>1. ReplyRule.verdict = "ACCEPT" /\ LoopbackRule.verdict = "ACCEPT"
  BY DEF ReplyRule, LoopbackRule, Rule
<1>2. \A u, s, ps : /\ OwnerRule(u).verdict = "ACCEPT" /\ ServiceRule(s, ps).verdict = "ACCEPT"
                    /\ Rule("none", {u}, {s}, ps, "ACCEPT").verdict = "ACCEPT"
  BY DEF OwnerRule, ServiceRule, Rule
<1> QED
  BY <1>1, <1>2, RulesTyped DEF AcceptRules

(* The three filter rules of each time synchronization account.            *)
LEMMA NtpFilterLines ==
    ASSUME NEW a
    PROVE  LET rules == FlattenSeq(Each(LAMBDA u : Each(LAMBDA s : Rule("none", {u}, {s}, Places, "ACCEPT"),
                                                        <<"ntp">> \o DnsServices),
                                        Installed(a)))
           IN  /\ rules \in Seq(AcceptRules)
               /\ ToSet(rules) = NtpFilterRules(a)
               /\ Distinct(rules)
<1> DEFINE L == <<"ntp">> \o DnsServices
           R(u, s) == Rule("none", {u}, {s}, Places, "ACCEPT")
           is == Installed(a)
           ss == [i \in DOMAIN is |-> [j \in DOMAIN L |-> R(is[i], L[j])]]
<1>1. DOMAIN L = 1..3 /\ L[1] = "ntp" /\ L[2] = "dns-udp" /\ L[3] = "dns-tcp"
  <2> DEFINE Names == {"ntp", "dns-udp", "dns-tcp"}
             s == <<"ntp">>
             d == <<"dns-udp", "dns-tcp">>
  <2>1. /\ s \in Seq(Names) /\ Len(s) = 1 /\ s[1] = "ntp"
        /\ d \in Seq(Names) /\ Len(d) = 2 /\ d[1] = "dns-udp" /\ d[2] = "dns-tcp"
    OBVIOUS
  <2>2. L = s \o d
    BY DEF DnsServices
  <2> HIDE DEF s, d, L, Names
  <2>3. /\ s \o d \in Seq(Names) /\ Len(s \o d) = Len(s) + Len(d)
        /\ \A i \in 1..Len(s) : (s \o d)[i] = s[i]
        /\ \A i \in 1..Len(d) : (s \o d)[i + Len(s)] = d[i]
    <3>1. s \in Seq(Names) /\ d \in Seq(Names)
      BY <2>1
    <3> QED
      BY <3>1, ConcatLines
  <2>4. L \in Seq(Names) /\ Len(L) = 3
    BY <2>1, <2>2, <2>3
  <2>5. L[1] = "ntp"
    BY <2>1, <2>2, <2>3
  <2>6. 1 \in 1..Len(d) /\ 2 \in 1..Len(d) /\ 1 + Len(s) = 2 /\ 2 + Len(s) = 3
    BY <2>1
  <2>7. L[2] = d[1] /\ L[3] = d[2]
    BY <2>2, <2>3, <2>6
  <2> QED
    BY <2>1, <2>4, <2>5, <2>7
<1>2. /\ is \in Seq(NtpUsers) /\ ToSet(is) = NtpUsers \cap a /\ Distinct(is)
  BY InstalledAccounts
<1>3. \A u \in NtpUsers, s \in {"ntp", "dns-udp", "dns-tcp"} : R(u, s) \in AcceptRules
  BY AcceptRulesTyped, UsersAre, ServicesAre
<1>4. \A u, v, s, w : R(u, s) = R(v, w) => u = v /\ s = w
  BY DEF Rule
<1> HIDE DEF L, R, is
<1>5. /\ \A j \in 1..3 : L[j] \in {"ntp", "dns-udp", "dns-tcp"}
      /\ \A s \in {"ntp", "dns-udp", "dns-tcp"} : \E j \in 1..3 : L[j] = s
      /\ \A j, k \in 1..3 : L[j] = L[k] => j = k
  BY <1>1
<1>6. DOMAIN is = 1..Len(is) /\ Len(is) \in Nat /\ \A i \in 1..Len(is) : is[i] \in NtpUsers
  BY <1>2
<1>7. ASSUME NEW i \in 1..Len(is)
      PROVE  /\ ss[i] \in Seq(AcceptRules)
             /\ \A e : e \in ToSet(ss[i]) <=>
                          \E s \in {"ntp", "dns-udp", "dns-tcp"} : e = R(is[i], s)
             /\ Distinct(ss[i])
  <2> DEFINE t == ss[i]
  <2>1. t = [j \in 1..3 |-> R(is[i], L[j])]
    BY <1>1, <1>6
  <2> HIDE DEF t
  <2>2. DOMAIN t = 1..3 /\ \A j \in 1..3 : t[j] = R(is[i], L[j])
    BY <2>1
  <2>3. \A j \in 1..3 : t[j] \in AcceptRules
    BY <1>3, <1>5, <1>6, <2>2
  <2>4. t \in Seq(AcceptRules) /\ Len(t) = 3
    <3>1. t \in [1..3 -> AcceptRules]
      BY <2>1, <2>2, <2>3
    <3>2. 3 \in Nat
      OBVIOUS
    <3> QED
      BY <3>1, <3>2, ListTyped
  <2>5. \A e : e \in ToSet(t) <=> \E j \in 1..3 : e = t[j]
    BY <2>2 DEF ToSet
  <2>6. \A e : e \in ToSet(t) <=> \E s \in {"ntp", "dns-udp", "dns-tcp"} : e = R(is[i], s)
    BY <1>5, <2>2, <2>5
  <2>7. Distinct(t)
    BY <1>4, <1>5, <2>2, <2>4 DEF Distinct
  <2> QED
    BY <2>4, <2>6, <2>7 DEF t
<1>8. ss \in Seq(Seq(AcceptRules)) /\ Len(ss) = Len(is)
  <2>1. DOMAIN ss = 1..Len(is)
    BY <1>6
  <2>2. ss \in [1..Len(is) -> Seq(AcceptRules)]
    BY <1>7, <2>1, <1>6
  <2> HIDE DEF ss
  <2> QED
    BY <1>6, <2>1, <2>2
<1>9. \A i, j \in 1..Len(ss) : i # j => ToSet(ss[i]) \cap ToSet(ss[j]) = {}
  <2> SUFFICES ASSUME NEW i \in 1..Len(ss), NEW j \in 1..Len(ss), i # j
               PROVE  ToSet(ss[i]) \cap ToSet(ss[j]) = {}
    BY Zenon
  <2>1. is[i] # is[j]
    BY <1>2, <1>8 DEF Distinct
  <2> HIDE DEF ss
  <2>2. ASSUME NEW e, e \in ToSet(ss[i]), e \in ToSet(ss[j]) PROVE FALSE
    <3>1. PICK s : e = R(is[i], s)
      BY <1>7, <1>8, <2>2
    <3>2. PICK w : e = R(is[j], w)
      BY <1>7, <1>8, <2>2
    <3> QED
      BY <1>4, <2>1, <3>1, <3>2
  <2> QED
    BY <2>2
<1> DEFINE rules == FlattenSeq(ss)
<1>10. rules \in Seq(AcceptRules)
  <2> HIDE DEF ss
  <2> QED
    BY <1>8, FlattenTyped
<1>11. Distinct(rules)
  <2> HIDE DEF ss
  <2> QED
    BY <1>7, <1>8, <1>9, DistinctFlatten
<1>12. ToSet(rules) = NtpFilterRules(a)
  <2> HIDE DEF ss
  <2>1. \A e : e \in ToSet(rules) <=> \E i \in 1..Len(ss) : e \in ToSet(ss[i])
    BY <1>8, FlattenMembers
  <2>2. \A u : u \in NtpUsers \cap a <=> \E i \in 1..Len(is) : u = is[i]
    BY <1>2, ToSetMember
  <2>3. \A e : e \in NtpFilterRules(a)
                <=> \E u \in NtpUsers \cap a, s \in {"ntp", "dns-udp", "dns-tcp"} : e = R(u, s)
    BY DEF NtpFilterRules, R
  <2> HIDE DEF rules
  <2>4. ASSUME NEW e, e \in ToSet(rules) PROVE e \in NtpFilterRules(a)
    <3>1. PICK i \in 1..Len(is) : e \in ToSet(ss[i])
      BY <1>8, <2>1, <2>4
    <3>2. PICK s \in {"ntp", "dns-udp", "dns-tcp"} : e = R(is[i], s)
      BY <1>7, <3>1
    <3> QED
      BY <2>2, <2>3, <3>2
  <2>5. ASSUME NEW e, e \in NtpFilterRules(a) PROVE e \in ToSet(rules)
    <3>1. PICK u \in NtpUsers \cap a, s \in {"ntp", "dns-udp", "dns-tcp"} : e = R(u, s)
      BY <2>3, <2>5
    <3>2. PICK i \in 1..Len(is) : u = is[i]
      BY <2>2
    <3>3. e \in ToSet(ss[i])
      BY <1>7, <3>1, <3>2
    <3> QED
      BY <1>8, <2>1, <3>3
  <2> QED
    BY <2>4, <2>5
<1> QED
  BY <1>10, <1>11, <1>12 DEF Each, ss, rules, is, L, R

-----------------------------------------------------------------------------
(* The inductive invariant                                                 *)

NotRedirect == {r \in Rules : r.verdict # "REDIRECT"}
NotDrop     == {r \in Rules : r.verdict # "DROP"}

(* Of every rule of the managed chain: it is the DROP rule, or it lets no  *)
(* ordinary account through to a remote host.                              *)
Harmless(r) ==
    r = DropRule \/ (r.verdict = "ACCEPT" /\ \A p \in Probes : ~Matching(r, p))

(* What any release or administrator put into the nat chain.               *)
NatKind(r) ==
    \/ r = AdminRule("ACCEPT") \/ r \in LegacyRules \/ r \in NtpBypasses(NtpUsers)
    \/ r.tag = "mitmwall-redirect"
    \/ r.tag = "mitmwall-custom" /\ r.verdict = "ACCEPT"

(* In any state of the hook. Rules are never duplicated, but those of      *)
(* older releases, which no start inserts, and the administrator's.        *)
NatKept(nat) ==
    /\ \A r \in ToSet(nat) : NatKind(r)
    /\ \A r \in Rules : r.tag # "admin" /\ r \notin LegacyRules => Once(nat, r)

OutKept(out) ==
    /\ \A r \in ToSet(out) : r = AdminRule("ACCEPT") \/ r = JumpRule
    /\ Once(out, JumpRule)

OwnKept(own) == own # NoChain => \A r \in ToSet(own) : Harmless(r)

(* What remains of a start's or a stop's program.                          *)
Paired(t) ==
    /\ \A i, j \in 1..Len(t) : i < j => Phase(t[i]) <= Phase(t[j])
    /\ \A i \in 1..Len(t) : i > 1 /\ t[i].op = "insert" =>
           t[i - 1] = RemoveAll(t[i].chain, t[i].rule)
    /\ \A i \in 1..Len(t) : t[i].op = "remove_all" /\ Phase(t[i]) # 1 =>
           i < Len(t) /\ t[i + 1] = Insert(t[i].chain, t[i].rule)

(* The commands that are no longer in t are of no later phase.             *)
Reached(t, commands) ==
    t # <<>> => \A c \in commands : c \in ToSet(t) \/ Phase(c) <= Phase(Head(t))

(* Where a start has come: a command has yet to run, or what it            *)
(* establishes holds. Which rules are above which is known unless other    *)
(* management has inserted rules meanwhile (d).                            *)
NatBuilt(nat, rest, b, a, cu, d) ==
    /\ \A r \in LegacyRules : RemoveAll("nat", r) \in rest \/ r \notin ToSet(nat)
    /\ \/ RemoveByComment("nat", "mitmwall-redirect") \in rest
       \/ \A r \in ToSet(nat) : r.tag = "mitmwall-redirect" => r \in Redirects(b)
    /\ \A r \in Redirects(b) :
           d \/ Insert("nat", r) \in rest \/ Above(nat, r, NatRules(b, a, cu))
    /\ \A r \in NtpBypasses(a) \cup CustomRules(cu) :
           d \/ Insert("nat", r) \in rest \/ Above(nat, r, NotRedirect)

OutBuilt(out, rest, d) ==
    d \/ Insert("out", JumpRule) \in rest \/ Above(out, JumpRule, {})

OwnBuilt(own, t, b, a, cu) ==
    /\ EnsureChain \in ToSet(t) \/ own # NoChain
    /\ \/ FlushChain \in ToSet(t)
       \/ /\ ToSet(own) \subseteq Managed(b, a) \cup CustomRules(cu)
          /\ t # <<>> /\ Phase(Head(t)) <= 8 => ToSet(own) \subseteq NotDrop
    /\ \A r \in ManagedAccepts(b, a) : AppendOwn(r) \in ToSet(t) \/ Above(own, r, NotDrop)
    /\ AppendOwn(DropRule) \in ToSet(t) \/ DropRule \in ToSet(own)
    /\ \A r \in CustomRules(cu) : InsertBeforeDrop(r) \in ToSet(t) \/ Above(own, r, NotDrop)

(* No rule of the managed chain twice: what is appended later is not there *)
(* yet, and is appended once.                                              *)
OnceEach(t) ==
    \A i, j \in 1..Len(t) : t[i] = t[j] /\ t[i].op \in {"append", "add_rule"} => i = j

OwnOnce(own, t) ==
    /\ OnceEach(t)
    /\ \/ FlushChain \in ToSet(t)
       \/ /\ Distinct(own)
          /\ \A r \in Rules :
                 AppendOwn(r) \in ToSet(t) \/ InsertBeforeDrop(r) \in ToSet(t)
                 => r \notin ToSet(own)

(* Where a stop has come.                                                  *)
NatCleared(nat, rest, a) ==
    /\ \A r \in LegacyRules \cup NtpBypasses(a) :
           RemoveAll("nat", r) \in rest \/ r \notin ToSet(nat)
    /\ \A tag \in {"mitmwall-redirect", "mitmwall-custom"} :
           RemoveByComment("nat", tag) \in rest \/ \A r \in ToSet(nat) : r.tag # tag

OutCleared(out, rest) == RemoveAll("out", JumpRule) \in rest \/ JumpRule \notin ToSet(out)

OwnCleared(own, rest) == FlushChain \in rest \/ own \in {NoChain, <<>>}

(* An insertion directly follows the removal of all copies.                *)
InsertsAbsent(t, cs) ==
    t # <<>> /\ Head(t).op = "insert" => Head(t).rule \notin ToSet(cs[Head(t).chain])

AppliedCommands == StartCommands(applied.bypass, applied.accounts, applied.custom)

Chains == [nat : Seq(Rules), out : Seq(Rules), own : {NoChain} \cup Seq(Rules)]

(* What the chains may hold at any time.                                   *)
ChainsKept(cs) ==
    /\ NatKept(cs.nat) /\ OutKept(cs.out) /\ OwnKept(cs.own)
    /\ JumpRule \in ToSet(cs.out) => cs.own # NoChain

(* What a start with t yet to run has established.                         *)
Established(cs, t, b, a, cu, d) ==
    /\ NatBuilt(cs.nat, ToSet(t), b, a, cu, d)
    /\ OutBuilt(cs.out, ToSet(t), d)
    /\ OwnBuilt(cs.own, t, b, a, cu)

(* What a stop with t yet to run has cleared.                              *)
Cleared(cs, t, a) ==
    /\ NatCleared(cs.nat, ToSet(t), a)
    /\ OutCleared(cs.out, ToSet(t))
    /\ OwnCleared(cs.own, ToSet(t))

TInv ==
    /\ TypeOK
    /\ applied.bypass \subseteq Configurable /\ applied.accounts \subseteq NtpUsers
    /\ applied.custom \in CustomLists
    /\ running = "start" => todo \in Seq(AppliedCommands)
    /\ running = "stop" => todo \in Seq(StopCommands(accounts))

KInv ==
    /\ ChainsKept(chains)
    /\ \A c \in {"nat", "out"} : ToSet(admin[c]) \subseteq {AdminRule("ACCEPT")}
    /\ InsertsAbsent(todo, chains)

SInv ==
    running = "start" =>
        /\ Paired(todo) /\ Reached(todo, AppliedCommands)
        /\ Established(chains, todo, applied.bypass, applied.accounts, applied.custom, disturbed)
        /\ NamesOnce => OwnOnce(chains.own, todo)

CInv == running = "stop" => Cleared(chains, todo, accounts)

(* Between a listing and its deletion: the line is there, and is one with  *)
(* the comment unless other management has shifted the lines of nat.       *)
LInv ==
    /\ listed = 0 => ~shifted
    /\ listed # 0 =>
         /\ todo # <<>> /\ Head(todo).op = "remove_by_comment" /\ Present(Head(todo).chain)
         /\ listed \in 1..Len(chains[Head(todo).chain])
         /\ shifted => disturbed /\ Head(todo).chain = "nat"
         /\ ~shifted => chains[Head(todo).chain][listed].tag = Head(todo).tag

Inv == TInv /\ KInv /\ AdminRulesKept /\ SInv /\ CInv /\ LInv

(* What a command leaves alone.                                            *)
StepOf ==
    UNCHANGED <<unit, running, config, others, faults>> /\ listed' = 0 /\ shifted' = FALSE

-----------------------------------------------------------------------------
(* Commands and their phases                                               *)

LEMMA PhaseValues ==
    /\ \A ch : /\ Phase(RemoveByComment(ch, "mitmwall-redirect")) = 2
               /\ Phase(RemoveByComment(ch, "mitmwall-custom")) = 11
    /\ Phase(CallForwarding) = 3 /\ Phase(EnsureChain) = 6 /\ Phase(FlushChain) = 7
    /\ \A r : /\ Phase(AppendOwn(r)) = IF r.verdict = "DROP" THEN 9 ELSE 8
              /\ Phase(InsertBeforeDrop(r)) = 12
              /\ Phase(RemoveAll("out", r)) = 10 /\ Phase(Insert("out", r)) = 10
              /\ Phase(Insert("nat", r)) = Phase(RemoveAll("nat", r))
              /\ r.tag = "mitmwall-redirect" => Phase(RemoveAll("nat", r)) = 4
              /\ r.tag = "mitmwall-custom" => Phase(RemoveAll("nat", r)) = 12
              /\ r.tag = "none" => Phase(RemoveAll("nat", r)) = IF r.verdict = "ACCEPT" THEN 5 ELSE 1
<1>1. \A ch : /\ Phase(RemoveByComment(ch, "mitmwall-redirect")) = 2
              /\ Phase(RemoveByComment(ch, "mitmwall-custom")) = 11
  BY DEF Phase, RemoveByComment
<1>2. Phase(CallForwarding) = 3 /\ Phase(EnsureChain) = 6 /\ Phase(FlushChain) = 7
  BY DEF Phase, CallForwarding, EnsureChain, FlushChain
<1>3. \A r : Phase(AppendOwn(r)) = IF r.verdict = "DROP" THEN 9 ELSE 8
  BY DEF Phase, AppendOwn
<1>4. \A r : Phase(InsertBeforeDrop(r)) = 12
  BY DEF Phase, InsertBeforeDrop
<1>5. \A r : Phase(RemoveAll("out", r)) = 10 /\ Phase(Insert("out", r)) = 10
  BY DEF Phase, RemoveAll, Insert
<1>6. \A r : Phase(Insert("nat", r)) = Phase(RemoveAll("nat", r))
  BY DEF Phase, RemoveAll, Insert
<1>7. \A r : /\ r.tag = "mitmwall-redirect" => Phase(RemoveAll("nat", r)) = 4
             /\ r.tag = "mitmwall-custom" => Phase(RemoveAll("nat", r)) = 12
             /\ r.tag = "none" => Phase(RemoveAll("nat", r)) = IF r.verdict = "ACCEPT" THEN 5 ELSE 1
  BY DEF Phase, RemoveAll
<1> QED
  BY <1>1, <1>2, <1>3, <1>4, <1>5, <1>6, <1>7

(* The tag and the verdict of each rule.                                   *)
LEMMA RuleFields ==
    /\ \A s : LegacyRule(s).tag = "none" /\ LegacyRule(s).verdict = "REDIRECT"
    /\ \A s, b : /\ RedirectRule(s, b).tag = "mitmwall-redirect"
                 /\ RedirectRule(s, b).verdict = "REDIRECT"
                 /\ DnsRedirectRule(s, b).tag = "mitmwall-redirect"
                 /\ DnsRedirectRule(s, b).verdict = "REDIRECT"
    /\ \A s, u : NtpDnsBypassRule(s, u).tag = "none" /\ NtpDnsBypassRule(s, u).verdict = "ACCEPT"
    /\ \A s : CustomRule(s).tag = "mitmwall-custom" /\ CustomRule(s).verdict = "ACCEPT"
    /\ JumpRule.tag = "none" /\ JumpRule.verdict = "MITMWALL_OUTPUT"
    /\ DropRule.tag = "none" /\ DropRule.verdict = "DROP"
    /\ ReplyRule.tag = "none" /\ ReplyRule.verdict = "ACCEPT"
    /\ LoopbackRule.tag = "none" /\ LoopbackRule.verdict = "ACCEPT"
    /\ \A u : OwnerRule(u).tag = "none" /\ OwnerRule(u).verdict = "ACCEPT"
    /\ \A s, ps : ServiceRule(s, ps).tag = "none" /\ ServiceRule(s, ps).verdict = "ACCEPT"
    /\ AdminRule("ACCEPT").tag = "admin" /\ AdminRule("ACCEPT").verdict = "ACCEPT"
<1>1. \A t, u, s, p, v : Rule(t, u, s, p, v).tag = t /\ Rule(t, u, s, p, v).verdict = v
  BY DEF Rule
<1>2. ReplyRule.tag = "none" /\ ReplyRule.verdict = "ACCEPT"
  BY DEF ReplyRule, Rule
<1> QED
  BY <1>1, <1>2 DEF LegacyRule, RedirectRule, DnsRedirectRule, NtpDnsBypassRule, CustomRule,
     JumpRule, DropRule, LoopbackRule, OwnerRule, ServiceRule, AdminRule

LEMMA NtpFilterMembers ==
    ASSUME NEW a, NEW e
    PROVE  e \in NtpFilterRules(a) <=>
               \E u \in NtpUsers \cap a, s \in {"ntp", "dns-udp", "dns-tcp"} :
                   e = Rule("none", {u}, {s}, Places, "ACCEPT")
  BY DEF NtpFilterRules

LEMMA RuleSets ==
    ASSUME NEW b \in SUBSET Configurable, NEW a, NEW cu \in Seq(Services)
    PROVE  /\ \A r \in LegacyRules : r \in Rules /\ r.tag = "none" /\ r.verdict = "REDIRECT"
           /\ \A r \in Redirects(b) :
                  r \in Rules /\ r.tag = "mitmwall-redirect" /\ r.verdict = "REDIRECT"
           /\ \A r \in NtpBypasses(a) : r \in Rules /\ r.tag = "none" /\ r.verdict = "ACCEPT"
           /\ \A r \in CustomRules(cu) :
                  r \in Rules /\ r.tag = "mitmwall-custom" /\ r.verdict = "ACCEPT"
           /\ \A r \in ManagedAccepts(b, a) : r \in AcceptRules /\ r.tag = "none"
           /\ DropRule \notin ManagedAccepts(b, a) /\ DropRule \in Rules
<1>1. /\ ToSet(WebServices) \subseteq Services /\ ToSet(DnsServices) \subseteq Services
      /\ b \subseteq Users /\ NtpUsers \subseteq Users
      /\ ToSet(cu) \subseteq Services
  BY ServicesAre, UsersAre, ToSetMember
<1>2. \A r \in LegacyRules : r \in Rules /\ r.tag = "none" /\ r.verdict = "REDIRECT"
  BY <1>1, RulesTyped, RuleFields DEF LegacyRules
<1>3. \A r \in Redirects(b) :
          r \in Rules /\ r.tag = "mitmwall-redirect" /\ r.verdict = "REDIRECT"
  BY <1>1, RulesTyped, RuleFields DEF Redirects
<1>4. \A r \in NtpBypasses(a) : r \in Rules /\ r.tag = "none" /\ r.verdict = "ACCEPT"
  <2>1. \A e : e \in NtpBypasses(a) =>
            \E s \in ToSet(DnsServices), u \in NtpUsers \cap a : e = NtpDnsBypassRule(s, u)
    BY DEF NtpBypasses
  <2>2. \A s \in Services, u \in Users : NtpDnsBypassRule(s, u) \in Rules
    BY RulesTyped DEF NtpDnsBypassRule
  <2> QED
    BY <1>1, <2>1, <2>2, RuleFields
<1>5. \A r \in CustomRules(cu) :
          r \in Rules /\ r.tag = "mitmwall-custom" /\ r.verdict = "ACCEPT"
  BY <1>1, RulesTyped, RuleFields DEF CustomRules
<1>6. \A r \in ManagedAccepts(b, a) : r \in AcceptRules /\ r.tag = "none"
  <2> SUFFICES ASSUME NEW r \in ManagedAccepts(b, a) PROVE r \in AcceptRules /\ r.tag = "none"
    OBVIOUS
  <2>1. CASE r \in {ReplyRule, OwnerRule(Proxy), OwnerRule(Resolver), LoopbackRule}
             \cup {OwnerRule(u) : u \in b}
    BY <1>1, <2>1, UsersAre, AcceptRulesTyped, RuleFields
  <2>2. CASE r \in NtpFilterRules(a)
    <3>1. PICK u \in NtpUsers \cap a, s \in {"ntp", "dns-udp", "dns-tcp"} :
              r = Rule("none", {u}, {s}, Places, "ACCEPT")
      BY <2>2, NtpFilterMembers
    <3>2. u \in Users /\ s \in Services /\ r.tag = "none"
      BY <1>1, <3>1, ServicesAre DEF Rule
    <3> QED
      BY <3>1, <3>2, AcceptRulesTyped
  <2>3. CASE r \in ListenerRules \/ r = ServiceRule("icmp6", Places)
    <3>1. {"loopback", "local"} \subseteq Places
      BY DEF Places
    <3>2. PICK s \in Services, ps \in SUBSET Places : r = ServiceRule(s, ps)
      BY <2>3, <3>1, ServicesAre DEF ListenerRules
    <3> QED
      BY <3>2, AcceptRulesTyped, RuleFields
  <2>4. r \in ListenerRules \/ r = ServiceRule("icmp6", Places) \/ r \in NtpFilterRules(a)
        \/ r \in {ReplyRule, OwnerRule(Proxy), OwnerRule(Resolver), LoopbackRule}
                 \cup {OwnerRule(u) : u \in b}
    BY DEF ManagedAccepts
  <2> QED
    BY <2>1, <2>2, <2>3, <2>4
<1>7. DropRule \notin ManagedAccepts(b, a)
  BY <1>6, RuleFields DEF AcceptRules
<1> QED
  BY <1>2, <1>3, <1>4, <1>5, <1>6, <1>7, RulesTyped

(* Two lists with nothing in common, one after the other.                  *)
LEMMA Joined ==
    ASSUME NEW S, NEW s \in Seq(S), NEW t \in Seq(S), NEW X, NEW Y,
           ToSet(s) = X, ToSet(t) = Y
    PROVE  /\ s \o t \in Seq(S) /\ ToSet(s \o t) = X \cup Y
           /\ Distinct(s) /\ Distinct(t) /\ X \cap Y = {} => Distinct(s \o t)
<1>1. s \o t \in Seq(S) /\ ToSet(s \o t) = X \cup Y
  BY ConcatLines, ToSetConcat
<1>2. ASSUME Distinct(s), Distinct(t), X \cap Y = {} PROVE Distinct(s \o t)
  BY <1>2, DistinctJoin
<1> QED
  BY <1>1, <1>2

LEMMA OwnerLines ==
    ASSUME NEW b \in SUBSET Configurable
    PROVE  LET s == Each(OwnerRule, SetToSeq(b))
           IN  s \in Seq(AcceptRules) /\ ToSet(s) = {OwnerRule(u) : u \in b} /\ Distinct(s)
<1> DEFINE us == SetToSeq(b)
           f == [u \in b |-> OwnerRule(u)]
           s == [i \in DOMAIN us |-> f[us[i]]]
<1>1. IsFiniteSet(b)
  BY FirewallAssumption, FS_Subset
<1>2. us \in Seq(b) /\ ToSet(us) = b /\ Distinct(us)
  BY <1>1, SetToSeqLists
<1>3. f \in [b -> AcceptRules]
  BY AcceptRulesTyped, UsersAre
<1>4. DOMAIN us = 1..Len(us) /\ \A i \in 1..Len(us) : us[i] \in b
  BY <1>2
<1> HIDE DEF us
<1>5. Each(OwnerRule, us) = s
  BY <1>4 DEF Each
<1>6. /\ s \in Seq(AcceptRules) /\ Len(s) = Len(us)
      /\ \A i \in 1..Len(us) : s[i] = OwnerRule(us[i])
      /\ \A e : e \in ToSet(s) <=> \E i \in 1..Len(us) : e = OwnerRule(us[i])
  <2>1. DOMAIN s = 1..Len(us) /\ \A i \in 1..Len(us) : s[i] = OwnerRule(us[i])
    BY <1>4
  <2>2. s \in [1..Len(us) -> AcceptRules] /\ Len(us) \in Nat
    BY <1>2, <1>3, <1>4
  <2> HIDE DEF s
  <2>3. s \in Seq(AcceptRules) /\ Len(s) = Len(us)
    BY <2>2, ListTyped
  <2> QED
    BY <2>1, <2>3 DEF ToSet
<1> HIDE DEF s
<1>7. ToSet(s) = {OwnerRule(u) : u \in b}
  <2>1. \A u : u \in b <=> \E i \in 1..Len(us) : u = us[i]
    BY <1>2, ToSetMember
  <2> QED
    BY <1>6, <2>1
<1>8. \A u, v : OwnerRule(u) = OwnerRule(v) => u = v
  BY DEF OwnerRule, Rule
<1>9. Distinct(s)
  BY <1>2, <1>6, <1>8 DEF Distinct
<1> QED
  BY <1>5, <1>6, <1>7, <1>9 DEF us

LEMMA ListenerLines ==
    LET s == Each(LAMBDA x : ServiceRule(x, {"loopback", "local"}),
                  <<"proxy", "dnsproxy-udp", "dnsproxy-tcp", "webui">>)
    IN  s \in Seq(AcceptRules) /\ ToSet(s) = ListenerRules /\ Distinct(s)
<1> DEFINE n == <<"proxy", "dnsproxy-udp", "dnsproxy-tcp", "webui">>
           F(x) == ServiceRule(x, {"loopback", "local"})
           s == [i \in 1..4 |-> F(n[i])]
<1>1. Each(F, n) = s
  BY DEF Each
<1>2. \A i \in 1..4 : n[i] \in {"proxy", "dnsproxy-udp", "dnsproxy-tcp", "webui"}
  OBVIOUS
<1>3. \A x \in {"proxy", "dnsproxy-udp", "dnsproxy-tcp", "webui"} : \E i \in 1..4 : n[i] = x
  OBVIOUS
<1>4. \A i, j \in 1..4 : n[i] = n[j] => i = j
  OBVIOUS
<1> HIDE DEF n
<1>5. {"loopback", "local"} \subseteq Places
  BY DEF Places
<1>6. \A i \in 1..4 : s[i] = F(n[i]) /\ s[i] \in AcceptRules
  BY <1>2, <1>5, AcceptRulesTyped, ServicesAre
<1>7. s \in [1..4 -> AcceptRules] /\ DOMAIN s = 1..4
  BY <1>6
<1>8. s \in Seq(AcceptRules) /\ Len(s) = 4
  <2> HIDE DEF s
  <2>1. 4 \in Nat
    OBVIOUS
  <2> QED
    BY <1>7, <2>1, ListTyped
<1> HIDE DEF s
<1>9. ToSet(s) = ListenerRules
  <2>1. \A e : e \in ToSet(s) <=> \E i \in 1..4 : e = s[i]
    BY <1>7 DEF ToSet
  <2>2. \A e : e \in ListenerRules <=>
            \E x \in {"proxy", "dnsproxy-udp", "dnsproxy-tcp", "webui"} : e = F(x)
    BY DEF ListenerRules
  <2> HIDE DEF F
  <2> QED
    BY <1>2, <1>3, <1>6, <2>1, <2>2
<1>10. \A x, y : F(x) = F(y) => x = y
  BY DEF ServiceRule, Rule
<1>11. Distinct(s)
  <2> HIDE DEF F
  <2> QED
    BY <1>4, <1>6, <1>8, <1>10 DEF Distinct
<1> QED
  BY <1>1, <1>8, <1>9, <1>11 DEF n

(* The managed chain's rules: everything accepted, each once, then DROP.   *)
LEMMA OwnRulesAre ==
    ASSUME NEW b \in SUBSET Configurable, NEW a
    PROVE  \E q \in Seq(AcceptRules) :
               /\ OwnRules(b, a) = q \o <<DropRule>>
               /\ ToSet(q) = ManagedAccepts(b, a)
               /\ Resolver \notin b => Distinct(q)
<1> DEFINE p1 == <<ReplyRule>>
           p2 == Each(OwnerRule, SetToSeq(b))
           p3 == <<OwnerRule(Proxy), OwnerRule(Resolver)>>
           p4 == FlattenSeq(Each(LAMBDA u : Each(LAMBDA s : Rule("none", {u}, {s}, Places, "ACCEPT"),
                                                 <<"ntp">> \o DnsServices),
                                 Installed(a)))
           p5 == IF IsIpv6 THEN <<ServiceRule("icmp6", Places)>> ELSE <<>>
           p6 == <<LoopbackRule>>
           p7 == Each(LAMBDA s : ServiceRule(s, {"loopback", "local"}),
                      <<"proxy", "dnsproxy-udp", "dnsproxy-tcp", "webui">>)
           q2 == p1 \o p2
           q3 == q2 \o p3
           q4 == q3 \o p4
           q5 == q4 \o p5
           q6 == q5 \o p6
           q7 == q6 \o p7
           S2 == {OwnerRule(u) : u \in b}
           S3 == {OwnerRule(Proxy), OwnerRule(Resolver)}
           S4 == NtpFilterRules(a)
           S5 == IF IsIpv6 THEN {ServiceRule("icmp6", Places)} ELSE {}
<1>1. OwnRules(b, a) = q7 \o <<DropRule>>
  BY DEF OwnRules
<1>2. p1 \in Seq(AcceptRules) /\ ToSet(p1) = {ReplyRule} /\ Distinct(p1)
  BY AcceptRulesTyped DEF ToSet, Distinct
<1>3. p2 \in Seq(AcceptRules) /\ ToSet(p2) = S2 /\ Distinct(p2)
  BY OwnerLines
<1>4. p3 \in Seq(AcceptRules) /\ ToSet(p3) = S3 /\ Distinct(p3)
  <2>1. OwnerRule(Proxy) # OwnerRule(Resolver)
    BY FirewallAssumption DEF OwnerRule, Rule
  <2>2. OwnerRule(Proxy) \in AcceptRules /\ OwnerRule(Resolver) \in AcceptRules
    BY AcceptRulesTyped, UsersAre
  <2> QED
    BY <2>1, <2>2 DEF ToSet, Distinct
<1>5. p4 \in Seq(AcceptRules) /\ ToSet(p4) = S4 /\ Distinct(p4)
  BY NtpFilterLines
<1>6. p5 \in Seq(AcceptRules) /\ ToSet(p5) = S5 /\ Distinct(p5)
  <2>1. ServiceRule("icmp6", Places) \in AcceptRules
    BY AcceptRulesTyped, ServicesAre
  <2>2. CASE IsIpv6
    BY <2>1, <2>2 DEF ToSet, Distinct
  <2>3. CASE ~IsIpv6
    BY <2>3 DEF ToSet, Distinct
  <2> QED
    BY <2>2, <2>3
<1>7. p6 \in Seq(AcceptRules) /\ ToSet(p6) = {LoopbackRule} /\ Distinct(p6)
  BY AcceptRulesTyped DEF ToSet, Distinct
<1>8. p7 \in Seq(AcceptRules) /\ ToSet(p7) = ListenerRules /\ Distinct(p7)
  BY ListenerLines
<1>9. /\ {ReplyRule} \cap S2 = {}
      /\ ({ReplyRule} \cup S2) \cap S3 = {} \/ Resolver \in b
      /\ (({ReplyRule} \cup S2) \cup S3) \cap S4 = {}
      /\ ((({ReplyRule} \cup S2) \cup S3) \cup S4) \cap S5 = {}
      /\ (((({ReplyRule} \cup S2) \cup S3) \cup S4) \cup S5) \cap {LoopbackRule} = {}
      /\ ((((({ReplyRule} \cup S2) \cup S3) \cup S4) \cup S5) \cup {LoopbackRule}) \cap ListenerRules = {}
  <2>1. /\ ReplyRule.conns # Conns
        /\ \A t, us, ss, ps, v : /\ Rule(t, us, ss, ps, v).conns = Conns
                                 /\ Rule(t, us, ss, ps, v).users = us
                                 /\ Rule(t, us, ss, ps, v).services = ss
                                 /\ Rule(t, us, ss, ps, v).places = ps
    <3>1. ReplyRule.conns = {"reply"}
      BY DEF ReplyRule, Rule
    <3>2. Conns # {"reply"}
      BY DEF Conns
    <3> QED
      BY <3>1, <3>2 DEF Rule
  <2>2. \A r \in S2 : r.conns = Conns /\ r.services = Services /\ r.places = Places
                      /\ \E u \in b : r.users = {u}
    <3> SUFFICES ASSUME NEW r \in S2
                 PROVE  r.conns = Conns /\ r.services = Services /\ r.places = Places
                        /\ \E u \in b : r.users = {u}
      OBVIOUS
    <3>1. PICK u \in b : r = OwnerRule(u)
      OBVIOUS
    <3> QED
      BY <2>1, <3>1 DEF OwnerRule
  <2>3. \A r \in S3 : r.conns = Conns /\ r.services = Services /\ r.places = Places
                      /\ (r.users = {Proxy} \/ r.users = {Resolver})
    BY <2>1 DEF OwnerRule
  <2>4. \A r \in S4 : r.conns = Conns
                      /\ \E s \in {"ntp", "dns-udp", "dns-tcp"} : r.services = {s}
    <3> SUFFICES ASSUME NEW r \in S4
                 PROVE  r.conns = Conns
                      /\ \E s \in {"ntp", "dns-udp", "dns-tcp"} : r.services = {s}
      OBVIOUS
    <3>1. PICK u \in NtpUsers \cap a, s \in {"ntp", "dns-udp", "dns-tcp"} :
              r = Rule("none", {u}, {s}, Places, "ACCEPT")
      BY NtpFilterMembers
    <3> QED
      BY <3>1, <2>1
  <2>5. \A r \in S5 : r.conns = Conns /\ r.services = {"icmp6"}
    BY <2>1 DEF ServiceRule
  <2>6. LoopbackRule.conns = Conns /\ LoopbackRule.services = Services
        /\ LoopbackRule.places = {"loopback"}
    BY <2>1 DEF LoopbackRule
  <2>7. \A r \in ListenerRules : r.conns = Conns
           /\ \E s \in {"proxy", "dnsproxy-udp", "dnsproxy-tcp", "webui"} : r.services = {s}
    BY <2>1 DEF ListenerRules, ServiceRule
  <2>8. /\ \A s : Services # {s}
        /\ Places # {"loopback"}
    <3>1. "http" \in Services /\ "https" \in Services /\ "http" # "https"
      BY ServicesAre
    <3>2. "local" \in Places /\ "local" # "loopback"
      BY DEF Places
    <3> QED
      BY <3>1, <3>2
  <2>9. \A u \in b : {u} # {Proxy} /\ ({u} = {Resolver} => Resolver \in b)
    BY FirewallAssumption
  <2> HIDE DEF S2, S3, S4, S5
  <2>10. {ReplyRule} \cap S2 = {}
    BY <2>1, <2>2
  <2>11. ({ReplyRule} \cup S2) \cap S3 = {} \/ Resolver \in b
    BY <2>1, <2>2, <2>3, <2>9
  <2>12. (({ReplyRule} \cup S2) \cup S3) \cap S4 = {}
    <3>1. \A r \in S4 : r # ReplyRule
      BY <2>1, <2>4
    <3>2. \A r \in S4 : r \notin S2 /\ r \notin S3
      <4> SUFFICES ASSUME NEW r \in S4 PROVE r \notin S2 /\ r \notin S3
        OBVIOUS
      <4>1. r.services # Services
        BY <2>4, <2>8
      <4> QED
        BY <4>1, <2>2, <2>3
    <3> QED
      BY <3>1, <3>2
  <2>13. ((({ReplyRule} \cup S2) \cup S3) \cup S4) \cap S5 = {}
    <3>1. \A s \in {"ntp", "dns-udp", "dns-tcp"} : {s} # {"icmp6"}
      OBVIOUS
    <3> QED
      BY <2>1, <2>2, <2>3, <2>4, <2>5, <2>8, <3>1
  <2>14. (((({ReplyRule} \cup S2) \cup S3) \cup S4) \cup S5) \cap {LoopbackRule} = {}
    <3>1. LoopbackRule # ReplyRule
      BY <2>1, <2>6
    <3>2. LoopbackRule \notin S2 /\ LoopbackRule \notin S3
      BY <2>2, <2>3, <2>6, <2>8
    <3>3. LoopbackRule \notin S4 /\ LoopbackRule \notin S5
      BY <2>4, <2>5, <2>6, <2>8
    <3> QED
      BY <3>1, <3>2, <3>3
  <2>15. ((((({ReplyRule} \cup S2) \cup S3) \cup S4) \cup S5) \cup {LoopbackRule}) \cap ListenerRules = {}
    <3>1. \A s \in {"ntp", "dns-udp", "dns-tcp", "icmp6"},
             x \in {"proxy", "dnsproxy-udp", "dnsproxy-tcp", "webui"} : {s} # {x}
      OBVIOUS
    <3>2. \A r \in ({ReplyRule} \cup S2) \cup S3 : r \notin ListenerRules
      <4>1. \A r \in ListenerRules : r.conns = Conns /\ r.services # Services
        BY <2>7, <2>8
      <4> QED
        BY <4>1, <2>1, <2>2, <2>3
    <3>3. \A r \in S4 \cup S5 : r \notin ListenerRules
      BY <2>4, <2>5, <2>7, <3>1
    <3>4. LoopbackRule \notin ListenerRules
      BY <2>6, <2>7, <2>8
    <3> QED
      BY <3>2, <3>3, <3>4
  <2> QED
    BY <2>10, <2>11, <2>12, <2>13, <2>14, <2>15
<1> HIDE DEF p1, p2, p3, p4, p5, p6, p7, S2, S3, S4, S5
<1>10. /\ q2 \in Seq(AcceptRules) /\ ToSet(q2) = {ReplyRule} \cup S2
       /\ Resolver \notin b => Distinct(q2)
  BY <1>2, <1>3, <1>9, Joined
<1> HIDE DEF q2
<1>11. /\ q3 \in Seq(AcceptRules) /\ ToSet(q3) = ({ReplyRule} \cup S2) \cup S3
       /\ Resolver \notin b => Distinct(q3)
  BY <1>4, <1>10, <1>9, Joined
<1> HIDE DEF q3
<1>12. /\ q4 \in Seq(AcceptRules) /\ ToSet(q4) = (({ReplyRule} \cup S2) \cup S3) \cup S4
       /\ Resolver \notin b => Distinct(q4)
  BY <1>5, <1>11, <1>9, Joined
<1> HIDE DEF q4
<1>13. /\ q5 \in Seq(AcceptRules) /\ ToSet(q5) = ((({ReplyRule} \cup S2) \cup S3) \cup S4) \cup S5
       /\ Resolver \notin b => Distinct(q5)
  BY <1>6, <1>12, <1>9, Joined
<1> HIDE DEF q5
<1>14. /\ q6 \in Seq(AcceptRules)
       /\ ToSet(q6) = (((({ReplyRule} \cup S2) \cup S3) \cup S4) \cup S5) \cup {LoopbackRule}
       /\ Resolver \notin b => Distinct(q6)
  BY <1>7, <1>13, <1>9, Joined
<1> HIDE DEF q6
<1>15. /\ q7 \in Seq(AcceptRules)
       /\ ToSet(q7) = ((((({ReplyRule} \cup S2) \cup S3) \cup S4) \cup S5) \cup {LoopbackRule})
                      \cup ListenerRules
       /\ Resolver \notin b => Distinct(q7)
  BY <1>8, <1>14, <1>9, Joined
<1> HIDE DEF q7
<1>16. ManagedAccepts(b, a) = ((((({ReplyRule} \cup S2) \cup S3) \cup S4) \cup S5) \cup {LoopbackRule})
                              \cup ListenerRules
  BY DEF ManagedAccepts, S2, S3, S4, S5
<1> QED
  BY <1>1, <1>15, <1>16

-----------------------------------------------------------------------------
(* Segments of a program                                                   *)

(* The commands of s are C, in the order of their phases from lo to hi.    *)
Segment(s, S, C, lo, hi) == s \in Seq(S) /\ ToSet(s) = C /\ Arranged(s, lo, hi)

Appends == {"append", "add_rule"}

LEMMA OnceEachJoin ==
    ASSUME NEW S, NEW s \in Seq(S), NEW t \in Seq(S), OnceEach(s), OnceEach(t),
           \A c \in ToSet(s) \cap ToSet(t) : c.op \notin Appends
    PROVE  OnceEach(s \o t)
<1> DEFINE u == s \o t
<1>1. /\ u \in Seq(S) /\ Len(u) = Len(s) + Len(t)
      /\ \A i \in 1..Len(s) : u[i] = s[i]
      /\ \A i \in 1..Len(t) : u[i + Len(s)] = t[i]
      /\ Len(s) \in Nat /\ Len(t) \in Nat /\ Len(u) \in Nat
  BY ConcatLines
<1> HIDE DEF u
<1>2. ASSUME NEW i \in 1..Len(u), i > Len(s)
      PROVE  i - Len(s) \in 1..Len(t) /\ u[i] = t[i - Len(s)]
  <2>1. i - Len(s) \in 1..Len(t) /\ (i - Len(s)) + Len(s) = i
    BY <1>1, <1>2
  <2> QED
    BY <2>1, <1>1
<1>3. ASSUME NEW i \in 1..Len(u), i <= Len(s) PROVE i \in 1..Len(s) /\ u[i] = s[i]
  BY <1>1, <1>3
<1>4. ASSUME NEW i \in 1..Len(u), NEW j \in 1..Len(u), u[i] = u[j], i <= Len(s), j > Len(s)
      PROVE  u[i].op \notin Appends
  <2>1. u[i] \in ToSet(s) /\ u[j] \in ToSet(t)
    BY <1>2, <1>3, <1>4, ToSetMember
  <2> QED
    BY <2>1, <1>4
<1>5. ASSUME NEW i \in 1..Len(u), NEW j \in 1..Len(u), u[i] = u[j], u[i].op \in Appends
      PROVE  i = j
  <2>1. CASE i <= Len(s) /\ j <= Len(s)
    BY <2>1, <1>3, <1>5 DEF OnceEach, Appends
  <2>2. CASE i > Len(s) /\ j > Len(s)
    <3>1. i - Len(s) = j - Len(s)
      BY <2>2, <1>2, <1>5 DEF OnceEach, Appends
    <3> QED
      BY <3>1, <1>1
  <2> QED
    BY <2>1, <2>2, <1>1, <1>4, <1>5
<1> QED
  BY <1>5 DEF OnceEach, Appends, u

LEMMA SegmentJoin ==
    ASSUME NEW S, NEW s, NEW t, NEW C, NEW D,
           NEW lo \in Nat, NEW m \in Nat, NEW k \in Nat, NEW hi \in Nat,
           lo <= m, m <= k, k <= hi, Segment(s, S, C, lo, m), Segment(t, S, D, k, hi)
    PROVE  /\ Segment(s \o t, S, C \cup D, lo, hi)
           /\ OnceEach(s) /\ OnceEach(t) /\ (\A c \in C \cap D : c.op \notin Appends)
              => OnceEach(s \o t)
<1>1. s \in Seq(S) /\ t \in Seq(S) /\ ToSet(s) = C /\ ToSet(t) = D
  BY DEF Segment
<1>2. s \o t \in Seq(S) /\ ToSet(s \o t) = C \cup D
  BY <1>1, ConcatLines, ToSetConcat
<1>3. Arranged(s \o t, lo, hi)
  <2>1. Arranged(s, lo, m) /\ Arranged(t, k, hi)
    BY DEF Segment
  <2> QED
    BY <1>1, <2>1, ArrangedJoin
<1>4. ASSUME OnceEach(s), OnceEach(t), \A c \in C \cap D : c.op \notin Appends
      PROVE  OnceEach(s \o t)
  BY <1>1, <1>4, OnceEachJoin
<1> QED
  BY <1>2, <1>3, <1>4 DEF Segment

LEMMA SegmentOne ==
    ASSUME NEW S, NEW c \in S, NEW n \in Nat, Phase(c) = n, c.op # "insert",
           c.op = "remove_all" => n = 1
    PROVE  Segment(<<c>>, S, {c}, n, n) /\ OnceEach(<<c>>)
<1> DEFINE s == <<c>>
<1>1. s \in Seq(S) /\ Len(s) = 1 /\ s[1] = c /\ ToSet(s) = {c}
  BY DEF ToSet
<1> HIDE DEF s
<1>2. Arranged(s, n, n)
  BY <1>1 DEF Arranged
<1> QED
  BY <1>1, <1>2 DEF Segment, OnceEach, s

LEMMA SegmentEnsure ==
    ASSUME NEW S, NEW chain, NEW rule, NEW n \in Nat,
           RemoveAll(chain, rule) \in S, Insert(chain, rule) \in S,
           Phase(RemoveAll(chain, rule)) = n, Phase(Insert(chain, rule)) = n
    PROVE  /\ Segment(EnsureFirst(chain, rule), S,
                      {RemoveAll(chain, rule), Insert(chain, rule)}, n, n)
           /\ OnceEach(EnsureFirst(chain, rule))
<1> DEFINE s == EnsureFirst(chain, rule)
           x == RemoveAll(chain, rule)
           y == Insert(chain, rule)
<1>1. /\ x.op = "remove_all" /\ x.chain = chain /\ x.rule = rule
      /\ y.op = "insert" /\ y.chain = chain /\ y.rule = rule
  BY DEF RemoveAll, Insert
<1>2. s = <<x, y>>
  BY DEF EnsureFirst
<1> HIDE DEF s
<1>3. s \in Seq(S) /\ Len(s) = 2 /\ s[1] = x /\ s[2] = y /\ ToSet(s) = {x, y}
  <2> HIDE DEF x, y
  <2>1. x \in S /\ y \in S
    BY DEF x, y
  <2> QED
    BY <1>2, <2>1 DEF ToSet
<1>4. \A i \in 1..Len(s) : i = 1 \/ i = 2
  BY <1>3
<1>5. Phase(x) = n /\ Phase(y) = n
  OBVIOUS
<1>6. y = Insert(x.chain, x.rule) /\ x = RemoveAll(y.chain, y.rule)
  BY <1>1
<1> HIDE DEF x, y
<1>7. /\ \A i \in 1..Len(s) : s[i].op = "insert" =>
             i > 1 /\ s[i - 1] = RemoveAll(s[i].chain, s[i].rule)
      /\ \A i \in 1..Len(s) : s[i].op = "remove_all" /\ Phase(s[i]) # 1 =>
             i < Len(s) /\ s[i + 1] = Insert(s[i].chain, s[i].rule)
  <2>1. ASSUME NEW i \in 1..Len(s), s[i].op = "insert"
        PROVE  i > 1 /\ s[i - 1] = RemoveAll(s[i].chain, s[i].rule)
    <3>1. i = 2
      BY <1>1, <1>3, <1>4, <2>1
    <3> QED
      BY <1>3, <1>6, <3>1
  <2>2. ASSUME NEW i \in 1..Len(s), s[i].op = "remove_all"
        PROVE  i < Len(s) /\ s[i + 1] = Insert(s[i].chain, s[i].rule)
    <3>1. i = 1
      BY <1>1, <1>3, <1>4, <2>2
    <3> QED
      BY <1>3, <1>6, <3>1
  <2> QED
    BY <2>1, <2>2
<1>8. \A i \in 1..Len(s) : Phase(s[i]) = n
  BY <1>3, <1>4, <1>5
<1>9. Arranged(s, n, n)
  BY <1>7, <1>8 DEF Arranged
<1>10. OnceEach(s)
  BY <1>1, <1>3, <1>4 DEF OnceEach
<1> QED
  BY <1>3, <1>9, <1>10 DEF Segment, s, x, y

-----------------------------------------------------------------------------
(* The segments of a start                                                 *)

LEMMA FourServices ==
    LET l == WebServices \o DnsServices
    IN  /\ DOMAIN l = 1..4
        /\ \A i \in 1..4 : l[i] \in ToSet(WebServices) \cup ToSet(DnsServices)
        /\ \A s \in ToSet(WebServices) \cup ToSet(DnsServices) : \E i \in 1..4 : l[i] = s
<1> DEFINE N == {"http", "https", "dns-udp", "dns-tcp"}
           w == <<"http", "https">>
           d == <<"dns-udp", "dns-tcp">>
           l == WebServices \o DnsServices
<1>1. /\ w \in Seq(N) /\ Len(w) = 2 /\ w[1] = "http" /\ w[2] = "https"
      /\ d \in Seq(N) /\ Len(d) = 2 /\ d[1] = "dns-udp" /\ d[2] = "dns-tcp"
  OBVIOUS
<1>2. l = w \o d
  BY DEF WebServices, DnsServices
<1> HIDE DEF w, d, N, l
<1>3. /\ w \o d \in Seq(N) /\ Len(w \o d) = Len(w) + Len(d)
      /\ \A i \in 1..Len(w) : (w \o d)[i] = w[i]
      /\ \A i \in 1..Len(d) : (w \o d)[i + Len(w)] = d[i]
  <2>1. w \in Seq(N) /\ d \in Seq(N)
    BY <1>1
  <2> QED
    BY <2>1, ConcatLines
<1>4. l \in Seq(N) /\ Len(l) = 4
  BY <1>1, <1>2, <1>3
<1>5. l[1] = "http" /\ l[2] = "https"
  BY <1>1, <1>2, <1>3
<1>6. l[3] = "dns-udp" /\ l[4] = "dns-tcp"
  <2>1. 1 \in 1..Len(d) /\ 2 \in 1..Len(d) /\ 1 + Len(w) = 3 /\ 2 + Len(w) = 4
    BY <1>1
  <2> QED
    BY <1>1, <1>2, <1>3, <2>1
<1>7. DOMAIN l = 1..4
  BY <1>4
<1> QED
  BY <1>5, <1>6, <1>7, ServicesAre DEF l

LEMMA LegacySegment ==
    ASSUME NEW S, \A r \in LegacyRules : RemoveAll("nat", r) \in S
    PROVE  /\ Segment(ClearLegacyRedirects, S, {RemoveAll("nat", r) : r \in LegacyRules}, 1, 1)
           /\ OnceEach(ClearLegacyRedirects)
<1> DEFINE l == WebServices \o DnsServices
           F(s) == RemoveAll("nat", LegacyRule(s))
           c == [i \in 1..4 |-> F(l[i])]
<1>1. /\ DOMAIN l = 1..4
      /\ \A i \in 1..4 : l[i] \in ToSet(WebServices) \cup ToSet(DnsServices)
      /\ \A s \in ToSet(WebServices) \cup ToSet(DnsServices) : \E i \in 1..4 : l[i] = s
  BY FourServices
<1>2. ClearLegacyRedirects = c
  BY <1>1 DEF ClearLegacyRedirects, Each
<1>3. \A s \in ToSet(WebServices) \cup ToSet(DnsServices) :
          F(s) \in S /\ Phase(F(s)) = 1 /\ F(s).op = "remove_all"
  <2> SUFFICES ASSUME NEW s \in ToSet(WebServices) \cup ToSet(DnsServices)
               PROVE  F(s) \in S /\ Phase(F(s)) = 1 /\ F(s).op = "remove_all"
    OBVIOUS
  <2>1. LegacyRule(s) \in LegacyRules
    BY DEF LegacyRules
  <2>2. Phase(F(s)) = 1
    BY PhaseValues, RuleFields
  <2>3. F(s).op = "remove_all"
    BY DEF RemoveAll
  <2> QED
    BY <2>1, <2>2, <2>3
<1>4. \A e : e \in {RemoveAll("nat", r) : r \in LegacyRules}
             <=> \E s \in ToSet(WebServices) \cup ToSet(DnsServices) : e = F(s)
  BY DEF LegacyRules
<1> HIDE DEF l, F
<1>5. DOMAIN c = 1..4 /\ \A i \in 1..4 : c[i] = F(l[i])
  OBVIOUS
<1>6. c \in [1..4 -> S]
  BY <1>1, <1>3
<1> HIDE DEF c
<1>7. c \in Seq(S) /\ Len(c) = 4
  <2>1. 4 \in Nat
    OBVIOUS
  <2> QED
    BY <1>6, <2>1, ListTyped
<1>8. ToSet(c) = {RemoveAll("nat", r) : r \in LegacyRules}
  <2>1. \A e : e \in ToSet(c) <=> \E i \in 1..4 : e = c[i]
    BY <1>5 DEF ToSet
  <2>2. \A e : e \in ToSet(c) <=> \E s \in ToSet(WebServices) \cup ToSet(DnsServices) : e = F(s)
    BY <1>1, <1>5, <2>1
  <2> QED
    BY <1>4, <2>2
<1>9. \A i \in 1..Len(c) : Phase(c[i]) = 1 /\ c[i].op = "remove_all"
  BY <1>1, <1>3, <1>5, <1>7
<1>10. Arranged(c, 1, 1) /\ OnceEach(c)
  BY <1>9 DEF Arranged, OnceEach
<1> QED
  BY <1>2, <1>7, <1>8, <1>10 DEF Segment

(* The redirections of DNS and of HTTP and HTTPS.                          *)
LEMMA RedirectSegments ==
    ASSUME NEW S, NEW b \in SUBSET Configurable,
           \A r \in Redirects(b) : RemoveAll("nat", r) \in S /\ Insert("nat", r) \in S
    PROVE  LET d == FlattenSeq(Each(LAMBDA s : EnsureFirst("nat", DnsRedirectRule(s, b)), DnsServices))
               w == FlattenSeq(Each(LAMBDA s : EnsureFirst("nat", RedirectRule(s, b)), WebServices))
           IN  /\ \E C, D : /\ Segment(d, S, C, 4, 4) /\ Segment(w, S, D, 4, 4)
                            /\ C \cup D = {RemoveAll("nat", r) : r \in Redirects(b)}
                                          \cup {Insert("nat", r) : r \in Redirects(b)}
               /\ OnceEach(d) /\ OnceEach(w)
<1> DEFINE F(s) == EnsureFirst("nat", DnsRedirectRule(s, b))
           G(s) == EnsureFirst("nat", RedirectRule(s, b))
           fs == Each(F, DnsServices)
           gs == Each(G, WebServices)
           C == {RemoveAll("nat", DnsRedirectRule("dns-udp", b)), Insert("nat", DnsRedirectRule("dns-udp", b))}
                \cup {RemoveAll("nat", DnsRedirectRule("dns-tcp", b)), Insert("nat", DnsRedirectRule("dns-tcp", b))}
           D == {RemoveAll("nat", RedirectRule("http", b)), Insert("nat", RedirectRule("http", b))}
                \cup {RemoveAll("nat", RedirectRule("https", b)), Insert("nat", RedirectRule("https", b))}
<1>1. fs = <<F("dns-udp"), F("dns-tcp")>> /\ gs = <<G("http"), G("https")>>
  BY DEF Each, DnsServices, WebServices
<1>2. Redirects(b) = {DnsRedirectRule("dns-udp", b), DnsRedirectRule("dns-tcp", b),
                      RedirectRule("http", b), RedirectRule("https", b)}
  BY ServicesAre DEF Redirects
<1>3. \A r \in Redirects(b) :
          /\ Segment(EnsureFirst("nat", r), S, {RemoveAll("nat", r), Insert("nat", r)}, 4, 4)
          /\ OnceEach(EnsureFirst("nat", r))
  <2> SUFFICES ASSUME NEW r \in Redirects(b)
               PROVE  /\ Segment(EnsureFirst("nat", r), S, {RemoveAll("nat", r), Insert("nat", r)}, 4, 4)
                      /\ OnceEach(EnsureFirst("nat", r))
    OBVIOUS
  <2>1. r.tag = "mitmwall-redirect"
    BY <1>2, RuleFields
  <2>2. Phase(RemoveAll("nat", r)) = 4 /\ Phase(Insert("nat", r)) = 4
    BY <2>1, PhaseValues
  <2>3. 4 \in Nat /\ RemoveAll("nat", r) \in S /\ Insert("nat", r) \in S
    OBVIOUS
  <2> QED
    BY <2>2, <2>3, SegmentEnsure
<1>4. \A r \in Redirects(b) : RemoveAll("nat", r).op = "remove_all" /\ Insert("nat", r).op = "insert"
  BY DEF RemoveAll, Insert
<1>5. \A r, q \in Redirects(b) :
          LET s == EnsureFirst("nat", r) \o EnsureFirst("nat", q)
          IN  /\ Segment(s, S, {RemoveAll("nat", r), Insert("nat", r)}
                               \cup {RemoveAll("nat", q), Insert("nat", q)}, 4, 4)
              /\ OnceEach(s)
              /\ FlattenSeq(<<EnsureFirst("nat", r), EnsureFirst("nat", q)>>) = s
  <2> SUFFICES ASSUME NEW r \in Redirects(b), NEW q \in Redirects(b)
               PROVE  LET s == EnsureFirst("nat", r) \o EnsureFirst("nat", q)
                      IN  /\ Segment(s, S, {RemoveAll("nat", r), Insert("nat", r)}
                                           \cup {RemoveAll("nat", q), Insert("nat", q)}, 4, 4)
                          /\ OnceEach(s)
                          /\ FlattenSeq(<<EnsureFirst("nat", r), EnsureFirst("nat", q)>>) = s
    OBVIOUS
  <2> DEFINE x == EnsureFirst("nat", r)
             y == EnsureFirst("nat", q)
             X == {RemoveAll("nat", r), Insert("nat", r)}
             Y == {RemoveAll("nat", q), Insert("nat", q)}
  <2>1. Segment(x, S, X, 4, 4) /\ Segment(y, S, Y, 4, 4) /\ OnceEach(x) /\ OnceEach(y)
    BY <1>3
  <2>2. \A c \in X \cap Y : c.op \notin Appends
    BY <1>4 DEF Appends
  <2>3. 4 \in Nat /\ 4 <= 4
    OBVIOUS
  <2> HIDE DEF x, y, X, Y
  <2>4. Segment(x \o y, S, X \cup Y, 4, 4) /\ OnceEach(x \o y)
    BY <2>1, <2>2, <2>3, SegmentJoin
  <2>5. x \in Seq(S) /\ y \in Seq(S)
    BY <2>1 DEF Segment
  <2>6. FlattenSeq(<<x, y>>) = x \o y
    BY <2>5, FlattenPair
  <2> QED
    BY <2>4, <2>6 DEF x, y, X, Y
<1>6. FlattenSeq(fs) = F("dns-udp") \o F("dns-tcp")
      /\ Segment(FlattenSeq(fs), S, C, 4, 4) /\ OnceEach(FlattenSeq(fs))
  BY <1>1, <1>2, <1>5
<1>7. FlattenSeq(gs) = G("http") \o G("https")
      /\ Segment(FlattenSeq(gs), S, D, 4, 4) /\ OnceEach(FlattenSeq(gs))
  BY <1>1, <1>2, <1>5
<1>8. C \cup D = {RemoveAll("nat", r) : r \in Redirects(b)}
                 \cup {Insert("nat", r) : r \in Redirects(b)}
  BY <1>2
<1> HIDE DEF C, D
<1> QED
  BY <1>6, <1>7, <1>8

LEMMA OnceEachNone ==
    ASSUME NEW S, NEW s \in Seq(S), \A c \in ToSet(s) : c.op \notin Appends
    PROVE  OnceEach(s)
<1>1. \A i \in 1..Len(s) : s[i].op \notin Appends
  BY ToSetMember
<1> QED
  BY <1>1 DEF OnceEach, Appends

LEMMA SegmentFlatten ==
    ASSUME NEW S, NEW ss \in Seq(Seq(S)), NEW n \in Nat, NEW C,
           \A i \in 1..Len(ss) : Arranged(ss[i], n, n),
           \A e : e \in C <=> \E i \in 1..Len(ss) : e \in ToSet(ss[i])
    PROVE  Segment(FlattenSeq(ss), S, C, n, n)
<1>1. FlattenSeq(ss) \in Seq(S)
  BY FlattenTyped
<1>2. \A e : e \in ToSet(FlattenSeq(ss)) <=> e \in C
  BY FlattenMembers
<1>3. \A s \in ToSet(ss) : Arranged(s, n, n)
  BY ToSetMember
<1>4. Arranged(FlattenSeq(ss), n, n)
  BY <1>3, ArrangedFlatten
<1> QED
  BY <1>1, <1>2, <1>4 DEF Segment

(* The DNS bypasses of the installed time synchronization accounts.        *)
LEMMA NtpSegment ==
    ASSUME NEW S, NEW a, NEW s \in ToSet(DnsServices),
           \A r \in NtpBypasses(a) : RemoveAll("nat", r) \in S /\ Insert("nat", r) \in S
    PROVE  LET t == NtpDnsBypasses(LAMBDA r : EnsureFirst("nat", r), a, s)
               rs == {NtpDnsBypassRule(s, u) : u \in NtpUsers \cap a}
           IN  Segment(t, S, {RemoveAll("nat", r) : r \in rs} \cup {Insert("nat", r) : r \in rs}, 5, 5)
<1> DEFINE is == Installed(a)
           F(u) == EnsureFirst("nat", NtpDnsBypassRule(s, u))
           X(u) == RemoveAll("nat", NtpDnsBypassRule(s, u))
           Y(u) == Insert("nat", NtpDnsBypassRule(s, u))
           ss == [i \in DOMAIN is |-> F(is[i])]
           rs == {NtpDnsBypassRule(s, u) : u \in NtpUsers \cap a}
           C == {RemoveAll("nat", r) : r \in rs} \cup {Insert("nat", r) : r \in rs}
<1>1. is \in Seq(NtpUsers) /\ ToSet(is) = NtpUsers \cap a
  BY InstalledAccounts
<1>2. /\ DOMAIN is = 1..Len(is) /\ Len(is) \in Nat
      /\ \A u : u \in NtpUsers \cap a <=> \E i \in 1..Len(is) : u = is[i]
  BY <1>1, ToSetMember
<1>3. NtpDnsBypasses(LAMBDA r : EnsureFirst("nat", r), a, s) = FlattenSeq(ss)
  BY DEF NtpDnsBypasses, Each
<1>4. \A u \in NtpUsers \cap a :
          F(u) \in Seq(S) /\ ToSet(F(u)) = {X(u), Y(u)} /\ Arranged(F(u), 5, 5)
  <2> SUFFICES ASSUME NEW u \in NtpUsers \cap a
               PROVE  F(u) \in Seq(S) /\ ToSet(F(u)) = {X(u), Y(u)} /\ Arranged(F(u), 5, 5)
    OBVIOUS
  <2>1. NtpDnsBypassRule(s, u) \in NtpBypasses(a)
    BY DEF NtpBypasses
  <2>2. X(u) \in S /\ Y(u) \in S /\ 5 \in Nat
    BY <2>1
  <2>3. Phase(X(u)) = 5 /\ Phase(Y(u)) = 5
    BY PhaseValues, RuleFields
  <2>4. Segment(F(u), S, {X(u), Y(u)}, 5, 5)
    BY <2>2, <2>3, SegmentEnsure
  <2> QED
    BY <2>4 DEF Segment
<1>5. \A e : e \in C <=> \E u \in NtpUsers \cap a : e = X(u) \/ e = Y(u)
  OBVIOUS
<1> HIDE DEF is, F, X, Y, C
<1>6. DOMAIN ss = 1..Len(is) /\ \A i \in 1..Len(is) : ss[i] = F(is[i])
  BY <1>2
<1>7. ss \in [1..Len(is) -> Seq(S)]
  BY <1>2, <1>4
<1> HIDE DEF ss
<1>8. ss \in Seq(Seq(S)) /\ Len(ss) = Len(is)
  BY <1>2, <1>6, <1>7
<1>9. \A i \in 1..Len(ss) : Arranged(ss[i], 5, 5)
  BY <1>2, <1>4, <1>6, <1>8
<1>10. \A e : e \in C <=> \E i \in 1..Len(ss) : e \in ToSet(ss[i])
  <2>1. \A i \in 1..Len(ss) : ToSet(ss[i]) = {X(is[i]), Y(is[i])}
    BY <1>2, <1>4, <1>6, <1>8
  <2>2. \A e : e \in C <=> \E i \in 1..Len(is) : e = X(is[i]) \/ e = Y(is[i])
    BY <1>2, <1>5
  <2>3. \A i \in 1..Len(ss) : \A e : e \in ToSet(ss[i]) <=> e = X(is[i]) \/ e = Y(is[i])
    BY <2>1
  <2> QED
    BY <1>8, <2>2, <2>3
<1>11. Segment(FlattenSeq(ss), S, C, 5, 5)
  <2>1. 5 \in Nat
    OBVIOUS
  <2> QED
    BY <1>8, <1>9, <1>10, <2>1, SegmentFlatten
<1> QED
  BY <1>3, <1>11 DEF C

LEMMA NtpSegments ==
    ASSUME NEW S, NEW a,
           \A r \in NtpBypasses(a) : RemoveAll("nat", r) \in S /\ Insert("nat", r) \in S
    PROVE  LET t == FlattenSeq(Each(LAMBDA s : NtpDnsBypasses(LAMBDA r : EnsureFirst("nat", r), a, s),
                                    DnsServices))
           IN  /\ Segment(t, S, {RemoveAll("nat", r) : r \in NtpBypasses(a)}
                                \cup {Insert("nat", r) : r \in NtpBypasses(a)}, 5, 5)
               /\ OnceEach(t)
<1> DEFINE F(s) == NtpDnsBypasses(LAMBDA r : EnsureFirst("nat", r), a, s)
           rs(s) == {NtpDnsBypassRule(s, u) : u \in NtpUsers \cap a}
           C(s) == {RemoveAll("nat", r) : r \in rs(s)} \cup {Insert("nat", r) : r \in rs(s)}
           D == {RemoveAll("nat", r) : r \in NtpBypasses(a)}
                \cup {Insert("nat", r) : r \in NtpBypasses(a)}
           x == F("dns-udp")
           y == F("dns-tcp")
<1>1. Each(F, DnsServices) = <<F("dns-udp"), F("dns-tcp")>>
  BY DEF Each, DnsServices
<1>2. \A s \in ToSet(DnsServices) : Segment(F(s), S, C(s), 5, 5)
  BY NtpSegment
<1>3. NtpBypasses(a) = rs("dns-udp") \cup rs("dns-tcp")
  BY ServicesAre DEF NtpBypasses
<1>4. D = C("dns-udp") \cup C("dns-tcp")
  BY <1>3
<1>5. Segment(x, S, C("dns-udp"), 5, 5) /\ Segment(y, S, C("dns-tcp"), 5, 5)
  BY <1>2, ServicesAre
<1>6. \A c \in D : c.op \notin Appends
  BY DEF RemoveAll, Insert, Appends
<1> HIDE DEF D, C, F, rs
<1>7. Segment(x \o y, S, D, 5, 5)
  <2>1. 5 \in Nat /\ 5 <= 5
    OBVIOUS
  <2> HIDE DEF x, y
  <2> QED
    BY <1>4, <1>5, <2>1, SegmentJoin
<1>8. x \in Seq(S) /\ y \in Seq(S) /\ x \o y \in Seq(S) /\ ToSet(x \o y) = D
  BY <1>5, <1>7 DEF Segment
<1>9. FlattenSeq(<<x, y>>) = x \o y
  BY <1>8, FlattenPair
<1>10. OnceEach(x \o y)
  <2> HIDE DEF x, y
  <2> QED
    BY <1>6, <1>8, OnceEachNone
<1> QED
  BY <1>1, <1>7, <1>9, <1>10 DEF F, D, x, y

LEMMA OwnSegment ==
    ASSUME NEW S, NEW b \in SUBSET Configurable, NEW a,
           \A r \in Managed(b, a) : AppendOwn(r) \in S
    PROVE  LET t == Each(AppendOwn, OwnRules(b, a))
           IN  /\ Segment(t, S, {AppendOwn(r) : r \in Managed(b, a)}, 8, 9)
               /\ Resolver \notin b => OnceEach(t)
<1> DEFINE l == OwnRules(b, a)
           c == [i \in DOMAIN l |-> AppendOwn(l[i])]
           d == <<DropRule>>
<1>1. PICK q \in Seq(AcceptRules) : l = q \o d /\ ToSet(q) = ManagedAccepts(b, a)
                                    /\ (Resolver \notin b => Distinct(q))
  BY OwnRulesAre
<1>2. q \in Seq(Rules) /\ \A i \in 1..Len(q) : q[i].verdict = "ACCEPT"
  BY <1>1 DEF AcceptRules
<1>3. d \in Seq(Rules) /\ Len(d) = 1 /\ d[1] = DropRule /\ ToSet(d) = {DropRule} /\ Distinct(d)
  BY RulesTyped DEF ToSet, Distinct
<1>4. Each(AppendOwn, l) = c
  BY DEF Each
<1> HIDE DEF l, d
<1>5. /\ l \in Seq(Rules) /\ Len(l) = Len(q) + 1 /\ Len(q) \in Nat
      /\ \A i \in 1..Len(q) : l[i] = q[i]
      /\ \A i \in 1..1 : l[i + Len(q)] = d[i]
  <2>1. q \in Seq(Rules) /\ d \in Seq(Rules)
    BY <1>2, <1>3
  <2>2. /\ q \o d \in Seq(Rules) /\ Len(q \o d) = Len(q) + Len(d)
        /\ \A i \in 1..Len(q) : (q \o d)[i] = q[i]
        /\ \A i \in 1..Len(d) : (q \o d)[i + Len(q)] = d[i]
    BY <2>1, ConcatLines
  <2> QED
    BY <1>1, <1>3, <2>2
<1>6. \A i \in 1..Len(q) : l[i] = q[i]
  BY <1>5
<1>7. l[Len(q) + 1] = DropRule
  <2>1. 1 \in 1..1 /\ 1 + Len(q) = Len(q) + 1
    BY <1>5
  <2> QED
    BY <1>3, <1>5, <2>1
<1>8. ToSet(l) = Managed(b, a)
  BY <1>1, <1>2, <1>3, ToSetConcat DEF Managed
<1>9. DOMAIN l = 1..Len(l) /\ \A i \in 1..Len(l) : l[i] \in Managed(b, a)
  BY <1>5, <1>8, ToSetMember
<1>10. DOMAIN c = 1..Len(l) /\ \A i \in 1..Len(l) : c[i] = AppendOwn(l[i])
  BY <1>9
<1>11. c \in [1..Len(l) -> S]
  BY <1>9, <1>10
<1> HIDE DEF c
<1>12. c \in Seq(S) /\ Len(c) = Len(l)
  BY <1>5, <1>11, ListTyped
<1>13. ToSet(c) = {AppendOwn(r) : r \in Managed(b, a)}
  <2>1. \A e : e \in ToSet(c) <=> \E i \in 1..Len(l) : e = AppendOwn(l[i])
    BY <1>10 DEF ToSet
  <2>2. \A r : r \in Managed(b, a) <=> \E i \in 1..Len(l) : r = l[i]
    BY <1>5, <1>8, ToSetMember
  <2> QED
    BY <2>1, <2>2
<1>14. \A i \in 1..Len(c) : /\ i <= Len(q) => Phase(c[i]) = 8
                            /\ i > Len(q) => Phase(c[i]) = 9 /\ i = Len(c)
                            /\ c[i].op = "append"
  <2> SUFFICES ASSUME NEW i \in 1..Len(c)
               PROVE  /\ i <= Len(q) => Phase(c[i]) = 8
                      /\ i > Len(q) => Phase(c[i]) = 9 /\ i = Len(c)
                      /\ c[i].op = "append"
    OBVIOUS
  <2>1. c[i] = AppendOwn(l[i]) /\ c[i].op = "append"
    BY <1>10, <1>12 DEF AppendOwn
  <2>2. ASSUME i <= Len(q) PROVE Phase(c[i]) = 8
    <3>1. l[i].verdict = "ACCEPT"
      BY <1>2, <1>5, <1>6, <2>2
    <3> QED
      BY <2>1, <3>1, PhaseValues
  <2>3. ASSUME i > Len(q) PROVE Phase(c[i]) = 9 /\ i = Len(c)
    <3>1. i = Len(q) + 1 /\ i = Len(c)
      BY <1>5, <1>12, <2>3
    <3>2. l[i].verdict = "DROP"
      BY <1>7, <3>1, RuleFields
    <3> QED
      BY <2>1, <3>1, <3>2, PhaseValues
  <2> QED
    BY <2>1, <2>2, <2>3
<1>15. Arranged(c, 8, 9)
  <2>1. \A i \in 1..Len(c) : Phase(c[i]) \in 8..9 /\ c[i].op = "append"
    BY <1>5, <1>12, <1>14
  <2>2. \A i, j \in 1..Len(c) : i < j => Phase(c[i]) <= Phase(c[j])
    <3> SUFFICES ASSUME NEW i \in 1..Len(c), NEW j \in 1..Len(c), i < j
                 PROVE  Phase(c[i]) <= Phase(c[j])
      OBVIOUS
    <3>1. i <= Len(q)
      BY <1>5, <1>12
    <3>2. Phase(c[i]) = 8 /\ Phase(c[j]) \in 8..9
      BY <1>14, <2>1, <3>1
    <3> QED
      BY <3>2
  <2> QED
    BY <2>1, <2>2 DEF Arranged
<1>16. ASSUME Resolver \notin b PROVE OnceEach(c)
  <2>1. Distinct(l)
    <3>0. DropRule \notin ManagedAccepts(b, a)
      <4>1. <<>> \in Seq(Services)
        OBVIOUS
      <4> QED
        BY <4>1, RuleSets
    <3>1. Distinct(q) /\ ToSet(q) \cap ToSet(d) = {}
      BY <1>1, <1>3, <1>16, <3>0
    <3> QED
      BY <1>1, <1>2, <1>3, <3>1, DistinctJoin
  <2>2. \A r, s : AppendOwn(r) = AppendOwn(s) => r = s
    BY DEF AppendOwn
  <2> QED
    BY <1>10, <1>12, <2>1, <2>2 DEF Distinct, OnceEach
<1> QED
  BY <1>4, <1>12, <1>13, <1>15, <1>16 DEF Segment, l

(* The bypass and the filter rule of each custom rule.                     *)
LEMMA CustomSegment ==
    ASSUME NEW S, NEW cu \in Seq(Services),
           \A r \in CustomRules(cu) :
               RemoveAll("nat", r) \in S /\ Insert("nat", r) \in S /\ InsertBeforeDrop(r) \in S
    PROVE  LET t == FlattenSeq(Each(LAMBDA s : EnsureFirst("nat", CustomRule(s))
                                               \o <<InsertBeforeDrop(CustomRule(s))>>, cu))
           IN  /\ Segment(t, S, {RemoveAll("nat", r) : r \in CustomRules(cu)}
                                \cup {Insert("nat", r) : r \in CustomRules(cu)}
                                \cup {InsertBeforeDrop(r) : r \in CustomRules(cu)}, 12, 12)
               /\ IsInjective(cu) => OnceEach(t)
<1> DEFINE F(s) == EnsureFirst("nat", CustomRule(s)) \o <<InsertBeforeDrop(CustomRule(s))>>
           X(s) == RemoveAll("nat", CustomRule(s))
           Y(s) == Insert("nat", CustomRule(s))
           Z(s) == InsertBeforeDrop(CustomRule(s))
           ss == [i \in DOMAIN cu |-> F(cu[i])]
           C == {RemoveAll("nat", r) : r \in CustomRules(cu)}
                \cup {Insert("nat", r) : r \in CustomRules(cu)}
                \cup {InsertBeforeDrop(r) : r \in CustomRules(cu)}
<1>1. Each(F, cu) = ss
  BY DEF Each
<1>2. /\ DOMAIN cu = 1..Len(cu) /\ Len(cu) \in Nat
      /\ \A s : s \in ToSet(cu) <=> \E i \in 1..Len(cu) : s = cu[i]
  BY ToSetMember
<1>3. \A s : /\ X(s).op = "remove_all" /\ Y(s).op = "insert" /\ Z(s).op = "add_rule"
             /\ Phase(X(s)) = 12 /\ Phase(Y(s)) = 12 /\ Phase(Z(s)) = 12
  <2>1. \A s : X(s).op = "remove_all" /\ Y(s).op = "insert" /\ Z(s).op = "add_rule"
    BY DEF RemoveAll, Insert, InsertBeforeDrop
  <2>2. \A s : Phase(X(s)) = 12 /\ Phase(Y(s)) = 12 /\ Phase(Z(s)) = 12
    BY PhaseValues, RuleFields
  <2> QED
    BY <2>1, <2>2
<1>4. \A s, w : X(s) = X(w) \/ Y(s) = Y(w) \/ Z(s) = Z(w) => s = w
  <2>1. \A s, w : CustomRule(s) = CustomRule(w) => s = w
    BY DEF CustomRule, Rule
  <2>2. \A r, q : RemoveAll("nat", r) = RemoveAll("nat", q) => r = q
    BY DEF RemoveAll
  <2>3. \A r, q : Insert("nat", r) = Insert("nat", q) => r = q
    BY DEF Insert
  <2>4. \A r, q : InsertBeforeDrop(r) = InsertBeforeDrop(q) => r = q
    BY DEF InsertBeforeDrop
  <2> QED
    BY <2>1, <2>2, <2>3, <2>4
<1>5. \A e : e \in C <=> \E s \in ToSet(cu) : e = X(s) \/ e = Y(s) \/ e = Z(s)
  BY DEF CustomRules
<1>6. \A s \in ToSet(cu) : Segment(F(s), S, {X(s), Y(s)} \cup {Z(s)}, 12, 12)
                           /\ OnceEach(F(s))
  <2> SUFFICES ASSUME NEW s \in ToSet(cu)
               PROVE  Segment(F(s), S, {X(s), Y(s)} \cup {Z(s)}, 12, 12) /\ OnceEach(F(s))
    OBVIOUS
  <2>1. X(s) \in S /\ Y(s) \in S /\ Z(s) \in S
    BY DEF CustomRules
  <2>2. 12 \in Nat /\ 12 <= 12
    OBVIOUS
  <2>3. Segment(EnsureFirst("nat", CustomRule(s)), S, {X(s), Y(s)}, 12, 12)
        /\ OnceEach(EnsureFirst("nat", CustomRule(s)))
    BY <1>3, <2>1, <2>2, SegmentEnsure
  <2>4. Segment(<<Z(s)>>, S, {Z(s)}, 12, 12) /\ OnceEach(<<Z(s)>>)
    <3> DEFINE z == Z(s)
    <3>1. z \in S /\ Phase(z) = 12 /\ z.op # "insert" /\ z.op # "remove_all"
      BY <1>3, <2>1
    <3> HIDE DEF z
    <3>2. Segment(<<z>>, S, {z}, 12, 12) /\ OnceEach(<<z>>)
      BY <2>2, <3>1, SegmentOne
    <3> QED
      BY <3>2 DEF z
  <2>5. \A c \in {X(s), Y(s)} \cap {Z(s)} : c.op \notin Appends
    BY <1>3
  <2> QED
    BY <2>2, <2>3, <2>4, <2>5, SegmentJoin
<1>16. \A s \in ToSet(cu) : Distinct(F(s))
  <2> SUFFICES ASSUME NEW s \in ToSet(cu) PROVE Distinct(F(s))
    OBVIOUS
  <2> DEFINE x == X(s)
             y == Y(s)
             z == Z(s)
  <2>1. x # y /\ x # z /\ y # z
    BY <1>3
  <2>2. F(s) = <<x, y>> \o <<z>>
    BY DEF EnsureFirst
  <2> HIDE DEF x, y, z
  <2>3. /\ <<x, y>> \in Seq({x, y, z}) /\ <<z>> \in Seq({x, y, z})
        /\ Distinct(<<x, y>>) /\ Distinct(<<z>>)
        /\ ToSet(<<x, y>>) = {x, y} /\ ToSet(<<z>>) = {z}
    BY <2>1 DEF Distinct, ToSet
  <2>4. {x, y} \cap {z} = {}
    BY <2>1
  <2> QED
    BY <2>2, <2>3, <2>4, DistinctJoin
<1> HIDE DEF F, C
<1>7. DOMAIN ss = 1..Len(cu) /\ \A i \in 1..Len(cu) : ss[i] = F(cu[i])
  BY <1>2
<1>8. \A s \in ToSet(cu) : /\ F(s) \in Seq(S) /\ ToSet(F(s)) = {X(s), Y(s), Z(s)}
                           /\ Arranged(F(s), 12, 12)
  BY <1>6 DEF Segment
<1>9. ss \in [1..Len(cu) -> Seq(S)]
  BY <1>2, <1>7, <1>8
<1> HIDE DEF ss, X, Y, Z
<1>10. ss \in Seq(Seq(S)) /\ Len(ss) = Len(cu)
  BY <1>2, <1>7, <1>9
<1>11. \A i \in 1..Len(ss) : Arranged(ss[i], 12, 12)
  BY <1>2, <1>7, <1>8, <1>10
<1>12. \A i \in 1..Len(ss) : ToSet(ss[i]) = {X(cu[i]), Y(cu[i]), Z(cu[i])}
  BY <1>2, <1>7, <1>8, <1>10
<1>13. \A e : e \in C <=> \E i \in 1..Len(ss) : e \in ToSet(ss[i])
  <2>1. \A e : e \in C <=> \E i \in 1..Len(cu) : e = X(cu[i]) \/ e = Y(cu[i]) \/ e = Z(cu[i])
    BY <1>2, <1>5
  <2>2. \A i \in 1..Len(ss) : \A e :
            e \in ToSet(ss[i]) <=> e = X(cu[i]) \/ e = Y(cu[i]) \/ e = Z(cu[i])
    BY <1>12
  <2> QED
    BY <1>10, <2>1, <2>2
<1>14. Segment(FlattenSeq(ss), S, C, 12, 12)
  <2>1. 12 \in Nat
    OBVIOUS
  <2> QED
    BY <1>10, <1>11, <1>13, <2>1, SegmentFlatten
<1>15. ASSUME IsInjective(cu) PROVE OnceEach(FlattenSeq(ss))
  <2>1. \A i, j \in 1..Len(ss) : i # j => ToSet(ss[i]) \cap ToSet(ss[j]) = {}
    <3> SUFFICES ASSUME NEW i \in 1..Len(ss), NEW j \in 1..Len(ss), i # j
                 PROVE  ToSet(ss[i]) \cap ToSet(ss[j]) = {}
      BY Zenon
    <3>1. cu[i] # cu[j]
      BY <1>2, <1>10, <1>15 DEF IsInjective
    <3>2. /\ X(cu[i]) # X(cu[j]) /\ Y(cu[i]) # Y(cu[j]) /\ Z(cu[i]) # Z(cu[j])
      BY <1>4, <3>1
    <3>3. /\ X(cu[i]) # Y(cu[j]) /\ X(cu[i]) # Z(cu[j])
          /\ Y(cu[i]) # X(cu[j]) /\ Y(cu[i]) # Z(cu[j])
          /\ Z(cu[i]) # X(cu[j]) /\ Z(cu[i]) # Y(cu[j])
      BY <1>3
    <3> QED
      BY <1>12, <3>2, <3>3
  <2>2. \A i \in 1..Len(ss) : Distinct(ss[i])
    BY <1>2, <1>7, <1>10, <1>16
  <2>3. Distinct(FlattenSeq(ss))
    BY <1>10, <2>1, <2>2, DistinctFlatten
  <2> QED
    BY <2>3 DEF Distinct, OnceEach
<1> QED
  BY <1>1, <1>14, <1>15 DEF C, F

(* A start runs each of its commands, in the order of their phases.        *)
LEMMA StartProgramShape ==
    ASSUME NEW b \in SUBSET Configurable, NEW a, NEW cu \in Seq(Services)
    PROVE  /\ Segment(StartProgram(b, a, cu), StartCommands(b, a, cu), StartCommands(b, a, cu), 1, 12)
           /\ IsInjective(cu) /\ Resolver \notin b => OnceEach(StartProgram(b, a, cu))
<1> DEFINE S == StartCommands(b, a, cu)
           s1 == ClearLegacyRedirects
           s2 == <<RemoveByComment("nat", "mitmwall-redirect")>>
           s3 == <<CallForwarding>>
           s4 == FlattenSeq(Each(LAMBDA s : EnsureFirst("nat", DnsRedirectRule(s, b)), DnsServices))
           s5 == FlattenSeq(Each(LAMBDA s : EnsureFirst("nat", RedirectRule(s, b)), WebServices))
           s6 == FlattenSeq(Each(LAMBDA s : NtpDnsBypasses(LAMBDA r : EnsureFirst("nat", r), a, s),
                                 DnsServices))
           e1 == <<EnsureChain>>
           e2 == <<FlushChain>>
           s8 == Each(AppendOwn, OwnRules(b, a))
           s9 == EnsureFirst("out", JumpRule)
           d1 == <<RemoveByComment("own", "mitmwall-custom")>>
           d2 == <<RemoveByComment("nat", "mitmwall-custom")>>
           s11 == FlattenSeq(Each(LAMBDA s : EnsureFirst("nat", CustomRule(s))
                                             \o <<InsertBeforeDrop(CustomRule(s))>>, cu))
           s7 == e1 \o e2
           s10 == d1 \o d2
           t2 == s1 \o s2
           t3 == t2 \o s3
           t4 == t3 \o s4
           t5 == t4 \o s5
           t6 == t5 \o s6
           u8 == s7 \o s8
           u9 == u8 \o s9
           t9 == t6 \o u9
           u11 == s10 \o s11
           t11 == t9 \o u11
           C1 == {RemoveAll("nat", r) : r \in LegacyRules}
           C6 == {RemoveAll("nat", r) : r \in NtpBypasses(a)}
                 \cup {Insert("nat", r) : r \in NtpBypasses(a)}
           C8 == {AppendOwn(r) : r \in Managed(b, a)}
           C9 == {RemoveAll("out", JumpRule), Insert("out", JumpRule)}
           C11 == {RemoveAll("nat", r) : r \in CustomRules(cu)}
                  \cup {Insert("nat", r) : r \in CustomRules(cu)}
                  \cup {InsertBeforeDrop(r) : r \in CustomRules(cu)}
           R == {RemoveAll("nat", r) : r \in Redirects(b)} \cup {Insert("nat", r) : r \in Redirects(b)}
<1>1. StartProgram(b, a, cu) = t11
  <2>1. s10 = <<RemoveByComment("own", "mitmwall-custom"), RemoveByComment("nat", "mitmwall-custom")>>
    BY ConcatPair
  <2>2. s7 = <<EnsureChain, FlushChain>>
    BY ConcatPair
  <2> HIDE DEF s10, s7
  <2> QED
    BY <2>1, <2>2 DEF StartProgram, ClearManagedRedirects, AddOutputFilter, AddCustomRules, ClearCustomRules
<1>2. /\ \A r \in LegacyRules : RemoveAll("nat", r) \in S
      /\ \A r \in Redirects(b) : RemoveAll("nat", r) \in S /\ Insert("nat", r) \in S
      /\ \A r \in NtpBypasses(a) : RemoveAll("nat", r) \in S /\ Insert("nat", r) \in S
      /\ \A r \in CustomRules(cu) :
             RemoveAll("nat", r) \in S /\ Insert("nat", r) \in S /\ InsertBeforeDrop(r) \in S
      /\ \A r \in Managed(b, a) : AppendOwn(r) \in S
      /\ RemoveByComment("nat", "mitmwall-redirect") \in S /\ CallForwarding \in S
      /\ EnsureChain \in S /\ FlushChain \in S
      /\ RemoveAll("out", JumpRule) \in S /\ Insert("out", JumpRule) \in S
      /\ RemoveByComment("own", "mitmwall-custom") \in S
      /\ RemoveByComment("nat", "mitmwall-custom") \in S
  BY DEF StartCommands, NatRules
<1>3. /\ CallForwarding.op = "forwarding" /\ EnsureChain.op = "ensure_chain"
      /\ FlushChain.op = "flush_chain"
      /\ \A ch, tag : RemoveByComment(ch, tag).op = "remove_by_comment"
      /\ \A ch, r : RemoveAll(ch, r).op = "remove_all" /\ Insert(ch, r).op = "insert"
      /\ \A r : AppendOwn(r).op = "append" /\ InsertBeforeDrop(r).op = "add_rule"
  BY DEF CallForwarding, EnsureChain, FlushChain, RemoveByComment, RemoveAll, Insert,
         AppendOwn, InsertBeforeDrop
<1>4. 1 \in Nat /\ 2 \in Nat /\ 3 \in Nat /\ 4 \in Nat /\ 5 \in Nat /\ 6 \in Nat /\ 7 \in Nat
      /\ 8 \in Nat /\ 9 \in Nat /\ 10 \in Nat /\ 11 \in Nat /\ 12 \in Nat
  OBVIOUS
<1>5. \A n \in Nat : \A c \in S :
          Phase(c) = n /\ c.op # "insert" /\ c.op # "remove_all"
          => Segment(<<c>>, S, {c}, n, n) /\ OnceEach(<<c>>)
  <2> HIDE DEF S
  <2> QED
    BY SegmentOne
<1> DEFINE Q2 == {RemoveByComment("nat", "mitmwall-redirect")}
           Q3 == {CallForwarding}
           E1 == {EnsureChain}
           E2 == {FlushChain}
           D1 == {RemoveByComment("own", "mitmwall-custom")}
           D2 == {RemoveByComment("nat", "mitmwall-custom")}
<1>6. Segment(s1, S, C1, 1, 1) /\ OnceEach(s1)
  BY <1>2, LegacySegment
<1>7. Segment(s2, S, Q2, 2, 2) /\ OnceEach(s2)
  BY <1>2, <1>3, <1>4, <1>5, PhaseValues
<1>8. Segment(s3, S, Q3, 3, 3) /\ OnceEach(s3)
  BY <1>2, <1>3, <1>4, <1>5, PhaseValues
<1>9. PICK C4, C5 : /\ Segment(s4, S, C4, 4, 4) /\ Segment(s5, S, C5, 4, 4)
                    /\ C4 \cup C5 = R /\ OnceEach(s4) /\ OnceEach(s5)
  BY <1>2, RedirectSegments
<1>10. Segment(s6, S, C6, 5, 5) /\ OnceEach(s6)
  <2>1. \A r \in NtpBypasses(a) : RemoveAll("nat", r) \in S /\ Insert("nat", r) \in S
    BY <1>2
  <2> HIDE DEF S
  <2> QED
    BY <2>1, NtpSegments DEF NtpDnsBypasses, Each
<1>11. Segment(e1, S, E1, 6, 6) /\ OnceEach(e1)
  BY <1>2, <1>3, <1>4, <1>5, PhaseValues
<1>12. Segment(e2, S, E2, 7, 7) /\ OnceEach(e2)
  BY <1>2, <1>3, <1>4, <1>5, PhaseValues
<1>13. Segment(s8, S, C8, 8, 9) /\ (Resolver \notin b => OnceEach(s8))
  BY <1>2, OwnSegment
<1>14. Segment(s9, S, C9, 10, 10) /\ OnceEach(s9)
  BY <1>2, <1>4, PhaseValues, SegmentEnsure
<1>15. Segment(d1, S, D1, 11, 11) /\ OnceEach(d1)
  BY <1>2, <1>3, <1>4, <1>5, PhaseValues
<1>16. Segment(d2, S, D2, 11, 11) /\ OnceEach(d2)
  BY <1>2, <1>3, <1>4, <1>5, PhaseValues
<1>17. Segment(s11, S, C11, 12, 12) /\ (IsInjective(cu) => OnceEach(s11))
  BY <1>2, CustomSegment
<1>18. /\ \A c \in C1 \cup R \cup C6 \cup Q2 \cup Q3 \cup E1 \cup E2 \cup C9 \cup D1 \cup D2 :
              c.op \notin Appends
       /\ \A c \in C8 \cap C11 : c.op \notin Appends
  <2>1. \A c \in C1 \cup R \cup C6 : c.op \in {"remove_all", "insert"}
    BY <1>3
  <2>2. \A c \in Q2 \cup Q3 \cup E1 \cup E2 \cup C9 \cup D1 \cup D2 :
            c.op \in {"remove_all", "insert", "remove_by_comment", "forwarding", "ensure_chain",
                      "flush_chain"}
    BY <1>3
  <2>3. \A c \in C8 : c.op = "append"
    BY <1>3
  <2>4. \A c \in C11 : c.op # "append"
    BY <1>3
  <2> HIDE DEF C1, R, C6, C8, C11, Q2, Q3, E1, E2, C9, D1, D2
  <2> QED
    BY <2>1, <2>2, <2>3, <2>4 DEF Appends
<1>19. S = C1 \cup Q2 \cup Q3 \cup R \cup C6 \cup E1 \cup E2 \cup C8 \cup C9 \cup D1 \cup D2 \cup C11
  BY DEF StartCommands, NatRules
<1> HIDE DEF S, s1, s2, s3, s4, s5, s6, e1, e2, s8, s9, d1, d2, s11,
             C1, R, C6, C8, C9, C11, Q2, Q3, E1, E2, D1, D2
<1>20. Segment(s7, S, E1 \cup E2, 6, 7) /\ OnceEach(s7)
  <2>1. 6 <= 6 /\ 6 <= 7 /\ 7 <= 7 /\ \A c \in E1 \cap E2 : c.op \notin Appends
    BY <1>18
  <2> QED
    BY <1>4, <1>11, <1>12, <2>1, SegmentJoin
<1> HIDE DEF s7
<1>21. Segment(u8, S, (E1 \cup E2) \cup C8, 6, 9) /\ (Resolver \notin b => OnceEach(u8))
  <2>1. 6 <= 7 /\ 7 <= 8 /\ 8 <= 9 /\ \A c \in (E1 \cup E2) \cap C8 : c.op \notin Appends
    BY <1>18
  <2> QED
    BY <1>4, <1>13, <1>20, <2>1, SegmentJoin
<1> HIDE DEF u8
<1>22. Segment(u9, S, ((E1 \cup E2) \cup C8) \cup C9, 6, 10) /\ (Resolver \notin b => OnceEach(u9))
  <2>1. 6 <= 9 /\ 9 <= 10 /\ 10 <= 10
        /\ \A c \in ((E1 \cup E2) \cup C8) \cap C9 : c.op \notin Appends
    BY <1>18
  <2> QED
    BY <1>4, <1>14, <1>21, <2>1, SegmentJoin
<1> HIDE DEF u9
<1>23. Segment(s10, S, D1 \cup D2, 11, 11) /\ OnceEach(s10)
  <2>1. 11 <= 11 /\ \A c \in D1 \cap D2 : c.op \notin Appends
    BY <1>18
  <2> QED
    BY <1>4, <1>15, <1>16, <2>1, SegmentJoin
<1> HIDE DEF s10
<1>24. Segment(u11, S, (D1 \cup D2) \cup C11, 11, 12) /\ (IsInjective(cu) => OnceEach(u11))
  <2>1. 11 <= 11 /\ 11 <= 12 /\ 12 <= 12 /\ \A c \in (D1 \cup D2) \cap C11 : c.op \notin Appends
    BY <1>18
  <2> QED
    BY <1>4, <1>17, <1>23, <2>1, SegmentJoin
<1> HIDE DEF u11
<1>25. Segment(t2, S, C1 \cup Q2, 1, 2) /\ OnceEach(t2)
  <2>1. 1 <= 1 /\ 1 <= 2 /\ 2 <= 2 /\ \A c \in C1 \cap Q2 : c.op \notin Appends
    BY <1>18
  <2> QED
    BY <1>4, <1>6, <1>7, <2>1, SegmentJoin
<1> HIDE DEF t2
<1>26. Segment(t3, S, (C1 \cup Q2) \cup Q3, 1, 3) /\ OnceEach(t3)
  <2>1. 1 <= 2 /\ 2 <= 3 /\ 3 <= 3 /\ \A c \in (C1 \cup Q2) \cap Q3 : c.op \notin Appends
    BY <1>18
  <2> QED
    BY <1>4, <1>8, <1>25, <2>1, SegmentJoin
<1> HIDE DEF t3
<1>27. Segment(t4, S, ((C1 \cup Q2) \cup Q3) \cup C4, 1, 4) /\ OnceEach(t4)
  <2>1. 1 <= 3 /\ 3 <= 4 /\ 4 <= 4 /\ \A c \in ((C1 \cup Q2) \cup Q3) \cap C4 : c.op \notin Appends
    BY <1>18
  <2> QED
    BY <1>4, <1>9, <1>26, <2>1, SegmentJoin
<1> HIDE DEF t4
<1>28. Segment(t5, S, (((C1 \cup Q2) \cup Q3) \cup C4) \cup C5, 1, 4) /\ OnceEach(t5)
  <2>1. 1 <= 4 /\ 4 <= 4
        /\ \A c \in (((C1 \cup Q2) \cup Q3) \cup C4) \cap C5 : c.op \notin Appends
    BY <1>9, <1>18
  <2> QED
    BY <1>4, <1>9, <1>27, <2>1, SegmentJoin
<1> HIDE DEF t5
<1>29. Segment(t6, S, ((((C1 \cup Q2) \cup Q3) \cup C4) \cup C5) \cup C6, 1, 5) /\ OnceEach(t6)
  <2>1. 1 <= 4 /\ 4 <= 5 /\ 5 <= 5
        /\ \A c \in ((((C1 \cup Q2) \cup Q3) \cup C4) \cup C5) \cap C6 : c.op \notin Appends
    BY <1>18
  <2> QED
    BY <1>4, <1>10, <1>28, <2>1, SegmentJoin
<1> DEFINE T6 == ((((C1 \cup Q2) \cup Q3) \cup C4) \cup C5) \cup C6
           U9 == ((E1 \cup E2) \cup C8) \cup C9
           U11 == (D1 \cup D2) \cup C11
<1>30. \A c \in T6 \cup E1 \cup E2 \cup C9 \cup D1 \cup D2 : c.op \notin Appends
  BY <1>9, <1>18
<1>31. S = (T6 \cup U9) \cup U11
  BY <1>9, <1>19
<1>32. /\ \A c \in T6 \cap U9 : c.op \notin Appends
       /\ \A c \in (T6 \cup U9) \cap U11 : c.op \notin Appends
  BY <1>18, <1>30
<1> HIDE DEF t6, T6, U9, U11
<1>33. Segment(t6, S, T6, 1, 5) /\ Segment(u9, S, U9, 6, 10) /\ Segment(u11, S, U11, 11, 12)
  BY <1>22, <1>24, <1>29 DEF T6, U9, U11
<1>34. Segment(t9, S, T6 \cup U9, 1, 10) /\ (Resolver \notin b => OnceEach(t9))
  <2>1. 1 <= 5 /\ 5 <= 6 /\ 6 <= 10
    OBVIOUS
  <2> QED
    BY <1>4, <1>22, <1>29, <1>32, <1>33, <2>1, SegmentJoin
<1> HIDE DEF t9
<1>35. Segment(t11, S, (T6 \cup U9) \cup U11, 1, 12)
       /\ (IsInjective(cu) /\ Resolver \notin b => OnceEach(t11))
  <2>1. 1 <= 10 /\ 10 <= 11 /\ 11 <= 12
    OBVIOUS
  <2> QED
    BY <1>4, <1>24, <1>32, <1>33, <1>34, <2>1, SegmentJoin
<1> QED
  BY <1>1, <1>31, <1>35 DEF S

-----------------------------------------------------------------------------
(* The program of a stop                                                   *)

LEMMA NtpRemovals ==
    ASSUME NEW S, NEW a, NEW s \in ToSet(DnsServices),
           \A r \in NtpBypasses(a) : RemoveAll("nat", r) \in S
    PROVE  LET t == NtpDnsBypasses(LAMBDA r : <<RemoveAll("nat", r)>>, a, s)
           IN  /\ t \in Seq(S)
               /\ ToSet(t) = {RemoveAll("nat", NtpDnsBypassRule(s, u)) : u \in NtpUsers \cap a}
<1> DEFINE is == Installed(a)
           X(u) == RemoveAll("nat", NtpDnsBypassRule(s, u))
           ss == [i \in DOMAIN is |-> <<X(is[i])>>]
           C == {X(u) : u \in NtpUsers \cap a}
<1>1. is \in Seq(NtpUsers) /\ ToSet(is) = NtpUsers \cap a
  BY InstalledAccounts
<1>2. /\ DOMAIN is = 1..Len(is) /\ Len(is) \in Nat
      /\ \A u : u \in NtpUsers \cap a <=> \E i \in 1..Len(is) : u = is[i]
  BY <1>1, ToSetMember
<1>3. NtpDnsBypasses(LAMBDA r : <<RemoveAll("nat", r)>>, a, s) = FlattenSeq(ss)
  BY DEF NtpDnsBypasses, Each
<1>4. \A u \in NtpUsers \cap a : X(u) \in S
  BY DEF NtpBypasses
<1>5. \A e : e \in C <=> \E u \in NtpUsers \cap a : e = X(u)
  OBVIOUS
<1> HIDE DEF is, X, C
<1>6. \A u \in NtpUsers \cap a : <<X(u)>> \in Seq(S) /\ ToSet(<<X(u)>>) = {X(u)}
  BY <1>4 DEF ToSet
<1>7. DOMAIN ss = 1..Len(is) /\ \A i \in 1..Len(is) : ss[i] = <<X(is[i])>>
  BY <1>2
<1>8. ss \in [1..Len(is) -> Seq(S)]
  BY <1>2, <1>6, <1>7
<1> HIDE DEF ss
<1>9. ss \in Seq(Seq(S)) /\ Len(ss) = Len(is)
  BY <1>2, <1>7, <1>8
<1>10. \A i \in 1..Len(ss) : \A e : e \in ToSet(ss[i]) <=> e = X(is[i])
  BY <1>2, <1>6, <1>7, <1>9
<1>11. \A e : e \in ToSet(FlattenSeq(ss)) <=> \E i \in 1..Len(ss) : e \in ToSet(ss[i])
  BY <1>9, FlattenMembers
<1>12. \A e : e \in C <=> \E i \in 1..Len(is) : e = X(is[i])
  BY <1>2, <1>5
<1>13. ToSet(FlattenSeq(ss)) = C
  BY <1>9, <1>10, <1>11, <1>12
<1>14. FlattenSeq(ss) \in Seq(S)
  BY <1>9, FlattenTyped
<1> QED
  BY <1>3, <1>13, <1>14 DEF C, X

LEMMA StopProgramShape ==
    ASSUME NEW a
    PROVE  /\ StopProgram(a) \in Seq(StopCommands(a))
           /\ ToSet(StopProgram(a)) = StopCommands(a)
<1> DEFINE S == StopCommands(a)
           L(s) == RemoveAll("nat", LegacyRule(s))
           N(s) == NtpDnsBypasses(LAMBDA r : <<RemoveAll("nat", r)>>, a, s)
           F(s) == N(s) \o <<L(s)>>
           NC(s) == {RemoveAll("nat", NtpDnsBypassRule(s, u)) : u \in NtpUsers \cap a}
           q1 == <<CallForwarding>>
           q2 == <<RemoveByComment("nat", "mitmwall-redirect")>>
           q3 == ClearLegacyRedirects
           q4 == ClearCustomRules
           q5 == <<L("http"), L("https")>>
           q6 == F("dns-udp") \o F("dns-tcp")
           q7 == RemoveOutputFilter
           r2 == q1 \o q2
           r3 == r2 \o q3
           r4 == r3 \o q4
           r5 == r4 \o q5
           r6 == r5 \o q6
           r7 == r6 \o q7
           C1 == {CallForwarding}
           C2 == {RemoveByComment("nat", "mitmwall-redirect")}
           C3 == {RemoveAll("nat", r) : r \in LegacyRules}
           C4 == {RemoveByComment("own", "mitmwall-custom"), RemoveByComment("nat", "mitmwall-custom")}
           C5 == {L("http"), L("https")}
           C6 == (NC("dns-udp") \cup {L("dns-udp")}) \cup (NC("dns-tcp") \cup {L("dns-tcp")})
           C7 == {RemoveAll("out", JumpRule), FlushChain}
<1>1. /\ \A r \in LegacyRules \cup NtpBypasses(a) : RemoveAll("nat", r) \in S
      /\ CallForwarding \in S /\ FlushChain \in S /\ RemoveByComment("nat", "mitmwall-redirect") \in S
      /\ RemoveByComment("own", "mitmwall-custom") \in S
      /\ RemoveByComment("nat", "mitmwall-custom") \in S
      /\ RemoveAll("out", JumpRule) \in S
  BY DEF StopCommands
<1>2. \A s \in ToSet(WebServices) \cup ToSet(DnsServices) : L(s) \in S /\ L(s) \in C3
  BY <1>1 DEF LegacyRules
<1>3. S = C1 \cup C2 \cup C3 \cup C4 \cup C5 \cup C6 \cup C7
  <2>1. C5 \subseteq C3 /\ L("dns-udp") \in C3 /\ L("dns-tcp") \in C3
    BY <1>2, ServicesAre
  <2>2. {RemoveAll("nat", r) : r \in NtpBypasses(a)} = NC("dns-udp") \cup NC("dns-tcp")
    BY ServicesAre DEF NtpBypasses
  <2>3. S = C1 \cup C2 \cup C3 \cup C4 \cup C7 \cup {RemoveAll("nat", r) : r \in NtpBypasses(a)}
    BY DEF StopCommands
  <2> HIDE DEF S, C1, C2, C3, C4, C5, C7, NC, L
  <2> QED
    BY <2>1, <2>2, <2>3
<1>4. \A s \in ToSet(DnsServices) :
          F(s) \in Seq(S) /\ ToSet(F(s)) = NC(s) \cup {L(s)}
  <2> SUFFICES ASSUME NEW s \in ToSet(DnsServices)
               PROVE  F(s) \in Seq(S) /\ ToSet(F(s)) = NC(s) \cup {L(s)}
    OBVIOUS
  <2>1. N(s) \in Seq(S) /\ ToSet(N(s)) = NC(s)
    <3>1. \A r \in NtpBypasses(a) : RemoveAll("nat", r) \in S
      BY <1>1
    <3> HIDE DEF S
    <3>2. N(s) \in Seq(S)
      BY <3>1, NtpRemovals
    <3>3. ToSet(N(s)) = NC(s)
      BY <3>1, NtpRemovals
    <3> QED
      BY <3>2, <3>3
  <2>2. L(s) \in S
    BY <1>2
  <2> HIDE DEF N, NC, L, S
  <2>3. <<L(s)>> \in Seq(S) /\ ToSet(<<L(s)>>) = {L(s)}
    BY <2>2 DEF ToSet
  <2> QED
    <3> DEFINE x == N(s)
               y == <<L(s)>>
               X == NC(s)
               Y == {L(s)}
    <3>1. x \in Seq(S) /\ y \in Seq(S) /\ ToSet(x) = X /\ ToSet(y) = Y
      BY <2>1, <2>3
    <3> HIDE DEF x, y, X, Y
    <3>2. x \o y \in Seq(S) /\ ToSet(x \o y) = X \cup Y
      BY <3>1, Joined
    <3> QED
      BY <3>2 DEF x, y, X, Y
<1>5. StopProgram(a) = r7
  <2>1. Each(L, WebServices) = q5
    BY DEF Each, WebServices
  <2>2. Each(F, DnsServices) = <<F("dns-udp"), F("dns-tcp")>>
    <3> HIDE DEF F, N
    <3> QED
      BY DEF Each, DnsServices
  <2>3. F("dns-udp") \in Seq(S) /\ F("dns-tcp") \in Seq(S)
    BY <1>4, ServicesAre
  <2>4. FlattenSeq(Each(F, DnsServices)) = q6
    <3> HIDE DEF F, S
    <3> QED
      BY <2>2, <2>3, FlattenPair
  <2>5. StopProgram(a) = ((((((q1 \o ClearManagedRedirects) \o q3) \o q4) \o Each(L, WebServices))
                          \o FlattenSeq(Each(F, DnsServices))) \o q7)
    BY DEF StopProgram
  <2> HIDE DEF q5, q6, F, L
  <2> QED
    BY <2>1, <2>4, <2>5 DEF ClearManagedRedirects
<1>6. q1 \in Seq(S) /\ ToSet(q1) = C1
  <2> HIDE DEF S
  <2> QED
    BY <1>1 DEF ToSet
<1>7. q2 \in Seq(S) /\ ToSet(q2) = C2
  <2> HIDE DEF S
  <2> QED
    BY <1>1 DEF ToSet
<1>8. q3 \in Seq(S) /\ ToSet(q3) = C3
  <2>1. \A r \in LegacyRules : RemoveAll("nat", r) \in S
    BY <1>1
  <2> HIDE DEF S
  <2> QED
    BY <2>1, LegacySegment DEF Segment
<1>9. q4 \in Seq(S) /\ ToSet(q4) = C4
  <2> HIDE DEF S
  <2> QED
    BY <1>1 DEF ToSet, ClearCustomRules
<1>10. q5 \in Seq(S) /\ ToSet(q5) = C5
  <2>1. L("http") \in S /\ L("https") \in S
    BY <1>2, ServicesAre
  <2> HIDE DEF S, L
  <2> QED
    BY <2>1 DEF ToSet
<1>11. q6 \in Seq(S) /\ ToSet(q6) = C6
  <2>1. /\ F("dns-udp") \in Seq(S) /\ F("dns-tcp") \in Seq(S)
        /\ ToSet(F("dns-udp")) = NC("dns-udp") \cup {L("dns-udp")}
        /\ ToSet(F("dns-tcp")) = NC("dns-tcp") \cup {L("dns-tcp")}
    BY <1>4, ServicesAre
  <2> HIDE DEF F, S, NC, L
  <2> QED
    BY <2>1, Joined
<1>12. q7 \in Seq(S) /\ ToSet(q7) = C7
  <2> HIDE DEF S
  <2> QED
    BY <1>1 DEF ToSet, RemoveOutputFilter
<1> HIDE DEF S, q1, q2, q3, q4, q5, q6, q7, C1, C2, C3, C4, C5, C6, C7
<1>13. r2 \in Seq(S) /\ ToSet(r2) = C1 \cup C2
  BY <1>6, <1>7, Joined
<1> HIDE DEF r2
<1>14. r3 \in Seq(S) /\ ToSet(r3) = (C1 \cup C2) \cup C3
  BY <1>8, <1>13, Joined
<1> HIDE DEF r3
<1>15. r4 \in Seq(S) /\ ToSet(r4) = ((C1 \cup C2) \cup C3) \cup C4
  BY <1>9, <1>14, Joined
<1> HIDE DEF r4
<1>16. r5 \in Seq(S) /\ ToSet(r5) = (((C1 \cup C2) \cup C3) \cup C4) \cup C5
  BY <1>10, <1>15, Joined
<1> HIDE DEF r5
<1>17. r6 \in Seq(S) /\ ToSet(r6) = ((((C1 \cup C2) \cup C3) \cup C4) \cup C5) \cup C6
  BY <1>11, <1>16, Joined
<1> HIDE DEF r6
<1>18. r7 \in Seq(S) /\ ToSet(r7) = (((((C1 \cup C2) \cup C3) \cup C4) \cup C5) \cup C6) \cup C7
  BY <1>12, <1>17, Joined
<1> QED
  BY <1>3, <1>5, <1>18 DEF S

-----------------------------------------------------------------------------
(* What is left of a program                                               *)

LEMMA TailLines ==
    ASSUME NEW S, NEW t \in Seq(S), t # <<>>
    PROVE  /\ Tail(t) \in Seq(S) /\ Len(Tail(t)) = Len(t) - 1 /\ Len(t) \in Nat /\ Len(t) >= 1
           /\ \A i \in 1..(Len(t) - 1) : Tail(t)[i] = t[i + 1]
           /\ Head(t) = t[1] /\ Head(t) \in S /\ Head(t) \in ToSet(t)
           /\ ToSet(t) = {Head(t)} \cup ToSet(Tail(t))
           /\ Tail(t) # <<>> => Len(t) >= 2 /\ Head(Tail(t)) = t[2]
<1> DEFINE u == Tail(t)
<1>1. /\ u \in Seq(S) /\ Len(u) = Len(t) - 1 /\ Len(t) \in Nat /\ Len(t) >= 1
      /\ \A i \in 1..(Len(t) - 1) : u[i] = t[i + 1]
      /\ Head(t) = t[1] /\ t[1] \in S
  BY HeadTailProperties
<1> HIDE DEF u
<1>2. t[1] \in ToSet(t)
  BY <1>1, ToSetMember
<1>3. \A e \in ToSet(t) : e = t[1] \/ e \in ToSet(u)
  <2> SUFFICES ASSUME NEW e \in ToSet(t), e # t[1] PROVE e \in ToSet(u)
    OBVIOUS
  <2>1. PICK i \in 1..Len(t) : e = t[i]
    BY ToSetMember
  <2>2. i - 1 \in 1..Len(u) /\ (i - 1) + 1 = i /\ i - 1 \in 1..(Len(t) - 1)
    BY <1>1, <2>1
  <2>3. e = u[i - 1]
    BY <1>1, <2>1, <2>2
  <2> QED
    BY <1>1, <2>2, <2>3, ToSetMember
<1>4. \A e \in ToSet(u) : e \in ToSet(t)
  <2> SUFFICES ASSUME NEW e \in ToSet(u) PROVE e \in ToSet(t)
    OBVIOUS
  <2>1. PICK i \in 1..Len(u) : e = u[i]
    BY <1>1, ToSetMember
  <2>2. e = t[i + 1] /\ i + 1 \in 1..Len(t)
    BY <1>1, <2>1
  <2> QED
    BY <2>2, ToSetMember
<1>5. u # <<>> => Len(t) >= 2 /\ Head(u) = t[2]
  <2> SUFFICES ASSUME u # <<>> PROVE Len(t) >= 2 /\ Head(u) = t[2]
    OBVIOUS
  <2>1. Len(u) >= 1 /\ Head(u) = u[1]
    BY <1>1
  <2>2. 1 \in 1..(Len(t) - 1) /\ 1 + 1 = 2
    BY <1>1, <2>1
  <2> QED
    BY <1>1, <2>1, <2>2
<1> QED
  BY <1>1, <1>2, <1>3, <1>4, <1>5 DEF u

LEMMA PairedTail ==
    ASSUME NEW S, NEW t \in Seq(S), t # <<>>, Paired(t)
    PROVE  Paired(Tail(t))
<1> DEFINE u == Tail(t)
<1>1. /\ u \in Seq(S) /\ Len(u) = Len(t) - 1 /\ Len(t) \in Nat /\ Len(t) >= 1
      /\ \A i \in 1..(Len(t) - 1) : u[i] = t[i + 1]
  BY TailLines
<1> HIDE DEF u
<1>2. \A i \in 1..Len(u) : u[i] = t[i + 1] /\ i + 1 \in 1..Len(t)
  BY <1>1
<1>3. ASSUME NEW i \in 1..Len(u), NEW j \in 1..Len(u), i < j
      PROVE  Phase(u[i]) <= Phase(u[j])
  <2>1. i + 1 < j + 1 /\ i + 1 \in 1..Len(t) /\ j + 1 \in 1..Len(t)
    BY <1>2, <1>3
  <2>2. Phase(t[i + 1]) <= Phase(t[j + 1])
    BY <2>1 DEF Paired
  <2> QED
    BY <1>2, <2>2
<1>4. ASSUME NEW i \in 1..Len(u), i > 1, u[i].op = "insert"
      PROVE  u[i - 1] = RemoveAll(u[i].chain, u[i].rule)
  <2>1. i + 1 > 1 /\ t[i + 1].op = "insert" /\ i + 1 \in 1..Len(t)
    BY <1>2, <1>4
  <2>2. t[(i + 1) - 1] = RemoveAll(t[i + 1].chain, t[i + 1].rule)
    BY <2>1 DEF Paired
  <2>3. i - 1 \in 1..Len(u) /\ (i + 1) - 1 = (i - 1) + 1
    BY <1>1, <1>4
  <2>4. u[i - 1] = t[(i - 1) + 1]
    BY <1>2, <2>3
  <2> QED
    BY <1>2, <2>2, <2>3, <2>4
<1>5. ASSUME NEW i \in 1..Len(u), u[i].op = "remove_all", Phase(u[i]) # 1
      PROVE  i < Len(u) /\ u[i + 1] = Insert(u[i].chain, u[i].rule)
  <2>1. i + 1 \in 1..Len(t) /\ t[i + 1].op = "remove_all" /\ Phase(t[i + 1]) # 1
    BY <1>2, <1>5
  <2>2. i + 1 < Len(t) /\ t[(i + 1) + 1] = Insert(t[i + 1].chain, t[i + 1].rule)
    BY <2>1 DEF Paired
  <2>3. i < Len(u) /\ i + 1 \in 1..Len(u)
    BY <1>1, <2>2
  <2>4. u[i + 1] = t[(i + 1) + 1]
    BY <1>2, <2>3
  <2> QED
    BY <1>2, <2>2, <2>3, <2>4
<1> QED
  BY <1>3, <1>4, <1>5 DEF Paired, u

(* The phases of a start are numbers.                                      *)
LEMMA PhaseTyped ==
    ASSUME NEW b \in SUBSET Configurable, NEW a, NEW cu \in Seq(Services)
    PROVE  \A c \in StartCommands(b, a, cu) : Phase(c) \in 1..12
<1> DEFINE S == StartCommands(b, a, cu)
           s == StartProgram(b, a, cu)
<1>1. s \in Seq(S) /\ ToSet(s) = S /\ Arranged(s, 1, 12)
  BY StartProgramShape DEF Segment
<1> HIDE DEF S, s
<1>2. \A c \in S : \E i \in 1..Len(s) : c = s[i]
  BY <1>1, ToSetMember
<1>3. \A c \in S : Phase(c) \in 1..12
  BY <1>1, <1>2 DEF Arranged
<1> QED
  BY <1>3 DEF S

LEMMA HeadIsNext ==
    ASSUME NEW S, \A c \in S : Phase(c) \in 1..12, NEW t \in Seq(S), t # <<>>, Paired(t)
    PROVE  \A c \in ToSet(t) : Phase(Head(t)) <= Phase(c)
<1> SUFFICES ASSUME NEW c \in ToSet(t) PROVE Phase(Head(t)) <= Phase(c)
  OBVIOUS
<1>1. Head(t) = t[1] /\ Head(t) \in S /\ Len(t) \in Nat /\ Len(t) >= 1
  BY TailLines
<1>2. PICK i \in 1..Len(t) : c = t[i]
  BY ToSetMember
<1>3. CASE i = 1
  <2>1. Phase(Head(t)) \in 1..12
    BY <1>1
  <2> QED
    BY <1>1, <1>2, <1>3, <2>1
<1>4. CASE i # 1
  <2>1. 1 < i /\ 1 \in 1..Len(t)
    BY <1>1, <1>4
  <2> QED
    BY <1>1, <1>2, <2>1 DEF Paired
<1> QED
  BY <1>3, <1>4

LEMMA ReachedTail ==
    ASSUME NEW S, \A c \in S : Phase(c) \in 1..12, NEW t \in Seq(S), t # <<>>, Paired(t), Reached(t, S)
    PROVE  Reached(Tail(t), S)
<1> DEFINE u == Tail(t)
<1> SUFFICES ASSUME u # <<>>, NEW c \in S, c \notin ToSet(u) PROVE Phase(c) <= Phase(Head(u))
  BY DEF Reached
<1>1. /\ u \in Seq(S) /\ Head(t) \in S /\ ToSet(t) = {Head(t)} \cup ToSet(u)
  BY TailLines
<1>2. Head(u) \in S /\ Head(u) \in ToSet(u)
  <2>1. u \in Seq(S) /\ u # <<>>
    BY <1>1
  <2> HIDE DEF u
  <2> QED
    BY <2>1, TailLines
<1>3. Phase(Head(t)) <= Phase(Head(u))
  <2>1. Head(u) \in ToSet(t)
    BY <1>1, <1>2
  <2> QED
    BY <2>1, HeadIsNext
<1>4. /\ Phase(c) \in 1..12 /\ Phase(Head(t)) \in 1..12 /\ Phase(Head(u)) \in 1..12
  BY <1>1, <1>2
<1>5. Phase(c) <= Phase(Head(t))
  <2>1. CASE c = Head(t)
    BY <1>4, <2>1
  <2>2. CASE c # Head(t)
    BY <1>1, <2>2 DEF Reached
  <2> QED
    BY <2>1, <2>2
<1> HIDE DEF u
<1> QED
  BY <1>3, <1>4, <1>5

(* What the commands of a start are.                                       *)
LEMMA StartCommandKinds ==
    ASSUME NEW b, NEW a, NEW cu, NEW c \in StartCommands(b, a, cu)
    PROVE  /\ c.op = "insert" =>
                  \/ c = Insert("nat", c.rule) /\ c.chain = "nat" /\ c.rule \in NatRules(b, a, cu)
                  \/ c = Insert("out", JumpRule) /\ c.chain = "out" /\ c.rule = JumpRule
           /\ c.op = "remove_all" =>
                  \/ /\ c = RemoveAll("nat", c.rule) /\ c.chain = "nat"
                     /\ c.rule \in LegacyRules \cup NatRules(b, a, cu)
                  \/ c = RemoveAll("out", JumpRule) /\ c.chain = "out" /\ c.rule = JumpRule
           /\ c.op = "remove_by_comment" =>
                  \/ c = RemoveByComment("nat", "mitmwall-redirect") /\ c.chain = "nat" /\ c.tag = "mitmwall-redirect"
                  \/ c = RemoveByComment("own", "mitmwall-custom") /\ c.chain = "own" /\ c.tag = "mitmwall-custom"
                  \/ c = RemoveByComment("nat", "mitmwall-custom") /\ c.chain = "nat" /\ c.tag = "mitmwall-custom"
           /\ c.op = "append" => c = AppendOwn(c.rule) /\ c.rule \in Managed(b, a)
           /\ c.op = "add_rule" => c = InsertBeforeDrop(c.rule) /\ c.rule \in CustomRules(cu)
           /\ c.op = "ensure_chain" => c = EnsureChain
           /\ c.op = "flush_chain" => c = FlushChain
           /\ c.op = "forwarding" => c = CallForwarding
<1>1. \/ \E r \in LegacyRules : c = RemoveAll("nat", r)
      \/ c = RemoveByComment("nat", "mitmwall-redirect") \/ c = CallForwarding
      \/ \E r \in NatRules(b, a, cu) : c = RemoveAll("nat", r)
      \/ \E r \in NatRules(b, a, cu) : c = Insert("nat", r)
      \/ c = EnsureChain \/ c = FlushChain
      \/ \E r \in Managed(b, a) : c = AppendOwn(r)
      \/ c = RemoveAll("out", JumpRule) \/ c = Insert("out", JumpRule)
      \/ c = RemoveByComment("own", "mitmwall-custom")
      \/ c = RemoveByComment("nat", "mitmwall-custom")
      \/ \E r \in CustomRules(cu) : c = InsertBeforeDrop(r)
  BY DEF StartCommands
<1> QED
  BY <1>1 DEF RemoveAll, RemoveByComment, Insert, AppendOwn, InsertBeforeDrop, EnsureChain,
     FlushChain, CallForwarding

LEMMA StopCommandKinds ==
    ASSUME NEW a, NEW c \in StopCommands(a)
    PROVE  /\ c.op = "remove_all" =>
                  \/ /\ c = RemoveAll("nat", c.rule) /\ c.chain = "nat"
                     /\ c.rule \in LegacyRules \cup NtpBypasses(a)
                  \/ c = RemoveAll("out", JumpRule) /\ c.chain = "out" /\ c.rule = JumpRule
           /\ c.op = "remove_by_comment" =>
                  \/ c = RemoveByComment("nat", "mitmwall-redirect") /\ c.chain = "nat" /\ c.tag = "mitmwall-redirect"
                  \/ c = RemoveByComment("own", "mitmwall-custom") /\ c.chain = "own" /\ c.tag = "mitmwall-custom"
                  \/ c = RemoveByComment("nat", "mitmwall-custom") /\ c.chain = "nat" /\ c.tag = "mitmwall-custom"
           /\ c.op = "flush_chain" => c = FlushChain
           /\ c.op \notin {"insert", "append", "add_rule", "ensure_chain"}
<1>1. \/ c = CallForwarding \/ c = FlushChain \/ c = RemoveByComment("nat", "mitmwall-redirect")
      \/ c = RemoveByComment("own", "mitmwall-custom")
      \/ c = RemoveByComment("nat", "mitmwall-custom")
      \/ c = RemoveAll("out", JumpRule)
      \/ \E r \in LegacyRules \cup NtpBypasses(a) : c = RemoveAll("nat", r)
  BY DEF StopCommands
<1> QED
  BY <1>1 DEF RemoveAll, RemoveByComment, FlushChain, CallForwarding

-----------------------------------------------------------------------------
(* Steps of a start in the nat chain                                       *)

(* A start that has t yet to run, t not empty.                             *)
Going(t, b, a, cu) ==
    /\ t \in Seq(StartCommands(b, a, cu)) /\ t # <<>>
    /\ Paired(t) /\ Reached(t, StartCommands(b, a, cu))

LEMMA LaterIsPending ==
    ASSUME NEW b \in SUBSET Configurable, NEW a, NEW cu \in Seq(Services), NEW t,
           Going(t, b, a, cu),
           NEW c \in StartCommands(b, a, cu), ~(Phase(c) <= Phase(Head(t)))
    PROVE  c \in ToSet(t)
  BY DEF Going, Reached

LEMMA RemovalBeforeInsertion ==
    ASSUME NEW b \in SUBSET Configurable, NEW a, NEW cu \in Seq(Services), NEW t,
           Going(t, b, a, cu), NEW ch, NEW r,
           Head(t) = RemoveAll(ch, r), Phase(RemoveAll(ch, r)) # 1
    PROVE  Insert(ch, r) \in ToSet(t) /\ Insert(ch, r) \in ToSet(Tail(t))
<1> DEFINE S == StartCommands(b, a, cu)
<1>1. t \in Seq(S) /\ t # <<>> /\ Paired(t)
  BY DEF Going
<1>2. RemoveAll(ch, r).op = "remove_all" /\ RemoveAll(ch, r).chain = ch /\ RemoveAll(ch, r).rule = r
      /\ RemoveAll(ch, r) # Insert(ch, r)
  BY DEF RemoveAll, Insert
<1> HIDE DEF S
<1>3. Head(t) = t[1] /\ Len(t) \in Nat /\ Len(t) >= 1
  BY <1>1, TailLines
<1>4. 1 < Len(t) /\ t[1 + 1] = Insert(ch, r)
  <2>1. 1 \in 1..Len(t)
    BY <1>3
  <2> QED
    BY <1>1, <1>2, <1>3, <2>1 DEF Paired
<1>5. t[2] \in ToSet(t)
  <2>1. 2 \in 1..Len(t)
    BY <1>3, <1>4
  <2> QED
    BY <1>1, <2>1, ToSetMember
<1>6. Insert(ch, r) \in ToSet(t)
  BY <1>4, <1>5
<1>7. ToSet(t) = {Head(t)} \cup ToSet(Tail(t))
  BY <1>1, TailLines
<1> QED
  BY <1>2, <1>6, <1>7

LEMMA NatBuiltDone ==
    ASSUME NEW b \in SUBSET Configurable, NEW a, NEW cu \in Seq(Services), NEW t, NEW d,
           Going(t, b, a, cu), NEW nat \in Seq(Rules), NatBuilt(nat, ToSet(t), b, a, cu, d),
           ~(Head(t).op = "insert" /\ Head(t).chain = "nat"),
           Head(t).op = "remove_all" /\ Head(t).chain = "nat" => Head(t).rule \notin ToSet(nat),
           Head(t).op = "remove_by_comment" /\ Head(t).chain = "nat" =>
               \A r \in ToSet(nat) : r.tag # Head(t).tag
    PROVE  NatBuilt(nat, ToSet(Tail(t)), b, a, cu, d)
<1>1. ToSet(t) = {Head(t)} \cup ToSet(Tail(t))
  <2>1. t \in Seq(StartCommands(b, a, cu)) /\ t # <<>>
    BY DEF Going
  <2> QED
    BY <2>1, TailLines
<1>2. \A r : /\ Insert("nat", r).op = "insert" /\ Insert("nat", r).chain = "nat"
             /\ RemoveAll("nat", r).op = "remove_all" /\ RemoveAll("nat", r).chain = "nat"
             /\ RemoveAll("nat", r).rule = r
  BY DEF Insert, RemoveAll
<1>3. /\ RemoveByComment("nat", "mitmwall-redirect").op = "remove_by_comment"
      /\ RemoveByComment("nat", "mitmwall-redirect").chain = "nat"
      /\ RemoveByComment("nat", "mitmwall-redirect").tag = "mitmwall-redirect"
  BY DEF RemoveByComment
<1>4. \A r \in LegacyRules : RemoveAll("nat", r) \in ToSet(Tail(t)) \/ r \notin ToSet(nat)
  BY <1>1, <1>2 DEF NatBuilt
<1>5. \/ RemoveByComment("nat", "mitmwall-redirect") \in ToSet(Tail(t))
      \/ \A r \in ToSet(nat) : r.tag = "mitmwall-redirect" => r \in Redirects(b)
  BY <1>1, <1>3 DEF NatBuilt
<1>6. \A r \in Redirects(b) :
           d \/ Insert("nat", r) \in ToSet(Tail(t)) \/ Above(nat, r, NatRules(b, a, cu))
  BY <1>1, <1>2 DEF NatBuilt
<1>7. \A r \in NtpBypasses(a) \cup CustomRules(cu) :
           d \/ Insert("nat", r) \in ToSet(Tail(t)) \/ Above(nat, r, NotRedirect)
  BY <1>1, <1>2 DEF NatBuilt
<1> QED
  BY <1>4, <1>5, <1>6, <1>7 DEF NatBuilt

(* A rule of this start that is deleted has yet to be inserted.            *)
LEMMA DeletedIsPending ==
    ASSUME NEW b \in SUBSET Configurable, NEW a, NEW cu \in Seq(Services), NEW t,
           Going(t, b, a, cu), NEW r \in NatRules(b, a, cu),
           Head(t) = RemoveAll("nat", r) \/ Head(t) = RemoveByComment("nat", r.tag)
    PROVE  Insert("nat", r) \in ToSet(t)
<1>1. /\ r \in Redirects(b) => r.tag = "mitmwall-redirect"
      /\ r \in NtpBypasses(a) => r.tag = "none" /\ r.verdict = "ACCEPT"
      /\ r \in CustomRules(cu) => r.tag = "mitmwall-custom"
  BY RuleSets
<1>2. r \in Redirects(b) \/ r \in NtpBypasses(a) \/ r \in CustomRules(cu)
  BY DEF NatRules
<1>3. CASE Head(t) = RemoveAll("nat", r)
  <2>1. Phase(RemoveAll("nat", r)) # 1
    <3>1. CASE r.tag = "mitmwall-redirect"
      BY <3>1, PhaseValues
    <3>2. CASE r.tag = "none" /\ r.verdict = "ACCEPT"
      BY <3>2, PhaseValues
    <3>3. CASE r.tag = "mitmwall-custom"
      BY <3>3, PhaseValues
    <3> QED
      BY <1>1, <1>2, <3>1, <3>2, <3>3
  <2> QED
    BY <1>3, <2>1, RemovalBeforeInsertion
<1>4. CASE Head(t) = RemoveByComment("nat", r.tag)
  <2>1. r.tag = "mitmwall-redirect" \/ r.tag = "mitmwall-custom"
    <3>1. Head(t) \in StartCommands(b, a, cu)
      <4>1. t \in Seq(StartCommands(b, a, cu)) /\ t # <<>>
        BY DEF Going
      <4> QED
        BY <4>1, TailLines
    <3>2. Head(t).op = "remove_by_comment" /\ Head(t).tag = r.tag
      BY <1>4 DEF RemoveByComment
    <3> QED
      BY <3>1, <3>2, StartCommandKinds
  <2>2. Insert("nat", r) \in StartCommands(b, a, cu)
    BY DEF StartCommands
  <2>3. Phase(Insert("nat", r)) = IF r.tag = "mitmwall-redirect" THEN 4 ELSE 12
    BY <2>1, PhaseValues
  <2>4. Phase(Head(t)) = IF r.tag = "mitmwall-redirect" THEN 2 ELSE 11
    BY <1>4, <2>1, PhaseValues
  <2>5. ~(Phase(Insert("nat", r)) <= Phase(Head(t)))
    BY <2>1, <2>3, <2>4
  <2> QED
    BY <2>2, <2>5, LaterIsPending
<1> QED
  BY <1>3, <1>4

LEMMA NatBuiltDelete ==
    ASSUME NEW b \in SUBSET Configurable, NEW a, NEW cu \in Seq(Services), NEW t, NEW d,
           Going(t, b, a, cu), NEW nat \in Seq(Rules), NatBuilt(nat, ToSet(t), b, a, cu, d),
           NEW i \in 1..Len(nat),
           Head(t) = RemoveAll("nat", nat[i]) \/ Head(t) = RemoveByComment("nat", nat[i].tag)
    PROVE  NatBuilt(RemoveAt(nat, i), ToSet(t), b, a, cu, d)
<1> DEFINE n == RemoveAt(nat, i)
<1>1. ToSet(n) \subseteq ToSet(nat)
  BY ToSetRemoveAt
<1>2. \A r \in NatRules(b, a, cu) : r = nat[i] => Insert("nat", r) \in ToSet(t)
  BY DeletedIsPending
<1>3. \A r, G : r # nat[i] /\ Above(nat, r, G) => Above(n, r, G)
  BY AboveRemoveAt
<1> HIDE DEF n
<1>4. \A r \in LegacyRules : RemoveAll("nat", r) \in ToSet(t) \/ r \notin ToSet(n)
  BY <1>1 DEF NatBuilt
<1>5. \/ RemoveByComment("nat", "mitmwall-redirect") \in ToSet(t)
      \/ \A r \in ToSet(n) : r.tag = "mitmwall-redirect" => r \in Redirects(b)
  BY <1>1 DEF NatBuilt
<1>6. \A r \in Redirects(b) :
           d \/ Insert("nat", r) \in ToSet(t) \/ Above(n, r, NatRules(b, a, cu))
  BY <1>2, <1>3 DEF NatBuilt, NatRules
<1>7. \A r \in NtpBypasses(a) \cup CustomRules(cu) :
           d \/ Insert("nat", r) \in ToSet(t) \/ Above(n, r, NotRedirect)
  BY <1>2, <1>3 DEF NatBuilt, NatRules
<1> QED
  BY <1>4, <1>5, <1>6, <1>7 DEF NatBuilt, n

LEMMA NatBuiltInsert ==
    ASSUME NEW b \in SUBSET Configurable, NEW a, NEW cu \in Seq(Services), NEW t, NEW d,
           Going(t, b, a, cu), NEW nat \in Seq(Rules), NatBuilt(nat, ToSet(t), b, a, cu, d),
           NEW x \in NatRules(b, a, cu), Head(t) = Insert("nat", x)
    PROVE  NatBuilt(InsertAt(nat, 1, x), ToSet(Tail(t)), b, a, cu, d)
<1> DEFINE n == InsertAt(nat, 1, x)
<1>0. /\ \A r \in LegacyRules : r.tag = "none" /\ r.verdict = "REDIRECT"
      /\ \A r \in Redirects(b) : r \in Rules /\ r.tag = "mitmwall-redirect" /\ r.verdict = "REDIRECT"
      /\ \A r \in NtpBypasses(a) : r \in Rules /\ r.tag = "none" /\ r.verdict = "ACCEPT"
      /\ \A r \in CustomRules(cu) : r \in Rules /\ r.tag = "mitmwall-custom" /\ r.verdict = "ACCEPT"
  BY RuleSets
<1>1. x \in Redirects(b) \/ x \in NtpBypasses(a) \/ x \in CustomRules(cu)
  BY DEF NatRules
<1>2. x \in Rules /\ x \notin LegacyRules
  BY <1>0, <1>1
<1>3. 1 \in 1..(Len(nat) + 1)
  OBVIOUS
<1>4. ToSet(n) = ToSet(nat) \cup {x}
  BY <1>2, <1>3, ToSetInsertAt
<1>5. \A r, G : x \in G /\ Above(nat, r, G) => Above(n, r, G)
  BY <1>2, <1>3, AboveInsertAt
<1>6. \A G : Above(n, x, G)
  <2>1. \A G : \A j \in 1..(1 - 1) : nat[j] \in G
    OBVIOUS
  <2> QED
    BY <1>2, <1>3, <2>1, AboveInserted
<1> HIDE DEF n
<1>7. ToSet(t) = {Head(t)} \cup ToSet(Tail(t))
  <2>1. t \in Seq(StartCommands(b, a, cu)) /\ t # <<>>
    BY DEF Going
  <2> QED
    BY <2>1, TailLines
<1>8. /\ \A r : RemoveAll("nat", r) # Insert("nat", x)
      /\ RemoveByComment("nat", "mitmwall-redirect") # Insert("nat", x)
      /\ \A r : Insert("nat", r) = Insert("nat", x) => r = x
  BY DEF RemoveAll, Insert, RemoveByComment
<1>9. \A r \in LegacyRules : RemoveAll("nat", r) \in ToSet(Tail(t)) \/ r \notin ToSet(n)
  BY <1>2, <1>4, <1>7, <1>8 DEF NatBuilt
<1>10. \/ RemoveByComment("nat", "mitmwall-redirect") \in ToSet(Tail(t))
       \/ \A r \in ToSet(n) : r.tag = "mitmwall-redirect" => r \in Redirects(b)
  BY <1>0, <1>1, <1>4, <1>7, <1>8 DEF NatBuilt
<1>11. \A r \in Redirects(b) :
           d \/ Insert("nat", r) \in ToSet(Tail(t)) \/ Above(n, r, NatRules(b, a, cu))
  BY <1>5, <1>6, <1>7, <1>8 DEF NatBuilt
<1>12. \A r \in NtpBypasses(a) \cup CustomRules(cu) :
           d \/ Insert("nat", r) \in ToSet(Tail(t)) \/ Above(n, r, NotRedirect)
  <2> SUFFICES ASSUME NEW r \in NtpBypasses(a) \cup CustomRules(cu),
                      ~d, Insert("nat", r) \notin ToSet(Tail(t))
               PROVE  Above(n, r, NotRedirect)
    OBVIOUS
  <2>1. CASE r = x
    BY <1>6, <2>1
  <2>2. CASE r # x
    <3>1. Insert("nat", r) \notin ToSet(t)
      BY <1>7, <1>8, <2>2
    <3>2. Above(nat, r, NotRedirect)
      BY <3>1 DEF NatBuilt
    <3>3. Insert("nat", r) \in StartCommands(b, a, cu)
      BY DEF StartCommands, NatRules
    <3>4. Phase(Insert("nat", r)) <= Phase(Insert("nat", x))
      BY <3>1, <3>3, LaterIsPending
    <3>5. Phase(Insert("nat", r)) \in {5, 12}
      BY <1>0, PhaseValues
    <3>6. x \notin Redirects(b)
      <4>1. ASSUME x \in Redirects(b) PROVE Phase(Insert("nat", x)) = 4
        BY <1>0, <4>1, PhaseValues
      <4> QED
        BY <3>4, <3>5, <4>1
    <3>7. x \in NotRedirect
      BY <1>0, <1>1, <3>6 DEF NotRedirect
    <3> QED
      BY <1>5, <3>2, <3>7
  <2> QED
    BY <2>1, <2>2
<1> QED
  BY <1>9, <1>10, <1>11, <1>12 DEF NatBuilt, n

-----------------------------------------------------------------------------
(* Steps of a start in the filter OUTPUT chain                             *)

LEMMA GoingTail ==
    ASSUME NEW b \in SUBSET Configurable, NEW a, NEW cu \in Seq(Services), NEW t,
           Going(t, b, a, cu)
    PROVE  /\ ToSet(t) = {Head(t)} \cup ToSet(Tail(t))
           /\ Head(t) \in StartCommands(b, a, cu)
           /\ Tail(t) \in Seq(StartCommands(b, a, cu))
           /\ Paired(Tail(t)) /\ Reached(Tail(t), StartCommands(b, a, cu))
           /\ \A c \in ToSet(t) : Phase(Head(t)) <= Phase(c)
           /\ \A c \in ToSet(t) : c \in StartCommands(b, a, cu)
<1> DEFINE S == StartCommands(b, a, cu)
<1>1. t \in Seq(S) /\ t # <<>> /\ Paired(t) /\ Reached(t, S)
  BY DEF Going
<1>2. \A c \in S : Phase(c) \in 1..12
  BY PhaseTyped
<1> HIDE DEF S
<1>3. ToSet(t) = {Head(t)} \cup ToSet(Tail(t)) /\ Head(t) \in S /\ Tail(t) \in Seq(S)
  BY <1>1, TailLines
<1>4. Paired(Tail(t))
  BY <1>1, PairedTail
<1>5. Reached(Tail(t), S)
  BY <1>1, <1>2, ReachedTail
<1>6. \A c \in ToSet(t) : Phase(Head(t)) <= Phase(c)
  BY <1>1, <1>2, HeadIsNext
<1>7. \A c \in ToSet(t) : c \in S
  BY <1>1, ToSetMember
<1> QED
  BY <1>3, <1>4, <1>5, <1>6, <1>7 DEF S

LEMMA OutBuiltDone ==
    ASSUME NEW b \in SUBSET Configurable, NEW a, NEW cu \in Seq(Services), NEW t, NEW d,
           Going(t, b, a, cu), NEW out, OutBuilt(out, ToSet(t), d),
           ~(Head(t).op = "insert" /\ Head(t).chain = "out")
    PROVE  OutBuilt(out, ToSet(Tail(t)), d)
<1>1. ToSet(t) = {Head(t)} \cup ToSet(Tail(t))
  BY GoingTail
<1>2. Insert("out", JumpRule).op = "insert" /\ Insert("out", JumpRule).chain = "out"
  BY DEF Insert
<1> QED
  BY <1>1, <1>2 DEF OutBuilt

LEMMA OutBuiltDelete ==
    ASSUME NEW b \in SUBSET Configurable, NEW a, NEW cu \in Seq(Services), NEW t, NEW d,
           Going(t, b, a, cu), Head(t) = RemoveAll("out", JumpRule), NEW out
    PROVE  OutBuilt(out, ToSet(t), d)
<1>1. Phase(RemoveAll("out", JumpRule)) # 1
  BY PhaseValues
<1> QED
  BY <1>1, RemovalBeforeInsertion DEF OutBuilt

LEMMA OutBuiltInsert ==
    ASSUME NEW out \in Seq(Rules), NEW rest, NEW d
    PROVE  OutBuilt(InsertAt(out, 1, JumpRule), rest, d)
<1>1. JumpRule \in Rules /\ 1 \in 1..(Len(out) + 1)
  BY RulesTyped
<1>2. \A j \in 1..(1 - 1) : out[j] \in {}
  OBVIOUS
<1>3. Above(InsertAt(out, 1, JumpRule), JumpRule, {})
  BY <1>1, <1>2, AboveInserted
<1> QED
  BY <1>3 DEF OutBuilt

-----------------------------------------------------------------------------
(* Steps of a start in the managed chain                                   *)

LEMMA EmptyOwn == <<>> # NoChain /\ <<>> \in Seq(Rules) /\ ToSet(<<>>) = {} /\ Distinct(<<>>)
<1>1. <<>> \in Seq(Rules) /\ NoChain \notin Seq(Rules)
  BY FirewallAssumption
<1>2. ToSet(<<>>) = {}
  BY DEF ToSet
<1>3. Distinct(<<>>)
  BY DEF Distinct
<1> QED
  BY <1>1, <1>2, <1>3

(* The commands of the managed chain, by phase.                            *)
LEMMA OwnCommands ==
    ASSUME NEW b \in SUBSET Configurable, NEW a, NEW cu \in Seq(Services)
    PROVE  /\ EnsureChain \in StartCommands(b, a, cu) /\ FlushChain \in StartCommands(b, a, cu)
           /\ Phase(EnsureChain) = 6 /\ Phase(FlushChain) = 7
           /\ \A r \in ManagedAccepts(b, a) :
                  AppendOwn(r) \in StartCommands(b, a, cu) /\ Phase(AppendOwn(r)) = 8
           /\ AppendOwn(DropRule) \in StartCommands(b, a, cu) /\ Phase(AppendOwn(DropRule)) = 9
           /\ \A r \in CustomRules(cu) : /\ InsertBeforeDrop(r) \in StartCommands(b, a, cu)
                                         /\ Phase(InsertBeforeDrop(r)) = 12
<1>1. \A r \in ManagedAccepts(b, a) : r.verdict # "DROP"
  BY RuleSets DEF AcceptRules
<1>2. DropRule.verdict = "DROP"
  BY RuleFields
<1>3. /\ EnsureChain \in StartCommands(b, a, cu) /\ FlushChain \in StartCommands(b, a, cu)
      /\ \A r \in Managed(b, a) : AppendOwn(r) \in StartCommands(b, a, cu)
      /\ \A r \in CustomRules(cu) : InsertBeforeDrop(r) \in StartCommands(b, a, cu)
  BY DEF StartCommands
<1> QED
  BY <1>1, <1>2, <1>3, PhaseValues DEF Managed

(* The commands are all different.                                         *)
LEMMA OwnCommandsDiffer ==
    /\ EnsureChain.op = "ensure_chain" /\ FlushChain.op = "flush_chain"
    /\ \A r : /\ AppendOwn(r).op = "append" /\ AppendOwn(r).rule = r
              /\ InsertBeforeDrop(r).op = "add_rule" /\ InsertBeforeDrop(r).rule = r
  BY DEF EnsureChain, FlushChain, AppendOwn, InsertBeforeDrop

(* A command that leaves the chain alone.                                  *)
LEMMA OwnBuiltDone ==
    ASSUME NEW b \in SUBSET Configurable, NEW a, NEW cu \in Seq(Services), NEW t,
           Going(t, b, a, cu), NEW own, OwnBuilt(own, t, b, a, cu),
           Head(t).op \notin {"append", "add_rule", "flush_chain"},
           Head(t).op = "ensure_chain" => own # NoChain
    PROVE  OwnBuilt(own, Tail(t), b, a, cu)
<1>1. /\ ToSet(t) = {Head(t)} \cup ToSet(Tail(t))
      /\ \A c \in ToSet(t) : Phase(Head(t)) <= Phase(c)
      /\ \A c \in ToSet(t) : Phase(c) \in 1..12
      /\ Tail(t) # <<>> => Head(Tail(t)) \in ToSet(t)
  <2>1. Tail(t) # <<>> => Head(Tail(t)) \in ToSet(Tail(t))
    BY GoingTail, TailLines
  <2>2. /\ ToSet(t) = {Head(t)} \cup ToSet(Tail(t))
        /\ \A c \in ToSet(t) : Phase(Head(t)) <= Phase(c)
        /\ \A c \in ToSet(t) : c \in StartCommands(b, a, cu)
    BY GoingTail
  <2>3. \A c \in StartCommands(b, a, cu) : Phase(c) \in 1..12
    BY PhaseTyped
  <2> HIDE DEF Phase
  <2> QED
    BY <2>1, <2>2, <2>3
<1>2. Tail(t) # <<>> /\ Phase(Head(Tail(t))) <= 8 => t # <<>> /\ Phase(Head(t)) <= 8
  <2>1. Phase(Head(t)) \in 1..12 /\ t # <<>>
    BY <1>1 DEF Going
  <2>2. ASSUME Tail(t) # <<>> PROVE Phase(Head(t)) <= Phase(Head(Tail(t))) /\ Phase(Head(Tail(t))) \in 1..12
    BY <1>1, <2>2
  <2> DEFINE x == Phase(Head(t))
             y == Phase(Head(Tail(t)))
  <2>3. x \in 1..12 /\ t # <<>> /\ (Tail(t) # <<>> => x <= y /\ y \in 1..12)
    BY <2>1, <2>2
  <2> HIDE DEF x, y
  <2>4. Tail(t) # <<>> /\ y <= 8 => x <= 8
    BY <2>3
  <2> QED
    BY <2>3, <2>4 DEF x, y
<1>3. EnsureChain \in ToSet(Tail(t)) \/ own # NoChain
  BY <1>1, OwnCommandsDiffer DEF OwnBuilt
<1>4. \/ FlushChain \in ToSet(Tail(t))
      \/ /\ ToSet(own) \subseteq Managed(b, a) \cup CustomRules(cu)
         /\ Tail(t) # <<>> /\ Phase(Head(Tail(t))) <= 8 => ToSet(own) \subseteq NotDrop
  BY <1>1, <1>2, OwnCommandsDiffer DEF OwnBuilt
<1>5. \A r \in ManagedAccepts(b, a) : AppendOwn(r) \in ToSet(Tail(t)) \/ Above(own, r, NotDrop)
  BY <1>1, OwnCommandsDiffer DEF OwnBuilt
<1>6. AppendOwn(DropRule) \in ToSet(Tail(t)) \/ DropRule \in ToSet(own)
  BY <1>1, OwnCommandsDiffer DEF OwnBuilt
<1>7. \A r \in CustomRules(cu) : InsertBeforeDrop(r) \in ToSet(Tail(t)) \/ Above(own, r, NotDrop)
  BY <1>1, OwnCommandsDiffer DEF OwnBuilt
<1> QED
  BY <1>3, <1>4, <1>5, <1>6, <1>7 DEF OwnBuilt

(* Creating the chain or emptying it: all its rules have yet to be added.  *)
LEMMA OwnBuiltEmpty ==
    ASSUME NEW b \in SUBSET Configurable, NEW a, NEW cu \in Seq(Services), NEW t,
           Going(t, b, a, cu), Head(t) \in {EnsureChain, FlushChain}
    PROVE  OwnBuilt(<<>>, Tail(t), b, a, cu)
<1>1. ToSet(t) = {Head(t)} \cup ToSet(Tail(t))
  BY GoingTail
<1>2. Phase(Head(t)) \in {6, 7}
  BY PhaseValues
<1>3. \A c \in StartCommands(b, a, cu) :
          Phase(c) \in {8, 9, 12} /\ c # Head(t) => c \in ToSet(Tail(t))
  BY <1>1, <1>2, LaterIsPending
<1>4. \A r \in ManagedAccepts(b, a) : AppendOwn(r) \in ToSet(Tail(t))
  BY <1>3, OwnCommands, OwnCommandsDiffer
<1>5. AppendOwn(DropRule) \in ToSet(Tail(t))
  BY <1>3, OwnCommands, OwnCommandsDiffer
<1>6. \A r \in CustomRules(cu) : InsertBeforeDrop(r) \in ToSet(Tail(t))
  BY <1>3, OwnCommands, OwnCommandsDiffer
<1> QED
  BY <1>4, <1>5, <1>6, EmptyOwn DEF OwnBuilt

(* What "-A" of a rule of the managed chain does.                          *)
LEMMA OwnBuiltAppend ==
    ASSUME NEW b \in SUBSET Configurable, NEW a, NEW cu \in Seq(Services), NEW t,
           Going(t, b, a, cu), NEW own \in Seq(Rules), OwnBuilt(own, t, b, a, cu),
           NEW x \in Managed(b, a), Head(t) = AppendOwn(x)
    PROVE  OwnBuilt(Append(own, x), Tail(t), b, a, cu)
<1> DEFINE w == Append(own, x)
<1>1. /\ ToSet(t) = {Head(t)} \cup ToSet(Tail(t))
      /\ \A c \in ToSet(t) : Phase(Head(t)) <= Phase(c)
  BY GoingTail
<1>2. /\ x \in Rules
      /\ x \in ManagedAccepts(b, a) => x.verdict = "ACCEPT" /\ Phase(Head(t)) = 8
      /\ x = DropRule => x.verdict = "DROP" /\ Phase(Head(t)) = 9
      /\ x \in ManagedAccepts(b, a) \/ x = DropRule
  <2>1. x \in ManagedAccepts(b, a) \/ x = DropRule
    BY DEF Managed
  <2>2. /\ \A r \in ManagedAccepts(b, a) : r \in Rules /\ r.verdict = "ACCEPT"
        /\ DropRule \in Rules /\ DropRule.verdict = "DROP"
    BY RuleSets, RuleFields DEF AcceptRules
  <2>3. /\ \A r \in ManagedAccepts(b, a) : Phase(AppendOwn(r)) = 8
        /\ Phase(AppendOwn(DropRule)) = 9
    BY OwnCommands
  <2> QED
    BY <2>1, <2>2, <2>3
<1>3. FlushChain \notin ToSet(t)
  <2>1. Phase(FlushChain) = 7
    BY OwnCommands
  <2>2. Phase(Head(t)) = 8 \/ Phase(Head(t)) = 9
    BY <1>2
  <2>3. ~(Phase(Head(t)) <= Phase(FlushChain))
    BY <2>1, <2>2
  <2> QED
    BY <1>1, <2>3
<1>4. ToSet(w) = ToSet(own) \cup {x}
  BY <1>2, ToSetAppend
<1>5. \A r, G : Above(own, r, G) => Above(w, r, G)
  BY <1>2, AboveAppend
<1>6. w \in Seq(Rules) /\ w # NoChain
  <2>1. w \in Seq(Rules)
    BY <1>2
  <2> HIDE DEF w
  <2> QED
    BY <2>1, FirewallAssumption
<1>7. x \in ManagedAccepts(b, a) => Above(w, x, NotDrop)
  <2> SUFFICES ASSUME x \in ManagedAccepts(b, a) PROVE Above(w, x, NotDrop)
    OBVIOUS
  <2>1. ToSet(own) \subseteq NotDrop
    BY <1>2, <1>3 DEF OwnBuilt, Going
  <2>2. ToSet(w) \subseteq NotDrop \cup {x} /\ x \in ToSet(w)
    BY <1>4, <2>1
  <2> HIDE DEF w
  <2> QED
    BY <1>6, <2>2, AboveFirst
<1> HIDE DEF w
<1>8. ToSet(w) \subseteq Managed(b, a) \cup CustomRules(cu)
  BY <1>3, <1>4 DEF OwnBuilt
<1>9. Tail(t) # <<>> /\ Phase(Head(Tail(t))) <= 8 => ToSet(w) \subseteq NotDrop
  <2> SUFFICES ASSUME Tail(t) # <<>>, Phase(Head(Tail(t))) <= 8 PROVE ToSet(w) \subseteq NotDrop
    OBVIOUS
  <2>1. Head(Tail(t)) \in ToSet(t)
    <3>1. Head(Tail(t)) \in ToSet(Tail(t))
      BY GoingTail, TailLines
    <3> QED
      BY <1>1, <3>1
  <2>2. Phase(Head(t)) <= Phase(Head(Tail(t))) /\ Phase(Head(Tail(t))) \in 1..12
    BY <1>1, <2>1, GoingTail, PhaseTyped
  <2>3. x \in ManagedAccepts(b, a)
    BY <1>2, <2>2
  <2>4. ToSet(own) \subseteq NotDrop
    BY <1>2, <1>3, <2>3 DEF OwnBuilt, Going
  <2> QED
    BY <1>2, <1>4, <2>3, <2>4 DEF NotDrop
<1>10. \A r \in ManagedAccepts(b, a) : AppendOwn(r) \in ToSet(Tail(t)) \/ Above(w, r, NotDrop)
  <2> TAKE r \in ManagedAccepts(b, a)
  <2>1. AppendOwn(r) = AppendOwn(x) => r = x
    BY OwnCommandsDiffer
  <2> QED
    BY <1>1, <1>5, <1>7, <2>1 DEF OwnBuilt
<1>11. AppendOwn(DropRule) \in ToSet(Tail(t)) \/ DropRule \in ToSet(w)
  <2>1. AppendOwn(DropRule) = AppendOwn(x) => DropRule = x
    BY OwnCommandsDiffer
  <2> QED
    BY <1>1, <1>4, <2>1 DEF OwnBuilt
<1>12. \A r \in CustomRules(cu) : InsertBeforeDrop(r) \in ToSet(Tail(t)) \/ Above(w, r, NotDrop)
  BY <1>1, <1>5, OwnCommandsDiffer DEF OwnBuilt
<1> QED
  BY <1>6, <1>8, <1>9, <1>10, <1>11, <1>12 DEF OwnBuilt, w

(* add_rule puts a rule at a line with no DROP rule above it.              *)
LEMMA AddRuleLine ==
    ASSUME NEW own \in Seq(Rules), NEW x \in Rules
    PROVE  LET line == FindDropLineNumber(own)
               w == IF line # 0 THEN InsertRule(own, line, x) ELSE AppendRule(own, x)
           IN  \E k \in 1..(Len(own) + 1) :
                   w = InsertAt(own, k, x) /\ \A j \in 1..(k - 1) : own[j] \in NotDrop
<1> DEFINE line == FindDropLineNumber(own)
           w == IF line # 0 THEN InsertRule(own, line, x) ELSE AppendRule(own, x)
<1>1. /\ Len(own) \in Nat /\ \A i \in 1..Len(own) : own[i] \in Rules
  OBVIOUS
<1>2. CASE line = 0 /\ \A i \in 1..Len(own) : own[i].verdict # "DROP"
  <2>1. w = InsertAt(own, Len(own) + 1, x)
    BY <1>2, AppendIsInsertAt DEF AppendRule
  <2>2. \A j \in 1..((Len(own) + 1) - 1) : own[j] \in NotDrop
    BY <1>1, <1>2 DEF NotDrop
  <2>3. Len(own) + 1 \in 1..(Len(own) + 1)
    BY <1>1
  <2> QED
    BY <2>1, <2>2, <2>3
<1>3. CASE line \in 1..Len(own) /\ \A j \in 1..(line - 1) : own[j].verdict # "DROP"
  <2>1. w = InsertAt(own, line, x)
    BY <1>1, <1>3 DEF InsertRule
  <2>2. \A j \in 1..(line - 1) : own[j] \in NotDrop
    BY <1>1, <1>3 DEF NotDrop
  <2>3. line \in 1..(Len(own) + 1)
    BY <1>1, <1>3
  <2> QED
    BY <2>1, <2>2, <2>3
<1> QED
  BY <1>2, <1>3, DropLine

LEMMA OwnBuiltAdd ==
    ASSUME NEW b \in SUBSET Configurable, NEW a, NEW cu \in Seq(Services), NEW t,
           Going(t, b, a, cu), NEW own \in Seq(Rules), OwnBuilt(own, t, b, a, cu),
           NEW x \in CustomRules(cu), Head(t) = InsertBeforeDrop(x),
           NEW k \in 1..(Len(own) + 1), \A j \in 1..(k - 1) : own[j] \in NotDrop
    PROVE  OwnBuilt(InsertAt(own, k, x), Tail(t), b, a, cu)
<1> DEFINE w == InsertAt(own, k, x)
<1>1. /\ ToSet(t) = {Head(t)} \cup ToSet(Tail(t))
      /\ \A c \in ToSet(t) : Phase(Head(t)) <= Phase(c)
  BY GoingTail
<1>2. x \in Rules /\ x.verdict = "ACCEPT" /\ x \in NotDrop
  BY RuleSets DEF NotDrop
<1>3. Phase(Head(t)) = 12 /\ Phase(FlushChain) = 7
  BY OwnCommands
<1>4. FlushChain \notin ToSet(t)
  <2>1. ~(Phase(Head(t)) <= Phase(FlushChain))
    BY <1>3
  <2> QED
    BY <1>1, <2>1
<1>5. ToSet(w) = ToSet(own) \cup {x}
  BY <1>2, ToSetInsertAt
<1>6. \A r : Above(own, r, NotDrop) => Above(w, r, NotDrop)
  BY <1>2, AboveInsertAt
<1>7. Above(w, x, NotDrop)
  BY <1>2, AboveInserted
<1>8. w \in Seq(Rules) /\ w # NoChain
  <2>1. w \in Seq(Rules)
    BY <1>2, InsertAtLines
  <2> HIDE DEF w
  <2> QED
    BY <2>1, FirewallAssumption
<1> HIDE DEF w
<1>9. ToSet(w) \subseteq Managed(b, a) \cup CustomRules(cu)
  BY <1>4, <1>5 DEF OwnBuilt
<1>10. Tail(t) # <<>> /\ Phase(Head(Tail(t))) <= 8 => ToSet(w) \subseteq NotDrop
  <2> SUFFICES ASSUME Tail(t) # <<>> PROVE ~(Phase(Head(Tail(t))) <= 8)
    OBVIOUS
  <2>1. Head(Tail(t)) \in ToSet(t)
    <3>1. Head(Tail(t)) \in ToSet(Tail(t))
      BY GoingTail, TailLines
    <3> QED
      BY <1>1, <3>1
  <2>2. Phase(Head(t)) <= Phase(Head(Tail(t))) /\ Phase(Head(Tail(t))) \in 1..12
    BY <1>1, <2>1, GoingTail, PhaseTyped
  <2> QED
    BY <1>3, <2>2
<1>11. \A r \in ManagedAccepts(b, a) : AppendOwn(r) \in ToSet(Tail(t)) \/ Above(w, r, NotDrop)
  BY <1>1, <1>6, OwnCommandsDiffer DEF OwnBuilt
<1>12. AppendOwn(DropRule) \in ToSet(Tail(t)) \/ DropRule \in ToSet(w)
  BY <1>1, <1>5, OwnCommandsDiffer DEF OwnBuilt
<1>13. \A r \in CustomRules(cu) : InsertBeforeDrop(r) \in ToSet(Tail(t)) \/ Above(w, r, NotDrop)
  <2> TAKE r \in CustomRules(cu)
  <2>1. InsertBeforeDrop(r) = InsertBeforeDrop(x) => r = x
    BY OwnCommandsDiffer
  <2> QED
    BY <1>1, <1>6, <1>7, <2>1 DEF OwnBuilt
<1> QED
  BY <1>8, <1>9, <1>10, <1>11, <1>12, <1>13 DEF OwnBuilt, w

(* Deleting the custom rules of an earlier configuration.                  *)
LEMMA OwnBuiltDelete ==
    ASSUME NEW b \in SUBSET Configurable, NEW a, NEW cu \in Seq(Services), NEW t,
           Going(t, b, a, cu), NEW own \in Seq(Rules), OwnBuilt(own, t, b, a, cu),
           Head(t) = RemoveByComment("own", "mitmwall-custom"),
           NEW i \in 1..Len(own), own[i].tag = "mitmwall-custom"
    PROVE  OwnBuilt(RemoveAt(own, i), t, b, a, cu)
<1> DEFINE w == RemoveAt(own, i)
<1>1. Phase(Head(t)) = 11
  BY PhaseValues
<1>2. \A r \in CustomRules(cu) : InsertBeforeDrop(r) \in ToSet(t)
  <2> TAKE r \in CustomRules(cu)
  <2>1. InsertBeforeDrop(r) \in StartCommands(b, a, cu) /\ Phase(InsertBeforeDrop(r)) = 12
    BY OwnCommands
  <2>2. ~(Phase(InsertBeforeDrop(r)) <= Phase(Head(t)))
    BY <1>1, <2>1
  <2> QED
    BY <2>1, <2>2, LaterIsPending
<1>3. /\ \A r \in ManagedAccepts(b, a) : r # own[i]
      /\ DropRule # own[i]
  BY RuleSets, RuleFields
<1>4. ToSet(w) \subseteq ToSet(own) /\ \A e \in ToSet(own) : e # own[i] => e \in ToSet(w)
  BY ToSetRemoveAt
<1>5. \A r, G : own[i] # r /\ Above(own, r, G) => Above(w, r, G)
  BY AboveRemoveAt
<1>6. w \in Seq(Rules) /\ w # NoChain
  <2>1. w \in Seq(Rules)
    BY RemoveAtLines
  <2> HIDE DEF w
  <2> QED
    BY <2>1, FirewallAssumption
<1> HIDE DEF w
<1>7. \/ FlushChain \in ToSet(t)
      \/ /\ ToSet(w) \subseteq Managed(b, a) \cup CustomRules(cu)
         /\ t # <<>> /\ Phase(Head(t)) <= 8 => ToSet(w) \subseteq NotDrop
  BY <1>4 DEF OwnBuilt
<1>8. \A r \in ManagedAccepts(b, a) : AppendOwn(r) \in ToSet(t) \/ Above(w, r, NotDrop)
  BY <1>3, <1>5 DEF OwnBuilt
<1>9. AppendOwn(DropRule) \in ToSet(t) \/ DropRule \in ToSet(w)
  BY <1>3, <1>4 DEF OwnBuilt
<1> QED
  BY <1>2, <1>6, <1>7, <1>8, <1>9 DEF OwnBuilt, w

-----------------------------------------------------------------------------
(* No rule of the managed chain twice                                      *)

LEMMA DistinctIsOnce ==
    ASSUME NEW S, NEW s \in Seq(S)
    PROVE  Distinct(s) <=> \A r \in S : Once(s, r)
<1>1. \A i \in 1..Len(s) : s[i] \in S
  OBVIOUS
<1> QED
  BY <1>1 DEF Distinct, Once

(* A command that adds a rule is the only one that adds it.                *)
LEMMA OnceEachTail ==
    ASSUME NEW S, NEW t \in Seq(S), t # <<>>, OnceEach(t)
    PROVE  /\ OnceEach(Tail(t))
           /\ Head(t).op \in Appends => Head(t) \notin ToSet(Tail(t))
<1> DEFINE u == Tail(t)
<1>1. /\ u \in Seq(S) /\ Len(u) = Len(t) - 1 /\ Len(t) \in Nat /\ Len(t) >= 1
      /\ \A i \in 1..(Len(t) - 1) : u[i] = t[i + 1]
      /\ Head(t) = t[1]
  BY TailLines
<1> HIDE DEF u
<1>2. \A i \in 1..Len(u) : u[i] = t[i + 1] /\ i + 1 \in 1..Len(t) /\ i + 1 # 1
  BY <1>1
<1>3. OnceEach(u)
  <2> SUFFICES ASSUME NEW i \in 1..Len(u), NEW j \in 1..Len(u), u[i] = u[j],
                      u[i].op \in {"append", "add_rule"}
               PROVE  i = j
    BY DEF OnceEach
  <2>1. i + 1 = j + 1
    BY <1>2 DEF OnceEach
  <2> QED
    BY <1>1, <2>1
<1>4. ASSUME Head(t).op \in Appends, Head(t) \in ToSet(u) PROVE FALSE
  <2>1. PICK i \in 1..Len(u) : Head(t) = u[i]
    BY <1>1, <1>4, ToSetMember
  <2>2. t[1] = t[i + 1] /\ t[1].op \in {"append", "add_rule"} /\ 1 \in 1..Len(t)
    BY <1>1, <1>2, <1>4, <2>1 DEF Appends
  <2> QED
    BY <1>2, <2>2 DEF OnceEach
<1> QED
  BY <1>3, <1>4 DEF u

LEMMA OwnOnceDone ==
    ASSUME NEW b \in SUBSET Configurable, NEW a, NEW cu \in Seq(Services), NEW t,
           Going(t, b, a, cu), NEW own, OwnOnce(own, t), Head(t).op # "flush_chain"
    PROVE  OwnOnce(own, Tail(t))
<1>1. ToSet(t) = {Head(t)} \cup ToSet(Tail(t))
  BY GoingTail
<1>2. OnceEach(Tail(t))
  BY OnceEachTail DEF Going, OwnOnce
<1> QED
  BY <1>1, <1>2, OwnCommandsDiffer DEF OwnOnce

LEMMA OwnOnceEmpty ==
    ASSUME NEW b \in SUBSET Configurable, NEW a, NEW cu \in Seq(Services), NEW t,
           Going(t, b, a, cu), NEW own, OwnOnce(own, t)
    PROVE  OwnOnce(<<>>, Tail(t))
<1>1. OnceEach(Tail(t))
  BY OnceEachTail DEF Going, OwnOnce
<1> QED
  BY <1>1, EmptyOwn DEF OwnOnce

(* Adding a rule, wherever it goes.                                        *)
LEMMA OwnOnceAdd ==
    ASSUME NEW b \in SUBSET Configurable, NEW a, NEW cu \in Seq(Services), NEW t,
           Going(t, b, a, cu), NEW own \in Seq(Rules), OwnOnce(own, t), NEW x,
           \/ Head(t) = AppendOwn(x) /\ x \in Managed(b, a)
           \/ Head(t) = InsertBeforeDrop(x) /\ x \in CustomRules(cu),
           NEW k \in 1..(Len(own) + 1)
    PROVE  OwnOnce(InsertAt(own, k, x), Tail(t))
<1> DEFINE w == InsertAt(own, k, x)
<1>1. /\ ToSet(t) = {Head(t)} \cup ToSet(Tail(t))
      /\ \A c \in ToSet(t) : Phase(Head(t)) <= Phase(c)
      /\ \A c \in ToSet(t) : c \in StartCommands(b, a, cu)
  BY GoingTail
<1>2. /\ \A r \in Managed(b, a) : r \in Rules /\ r.tag = "none"
      /\ \A r \in CustomRules(cu) : r \in Rules /\ r.tag = "mitmwall-custom"
  BY RuleSets, RuleFields DEF Managed, AcceptRules
<1>3. x \in Rules
  BY <1>2
<1>4. Phase(Head(t)) \in {8, 9, 12} /\ Phase(FlushChain) = 7
  <2>1. CASE Head(t) = AppendOwn(x) /\ x \in Managed(b, a)
    BY <2>1, OwnCommands DEF Managed
  <2>2. CASE Head(t) = InsertBeforeDrop(x) /\ x \in CustomRules(cu)
    BY <2>2, OwnCommands
  <2> QED
    BY <2>1, <2>2
<1>5. FlushChain \notin ToSet(t)
  <2>1. ~(Phase(Head(t)) <= Phase(FlushChain))
    BY <1>4
  <2> QED
    BY <1>1, <2>1
<1>6. /\ Distinct(own)
      /\ \A r \in Rules : AppendOwn(r) \in ToSet(t) \/ InsertBeforeDrop(r) \in ToSet(t)
                          => r \notin ToSet(own)
  BY <1>5 DEF OwnOnce
<1>7. x \notin ToSet(own)
  BY <1>1, <1>3, <1>6
<1>8. w \in Seq(Rules) /\ ToSet(w) = ToSet(own) \cup {x}
  BY <1>3, InsertAtLines, ToSetInsertAt
<1>9. Distinct(w)
  <2>1. \A r \in Rules : Once(own, r)
    BY <1>6, DistinctIsOnce
  <2>2. \A r \in Rules : Once(w, r)
    BY <1>3, <1>7, <2>1, OnceInsertAt
  <2> HIDE DEF w
  <2> QED
    BY <1>8, <2>2, DistinctIsOnce
<1> HIDE DEF w
<1>10. OnceEach(Tail(t)) /\ Head(t) \notin ToSet(Tail(t))
  <2>1. Head(t).op \in Appends
    BY OwnCommandsDiffer DEF Appends
  <2> QED
    BY <2>1, OnceEachTail DEF Going, OwnOnce
<1>11. ASSUME NEW r \in Rules, AppendOwn(r) \in ToSet(Tail(t)) \/ InsertBeforeDrop(r) \in ToSet(Tail(t))
       PROVE  r \notin ToSet(w)
  <2>1. r \notin ToSet(own)
    BY <1>1, <1>6, <1>11
  <2>2. r # x
    <3> SUFFICES ASSUME r = x PROVE FALSE
      OBVIOUS
    <3>1. AppendOwn(x) \in ToSet(t) => x \in Managed(b, a)
      <4>1. AppendOwn(x) \in ToSet(t) => AppendOwn(x).rule \in Managed(b, a)
        BY <1>1, OwnCommandsDiffer, StartCommandKinds
      <4> QED
        BY <4>1, OwnCommandsDiffer
    <3>2. InsertBeforeDrop(x) \in ToSet(t) => x \in CustomRules(cu)
      <4>1. InsertBeforeDrop(x) \in ToSet(t) => InsertBeforeDrop(x).rule \in CustomRules(cu)
        BY <1>1, OwnCommandsDiffer, StartCommandKinds
      <4> QED
        BY <4>1, OwnCommandsDiffer
    <3>3. ~(x \in Managed(b, a) /\ x \in CustomRules(cu))
      BY <1>2
    <3> QED
      BY <1>1, <1>10, <1>11, <3>1, <3>2, <3>3
  <2> QED
    BY <1>8, <2>1, <2>2
<1> QED
  BY <1>9, <1>10, <1>11 DEF OwnOnce, w

LEMMA OwnOnceDelete ==
    ASSUME NEW own \in Seq(Rules), NEW t, OwnOnce(own, t), NEW i \in 1..Len(own)
    PROVE  OwnOnce(RemoveAt(own, i), t)
<1> DEFINE w == RemoveAt(own, i)
<1>1. w \in Seq(Rules) /\ ToSet(w) \subseteq ToSet(own)
  BY RemoveAtLines, ToSetRemoveAt
<1>2. Distinct(own) => Distinct(w)
  <2> SUFFICES ASSUME Distinct(own) PROVE Distinct(w)
    OBVIOUS
  <2>1. \A r \in Rules : Once(own, r)
    BY DistinctIsOnce
  <2>2. \A r \in Rules : Once(w, r)
    BY <2>1, OnceRemoveAt
  <2> HIDE DEF w
  <2> QED
    BY <1>1, <2>2, DistinctIsOnce
<1> HIDE DEF w
<1> QED
  BY <1>1, <1>2 DEF OwnOnce, w

-----------------------------------------------------------------------------
(* What the chains may ever hold                                           *)

(* No rule of the managed chain accepts a probe.                           *)
LEMMA ManagedHarmless ==
    ASSUME NEW b \in SUBSET Configurable, NEW a, NEW cu \in Seq(Services)
    PROVE  \A r \in Managed(b, a) \cup CustomRules(cu) : Harmless(r)
<1>1. /\ \A p \in Probes : /\ p.user \in Ordinary /\ p.service \in {"https", "dns-udp", "other"}
                           /\ p.place = "remote" /\ p.conn \in {"new", "original"}
      /\ Ordinary \cap ({Proxy, Resolver} \cup NtpUsers \cup Configurable) = {}
  BY FirewallAssumption DEF Probes
<1>2. \A tag, us, ss, ps, v, p :
          Matching(Rule(tag, us, ss, ps, v), p) => p.user \in us /\ p.service \in ss /\ p.place \in ps
  BY DEF Matching, Rule
<1>3. ASSUME NEW r \in CustomRules(cu) PROVE Harmless(r)
  <2>1. PICK s \in ToSet(cu) : r = CustomRule(s)
    BY DEF CustomRules
  <2>2. \A p \in Probes : ~Matching(r, p)
    BY <1>1, <1>2, <2>1 DEF CustomRule
  <2> QED
    BY <2>1, <2>2, RuleFields DEF Harmless
<1>4. ASSUME NEW r \in ManagedAccepts(b, a) PROVE Harmless(r)
  <2>0. r.verdict = "ACCEPT"
    BY RuleSets DEF AcceptRules
  <2> SUFFICES ASSUME NEW p \in Probes PROVE ~Matching(r, p)
    BY <2>0 DEF Harmless
  <2>1. CASE r = ReplyRule
    BY <1>1, <2>1 DEF ReplyRule, Rule, Matching
  <2>2. CASE \E u \in {Proxy, Resolver} \cup b : r = OwnerRule(u)
    BY <1>1, <1>2, <2>2 DEF OwnerRule
  <2>3. CASE r = LoopbackRule
    BY <1>1, <1>2, <2>3 DEF LoopbackRule
  <2>4. CASE r \in NtpFilterRules(a)
    <3>1. PICK u \in NtpUsers \cap a, s \in {"ntp", "dns-udp", "dns-tcp"} :
              r = Rule("none", {u}, {s}, Places, "ACCEPT")
      BY <2>4, NtpFilterMembers
    <3> QED
      BY <1>1, <1>2, <3>1
  <2>5. CASE r \in ListenerRules
    <3>1. PICK s \in {"proxy", "dnsproxy-udp", "dnsproxy-tcp", "webui"} :
              r = ServiceRule(s, {"loopback", "local"})
      BY <2>5 DEF ListenerRules
    <3> QED
      BY <1>1, <1>2, <3>1 DEF ServiceRule
  <2>6. CASE r = ServiceRule("icmp6", Places)
    BY <1>1, <1>2, <2>6 DEF ServiceRule
  <2> QED
    BY <2>1, <2>2, <2>3, <2>4, <2>5, <2>6 DEF ManagedAccepts
<1> QED
  BY <1>3, <1>4 DEF Managed, Harmless

LEMMA NatKeptDelete ==
    ASSUME NEW nat \in Seq(Rules), NatKept(nat), NEW i \in 1..Len(nat)
    PROVE  NatKept(RemoveAt(nat, i))
<1>1. ToSet(RemoveAt(nat, i)) \subseteq ToSet(nat)
  BY ToSetRemoveAt
<1>2. \A r : Once(nat, r) => Once(RemoveAt(nat, i), r)
  BY OnceRemoveAt
<1> QED
  BY <1>1, <1>2 DEF NatKept

LEMMA NatKeptInsert ==
    ASSUME NEW nat \in Seq(Rules), NatKept(nat), NEW x \in Rules, NatKind(x),
           x.tag = "admin" \/ x \notin ToSet(nat)
    PROVE  NatKept(InsertAt(nat, 1, x))
<1> DEFINE n == InsertAt(nat, 1, x)
<1>1. 1 \in 1..(Len(nat) + 1)
  OBVIOUS
<1>2. ToSet(n) = ToSet(nat) \cup {x}
  BY <1>1, ToSetInsertAt
<1>3. \A r : Once(nat, r) /\ (r = x => x \notin ToSet(nat)) => Once(n, r)
  BY <1>1, OnceInsertAt
<1> HIDE DEF n
<1> QED
  BY <1>2, <1>3 DEF NatKept, n

(* The rules of a start are kinds of the nat chain.                        *)
LEMMA NatRulesKind ==
    ASSUME NEW b \in SUBSET Configurable, NEW a, NEW cu \in Seq(Services), NEW x \in NatRules(b, a, cu)
    PROVE  x \in Rules /\ NatKind(x)
<1>1. CASE x \in Redirects(b) \/ x \in CustomRules(cu)
  BY <1>1, RuleSets DEF NatKind
<1>2. CASE x \in NtpBypasses(a)
  <2>1. x \in Rules
    BY <1>2, RuleSets
  <2>2. x \in NtpBypasses(NtpUsers)
    BY <1>2 DEF NtpBypasses
  <2> QED
    BY <2>1, <2>2 DEF NatKind
<1> QED
  BY <1>1, <1>2 DEF NatRules

LEMMA OutKeptDelete ==
    ASSUME NEW out \in Seq(Rules), OutKept(out), NEW i \in 1..Len(out)
    PROVE  OutKept(RemoveAt(out, i))
<1>1. ToSet(RemoveAt(out, i)) \subseteq ToSet(out)
  BY ToSetRemoveAt
<1>2. \A r : Once(out, r) => Once(RemoveAt(out, i), r)
  BY OnceRemoveAt
<1> QED
  BY <1>1, <1>2 DEF OutKept

LEMMA OutKeptInsert ==
    ASSUME NEW out \in Seq(Rules), OutKept(out),
           NEW x, x = AdminRule("ACCEPT") \/ (x = JumpRule /\ JumpRule \notin ToSet(out))
    PROVE  OutKept(InsertAt(out, 1, x))
<1> DEFINE n == InsertAt(out, 1, x)
<1>1. 1 \in 1..(Len(out) + 1) /\ x \in Rules /\ AdminRule("ACCEPT") # JumpRule
  BY RulesTyped, RuleFields
<1>2. ToSet(n) = ToSet(out) \cup {x}
  BY <1>1, ToSetInsertAt
<1>3. \A r : Once(out, r) /\ (r = x => x \notin ToSet(out)) => Once(n, r)
  BY <1>1, OnceInsertAt
<1> HIDE DEF n
<1> QED
  BY <1>1, <1>2, <1>3 DEF OutKept, n

(* The chain after a command of a start, or the deletion of a rule.        *)
LEMMA OwnKeptAdd ==
    ASSUME NEW own \in Seq(Rules), OwnKept(own), NEW x \in Rules, Harmless(x),
           NEW k \in 1..(Len(own) + 1)
    PROVE  OwnKept(InsertAt(own, k, x))
<1>1. own # NoChain
  BY FirewallAssumption
<1>2. ToSet(InsertAt(own, k, x)) = ToSet(own) \cup {x}
  BY ToSetInsertAt
<1> QED
  BY <1>1, <1>2 DEF OwnKept

LEMMA OwnKeptDelete ==
    ASSUME NEW own \in Seq(Rules), OwnKept(own), NEW i \in 1..Len(own)
    PROVE  OwnKept(RemoveAt(own, i))
<1>1. own # NoChain
  BY FirewallAssumption
<1>2. ToSet(RemoveAt(own, i)) \subseteq ToSet(own)
  BY ToSetRemoveAt
<1> QED
  BY <1>1, <1>2 DEF OwnKept

LEMMA OwnKeptEmpty == OwnKept(<<>>)
  BY EmptyOwn DEF OwnKept

-----------------------------------------------------------------------------
(* Steps of a stop                                                         *)

LEMMA NatClearedDone ==
    ASSUME NEW a, NEW t \in Seq(StopCommands(a)), t # <<>>, NEW nat, NatCleared(nat, ToSet(t), a),
           Head(t).op = "remove_all" /\ Head(t).chain = "nat" => Head(t).rule \notin ToSet(nat),
           Head(t).op = "remove_by_comment" /\ Head(t).chain = "nat" =>
               \A r \in ToSet(nat) : r.tag # Head(t).tag
    PROVE  NatCleared(nat, ToSet(Tail(t)), a)
<1>1. ToSet(t) = {Head(t)} \cup ToSet(Tail(t))
  BY TailLines
<1>2. /\ \A r : /\ RemoveAll("nat", r).op = "remove_all" /\ RemoveAll("nat", r).chain = "nat"
                /\ RemoveAll("nat", r).rule = r
      /\ \A g : /\ RemoveByComment("nat", g).op = "remove_by_comment"
                /\ RemoveByComment("nat", g).chain = "nat" /\ RemoveByComment("nat", g).tag = g
  BY DEF RemoveAll, RemoveByComment
<1> QED
  BY <1>1, <1>2 DEF NatCleared

LEMMA NatClearedDelete ==
    ASSUME NEW nat \in Seq(Rules), NEW rest, NEW a, NatCleared(nat, rest, a), NEW i \in 1..Len(nat)
    PROVE  NatCleared(RemoveAt(nat, i), rest, a)
<1>1. ToSet(RemoveAt(nat, i)) \subseteq ToSet(nat)
  BY ToSetRemoveAt
<1> QED
  BY <1>1 DEF NatCleared

LEMMA OutClearedDone ==
    ASSUME NEW a, NEW t \in Seq(StopCommands(a)), t # <<>>, NEW out, OutCleared(out, ToSet(t)),
           Head(t).op = "remove_all" /\ Head(t).chain = "out" => Head(t).rule \notin ToSet(out)
    PROVE  OutCleared(out, ToSet(Tail(t)))
<1>1. ToSet(t) = {Head(t)} \cup ToSet(Tail(t))
  BY TailLines
<1>2. /\ RemoveAll("out", JumpRule).op = "remove_all" /\ RemoveAll("out", JumpRule).chain = "out"
      /\ RemoveAll("out", JumpRule).rule = JumpRule
  BY DEF RemoveAll
<1> QED
  BY <1>1, <1>2 DEF OutCleared

LEMMA OutClearedDelete ==
    ASSUME NEW out \in Seq(Rules), NEW rest, OutCleared(out, rest), NEW i \in 1..Len(out)
    PROVE  OutCleared(RemoveAt(out, i), rest)
<1>1. ToSet(RemoveAt(out, i)) \subseteq ToSet(out)
  BY ToSetRemoveAt
<1> QED
  BY <1>1 DEF OutCleared

LEMMA OwnClearedDone ==
    ASSUME NEW a, NEW t \in Seq(StopCommands(a)), t # <<>>, NEW own, OwnCleared(own, ToSet(t)),
           Head(t).op # "flush_chain"
    PROVE  OwnCleared(own, ToSet(Tail(t)))
<1>1. ToSet(t) = {Head(t)} \cup ToSet(Tail(t))
  BY TailLines
<1> QED
  BY <1>1, OwnCommandsDiffer DEF OwnCleared

-----------------------------------------------------------------------------
(* The administrator's rules                                               *)

LEMMA AdminRulesConcat ==
    ASSUME NEW s \in Seq(Rules), NEW t \in Seq(Rules)
    PROVE  AdminRules(s \o t) = AdminRules(s) \o AdminRules(t)
<1> DEFINE P(x) == IF x.tag = "admin" THEN <<x>> ELSE <<>>
           u == s \o t
           fs == [i \in DOMAIN s |-> P(s[i])]
           ft == [i \in DOMAIN t |-> P(t[i])]
           fu == [i \in DOMAIN u |-> P(u[i])]
           fc == fs \o ft
<1>1. /\ u \in Seq(Rules) /\ Len(u) = Len(s) + Len(t)
      /\ \A i \in 1..Len(s) : u[i] = s[i]
      /\ \A i \in 1..Len(t) : u[i + Len(s)] = t[i]
      /\ Len(s) \in Nat /\ Len(t) \in Nat
  BY ConcatLines
<1>2. DOMAIN s = 1..Len(s) /\ DOMAIN t = 1..Len(t)
  OBVIOUS
<1> HIDE DEF u
<1>3. DOMAIN u = 1..Len(u)
  BY <1>1
<1>4. \A x \in Rules : P(x) \in Seq(Rules)
  OBVIOUS
<1>5. /\ \A i \in 1..Len(s) : s[i] \in Rules
      /\ \A i \in 1..Len(t) : t[i] \in Rules
      /\ \A i \in 1..Len(u) : u[i] \in Rules
  BY <1>1
<1> HIDE DEF P
<1>6. fs \in [1..Len(s) -> Seq(Rules)] /\ ft \in [1..Len(t) -> Seq(Rules)]
      /\ fu \in [1..Len(u) -> Seq(Rules)]
  BY <1>2, <1>3, <1>4, <1>5
<1>7. /\ \A i \in 1..Len(s) : fs[i] = P(s[i])
      /\ \A i \in 1..Len(t) : ft[i] = P(t[i])
      /\ \A i \in 1..Len(u) : fu[i] = P(u[i])
  BY <1>2, <1>3
<1>8. AdminRules(s) = FlattenSeq(fs) /\ AdminRules(t) = FlattenSeq(ft) /\ AdminRules(u) = FlattenSeq(fu)
  BY DEF AdminRules, Each, P
<1> HIDE DEF fs, ft, fu
<1>9. /\ fs \in Seq(Seq(Rules)) /\ Len(fs) = Len(s)
      /\ ft \in Seq(Seq(Rules)) /\ Len(ft) = Len(t)
      /\ fu \in Seq(Seq(Rules)) /\ Len(fu) = Len(u)
  <2>1. Len(s) \in Nat /\ Len(t) \in Nat /\ Len(u) \in Nat
    BY <1>1
  <2>2. fs \in Seq(Seq(Rules)) /\ Len(fs) = Len(s)
    BY <1>6, <2>1, ListTyped
  <2>3. ft \in Seq(Seq(Rules)) /\ Len(ft) = Len(t)
    BY <1>6, <2>1, ListTyped
  <2>4. fu \in Seq(Seq(Rules)) /\ Len(fu) = Len(u)
    BY <1>6, <2>1, ListTyped
  <2> QED
    BY <2>2, <2>3, <2>4
<1>10. /\ fc \in Seq(Seq(Rules)) /\ Len(fc) = Len(fs) + Len(ft)
       /\ \A i \in 1..Len(fs) : fc[i] = fs[i]
       /\ \A i \in 1..Len(ft) : fc[i + Len(fs)] = ft[i]
  <2>1. fs \in Seq(Seq(Rules)) /\ ft \in Seq(Seq(Rules))
    BY <1>9
  <2> QED
    BY <2>1, ConcatLines
<1> HIDE DEF fc
<1>11. fu = fc
  <2>1. ASSUME NEW i \in 1..Len(fu) PROVE fu[i] = fc[i]
    <3>1. CASE i \in 1..Len(s)
      <4>1. fc[i] = fs[i] /\ u[i] = s[i]
        BY <1>1, <1>9, <1>10, <3>1
      <4>2. fu[i] = P(u[i]) /\ fs[i] = P(s[i])
        BY <1>7, <1>9, <3>1
      <4> QED
        BY <4>1, <4>2
    <3>2. CASE i \notin 1..Len(s)
      <4>1. i - Len(s) \in 1..Len(t) /\ (i - Len(s)) + Len(s) = i
        BY <1>1, <1>9, <3>2
      <4>2. fc[i] = ft[i - Len(s)] /\ u[i] = t[i - Len(s)]
        BY <1>1, <1>9, <1>10, <4>1
      <4>3. fu[i] = P(u[i]) /\ ft[i - Len(s)] = P(t[i - Len(s)])
        BY <1>7, <1>9, <4>1
      <4> QED
        BY <4>2, <4>3
    <3> QED
      BY <3>1, <3>2
  <2>2. Len(fu) = Len(fc)
    BY <1>1, <1>9, <1>10
  <2> QED
    BY <1>9, <1>10, <2>1, <2>2, SeqEqual
<1>12. FlattenSeq(fc) = FlattenSeq(fs) \o FlattenSeq(ft)
  BY <1>9, FlattenConcat DEF fc
<1> QED
  BY <1>8, <1>11, <1>12 DEF u

LEMMA AdminRulesTyped ==
    ASSUME NEW s \in Seq(Rules)
    PROVE  AdminRules(s) \in Seq(Rules)
<1> DEFINE P(x) == IF x.tag = "admin" THEN <<x>> ELSE <<>>
           fs == [i \in DOMAIN s |-> P(s[i])]
<1>1. \A x \in Rules : P(x) \in Seq(Rules)
  OBVIOUS
<1>2. /\ DOMAIN s = 1..Len(s) /\ Len(s) \in Nat
      /\ \A i \in 1..Len(s) : s[i] \in Rules
  OBVIOUS
<1> HIDE DEF P
<1>3. fs \in [1..Len(s) -> Seq(Rules)]
  BY <1>1, <1>2
<1>4. AdminRules(s) = FlattenSeq(fs)
  BY DEF AdminRules, Each, P
<1> HIDE DEF fs
<1>5. fs \in Seq(Seq(Rules))
  BY <1>2, <1>3, ListTyped
<1> QED
  BY <1>4, <1>5, FlattenTyped

LEMMA AdminRulesOne ==
    ASSUME NEW x \in Rules
    PROVE  AdminRules(<<x>>) = IF x.tag = "admin" THEN <<x>> ELSE <<>>
<1> DEFINE y == IF x.tag = "admin" THEN <<x>> ELSE <<>>
           fs == [i \in DOMAIN <<x>> |-> IF <<x>>[i].tag = "admin" THEN <<<<x>>[i]>> ELSE <<>>]
<1>1. y \in Seq(Rules)
  OBVIOUS
<1>2. fs = <<y>>
  OBVIOUS
<1>3. AdminRules(<<x>>) = FlattenSeq(fs)
  BY DEF AdminRules, Each
<1> HIDE DEF fs, y
<1>4. FlattenSeq(<<y>>) = y
  BY <1>1, FlattenSingle
<1> QED
  BY <1>2, <1>3, <1>4 DEF y

LEMMA AdminRulesNone == AdminRules(<<>>) = <<>>
<1>1. AdminRules(<<>>) = FlattenSeq(<<>>)
  BY DEF AdminRules, Each
<1> QED
  BY <1>1, FlattenEmpty

(* Deleting a rule that is not the administrator's.                        *)
LEMMA AdminRulesDelete ==
    ASSUME NEW s \in Seq(Rules), NEW i \in 1..Len(s), s[i].tag # "admin"
    PROVE  AdminRules(RemoveAt(s, i)) = AdminRules(s)
<1> DEFINE a == SubSeq(s, 1, i - 1)
           b == SubSeq(s, i + 1, Len(s))
           x == s[i]
           c == a \o <<x>>
<1>1. /\ a \in Seq(Rules) /\ b \in Seq(Rules)
      /\ s = (a \o <<x>>) \o b /\ RemoveAt(s, i) = a \o b
  BY RemoveAtSplits
<1>2. x \in Rules /\ x.tag # "admin" /\ <<x>> \in Seq(Rules)
  OBVIOUS
<1> HIDE DEF a, b
<1>3. s = c \o b /\ a \in Seq(Rules) /\ b \in Seq(Rules)
  BY <1>1
<1> HIDE DEF x
<1>4. c \in Seq(Rules)
  BY <1>2, <1>3, ConcatLines
<1>5. AdminRules(c) = AdminRules(a) \o AdminRules(<<x>>)
  BY <1>2, <1>3, AdminRulesConcat
<1>6. AdminRules(<<x>>) = <<>>
  BY <1>2, AdminRulesOne
<1>7. AdminRules(c) = AdminRules(a)
  BY <1>3, <1>5, <1>6, AdminRulesTyped, ConcatEmptySeq
<1> HIDE DEF c
<1>8. AdminRules(c \o b) = AdminRules(c) \o AdminRules(b)
  BY <1>3, <1>4, AdminRulesConcat
<1>9. AdminRules(a \o b) = AdminRules(a) \o AdminRules(b)
  BY <1>3, AdminRulesConcat
<1> QED
  BY <1>1, <1>3, <1>7, <1>8, <1>9

(* Inserting a rule at the head of a chain.                                *)
LEMMA AdminRulesInsert ==
    ASSUME NEW s \in Seq(Rules), NEW x \in Rules
    PROVE  AdminRules(InsertAt(s, 1, x)) =
               IF x.tag = "admin" THEN InsertAt(AdminRules(s), 1, x) ELSE AdminRules(s)
<1> DEFINE l == AdminRules(s)
           h == <<x>>
<1>1. InsertAt(s, 1, x) = h \o s
  BY InsertFirstIsConcat
<1>2. l \in Seq(Rules)
  BY AdminRulesTyped
<1>3. h \in Seq(Rules)
  OBVIOUS
<1>4. AdminRules(h) = IF x.tag = "admin" THEN <<x>> ELSE <<>>
  BY AdminRulesOne
<1> HIDE DEF h
<1>5. AdminRules(h \o s) = AdminRules(h) \o l
  BY <1>3, AdminRulesConcat
<1> HIDE DEF l
<1>6. InsertAt(l, 1, x) = <<x>> \o l
  BY <1>2, InsertFirstIsConcat
<1>7. <<>> \o l = l
  BY <1>2, ConcatEmptySeq
<1> QED
  BY <1>1, <1>4, <1>5, <1>6, <1>7 DEF l

(* A chain of the administrator's rules alone.                             *)
LEMMA AllAdmin ==
    ASSUME NEW s \in Seq(Rules), \A r \in ToSet(s) : r.tag = "admin"
    PROVE  AdminRules(s) = s
<1> DEFINE All(u) == (\A r \in ToSet(u) : r.tag = "admin") => AdminRules(u) = u
           A == {u \in Seq(Rules) : All(u)}
<1>1. <<>> \in A
  <2>1. <<>> \in Seq(Rules)
    OBVIOUS
  <2> QED
    BY <2>1, AdminRulesNone
<1>2. ASSUME NEW u \in Seq(Rules), NEW e \in Rules, u \in A PROVE Append(u, e) \in A
  <2> DEFINE h == <<e>>
  <2>1. Append(u, e) \in Seq(Rules)
    BY AppendProperties
  <2>2. ToSet(Append(u, e)) = ToSet(u) \cup {e}
    BY ToSetAppend
  <2>3. Append(u, e) = u \o h
    BY AppendIsConcat
  <2>4. h \in Seq(Rules)
    OBVIOUS
  <2>5. AdminRules(h) = IF e.tag = "admin" THEN h ELSE <<>>
    BY AdminRulesOne
  <2> HIDE DEF h
  <2>6. AdminRules(u \o h) = AdminRules(u) \o AdminRules(h)
    BY <2>4, AdminRulesConcat
  <2>7. All(Append(u, e))
    <3> SUFFICES ASSUME \A r \in ToSet(Append(u, e)) : r.tag = "admin"
                 PROVE  AdminRules(Append(u, e)) = Append(u, e)
      OBVIOUS
    <3>1. AdminRules(u) = u /\ e.tag = "admin"
      BY <1>2, <2>2
    <3> QED
      BY <2>3, <2>5, <2>6, <3>1
  <2> QED
    BY <2>1, <2>7
<1>3. s \in A
  <2> HIDE DEF A
  <2> QED
    BY <1>1, <1>2, SeqInduction
<1> QED
  BY <1>3

-----------------------------------------------------------------------------
(* A program before its first command                                      *)

LEMMA StartBegins ==
    ASSUME NEW b \in SUBSET Configurable, NEW a, NEW cu \in Seq(Services), NEW cs, NEW d
    PROVE  LET t == StartProgram(b, a, cu)
           IN  /\ t \in Seq(StartCommands(b, a, cu))
               /\ Paired(t) /\ Reached(t, StartCommands(b, a, cu))
               /\ Established(cs, t, b, a, cu, d)
               /\ InsertsAbsent(t, cs)
               /\ IsInjective(cu) /\ Resolver \notin b => OwnOnce(cs.own, t)
<1> DEFINE S == StartCommands(b, a, cu)
           t == StartProgram(b, a, cu)
<1>1. /\ t \in Seq(S) /\ ToSet(t) = S /\ Arranged(t, 1, 12)
      /\ IsInjective(cu) /\ Resolver \notin b => OnceEach(t)
  BY StartProgramShape DEF Segment
<1>2. /\ \A r \in LegacyRules : RemoveAll("nat", r) \in S
      /\ \A r \in NatRules(b, a, cu) : Insert("nat", r) \in S
      /\ RemoveByComment("nat", "mitmwall-redirect") \in S
      /\ Insert("out", JumpRule) \in S
      /\ EnsureChain \in S /\ FlushChain \in S
      /\ \A r \in Managed(b, a) : AppendOwn(r) \in S
      /\ \A r \in CustomRules(cu) : InsertBeforeDrop(r) \in S
  BY DEF StartCommands
<1> HIDE DEF S, t
<1>3. Paired(t)
  BY <1>1 DEF Arranged, Paired
<1>4. Reached(t, S)
  BY <1>1 DEF Reached
<1>5. NatBuilt(cs.nat, ToSet(t), b, a, cu, d)
  BY <1>1, <1>2 DEF NatBuilt, NatRules
<1>6. OutBuilt(cs.out, ToSet(t), d)
  BY <1>1, <1>2 DEF OutBuilt
<1>7. OwnBuilt(cs.own, t, b, a, cu)
  BY <1>1, <1>2 DEF OwnBuilt, Managed
<1>8. InsertsAbsent(t, cs)
  <2>1. t # <<>> => Head(t) = t[1] /\ 1 \in 1..Len(t)
    BY <1>1, TailLines
  <2>2. t # <<>> => t[1].op # "insert"
    BY <2>1, <1>1 DEF Arranged
  <2> QED
    BY <2>1, <2>2 DEF InsertsAbsent
<1>9. IsInjective(cu) /\ Resolver \notin b => OwnOnce(cs.own, t)
  BY <1>1, <1>2 DEF OwnOnce
<1> QED
  BY <1>1, <1>3, <1>4, <1>5, <1>6, <1>7, <1>8, <1>9 DEF Established, S, t

LEMMA StopBegins ==
    ASSUME NEW a, NEW cs
    PROVE  LET t == StopProgram(a)
           IN  t \in Seq(StopCommands(a)) /\ Cleared(cs, t, a) /\ InsertsAbsent(t, cs)
<1> DEFINE S == StopCommands(a)
           t == StopProgram(a)
<1>1. t \in Seq(S) /\ ToSet(t) = S
  BY StopProgramShape
<1>2. /\ \A r \in LegacyRules \cup NtpBypasses(a) : RemoveAll("nat", r) \in S
      /\ RemoveByComment("nat", "mitmwall-redirect") \in S
      /\ RemoveByComment("nat", "mitmwall-custom") \in S
      /\ RemoveAll("out", JumpRule) \in S /\ FlushChain \in S
  BY DEF StopCommands
<1>3. \A c \in S : c.op # "insert"
  BY StopCommandKinds
<1> HIDE DEF S, t
<1>4. NatCleared(cs.nat, ToSet(t), a)
  BY <1>1, <1>2 DEF NatCleared
<1>5. OutCleared(cs.out, ToSet(t)) /\ OwnCleared(cs.own, ToSet(t))
  BY <1>1, <1>2 DEF OutCleared, OwnCleared
<1>6. InsertsAbsent(t, cs)
  <2>1. t # <<>> => Head(t) \in S
    BY <1>1, TailLines
  <2> QED
    BY <1>3, <2>1 DEF InsertsAbsent
<1> QED
  BY <1>1, <1>4, <1>5, <1>6 DEF Cleared, S, t

LEMMA NextInsert ==
    ASSUME NEW b \in SUBSET Configurable, NEW a, NEW cu \in Seq(Services), NEW t,
           Going(t, b, a, cu), Tail(t) # <<>>, Head(Tail(t)).op = "insert"
    PROVE  Head(t) = RemoveAll(Head(Tail(t)).chain, Head(Tail(t)).rule)
<1> DEFINE S == StartCommands(b, a, cu)
<1>1. t \in Seq(S) /\ t # <<>> /\ Paired(t)
  BY DEF Going
<1> HIDE DEF S
<1>2. Head(t) = t[1] /\ Head(Tail(t)) = t[2] /\ Len(t) >= 2 /\ Len(t) \in Nat
  BY <1>1, TailLines
<1>3. 2 \in 1..Len(t) /\ 2 > 1 /\ 2 - 1 = 1
  BY <1>2
<1>4. t[2 - 1] = RemoveAll(t[2].chain, t[2].rule)
  BY <1>1, <1>2, <1>3 DEF Paired
<1> QED
  BY <1>2, <1>3, <1>4

-----------------------------------------------------------------------------
(* Steps of the hook                                                       *)

(* The configuration a start read is one of those the proofs quantify over.*)
LEMMA AppliedTyped ==
    ASSUME TInv
    PROVE  /\ applied.bypass \in SUBSET Configurable /\ applied.custom \in Seq(Services)
           /\ chains \in Chains
           /\ admin.nat \in Seq(Rules) /\ admin.out \in Seq(Rules)
           /\ running \in {"none", "start", "stop"}
           /\ todo # <<>> => running \in {"start", "stop"}
  BY FirewallAssumption DEF TInv, TypeOK, Chains

LEMMA StartGoing ==
    ASSUME Inv, running = "start", todo # <<>>
    PROVE  /\ Going(todo, applied.bypass, applied.accounts, applied.custom)
           /\ Established(chains, todo, applied.bypass, applied.accounts, applied.custom, disturbed)
           /\ NamesOnce => OwnOnce(chains.own, todo)
           /\ Head(todo) \in AppliedCommands
  BY AppliedTyped, GoingTail DEF Inv, SInv, TInv, Going, AppliedCommands

LEMMA StopGoing ==
    ASSUME Inv, running = "stop", todo # <<>>
    PROVE  /\ todo \in Seq(StopCommands(accounts)) /\ Cleared(chains, todo, accounts)
           /\ Head(todo) \in StopCommands(accounts)
           /\ Tail(todo) \in Seq(StopCommands(accounts))
           /\ Tail(todo) # <<>> => Head(Tail(todo)).op # "insert"
<1>1. todo \in Seq(StopCommands(accounts)) /\ Cleared(chains, todo, accounts)
  BY DEF Inv, CInv, TInv
<1> DEFINE S == StopCommands(accounts)
<1>2. \A c \in S : c.op # "insert"
  BY StopCommandKinds
<1> HIDE DEF S
<1>3. Head(todo) \in S /\ Tail(todo) \in Seq(S)
  BY <1>1, TailLines DEF S
<1>4. Tail(todo) # <<>> => Head(Tail(todo)) \in S
  BY <1>3, TailLines
<1> QED
  BY <1>1, <1>2, <1>3, <1>4 DEF S

(* What a command owes: the chains it leaves and the commands after it.    *)
LEMMA StepLeaves ==
    ASSUME Inv, todo # <<>>, UNCHANGED <<unit, running, config, disturbed, faults>>,
           listed' = 0, shifted' = FALSE,
           todo' = todo \/ todo' = Tail(todo),
           admin' \in [nat : Seq(Rules), out : Seq(Rules)],
           \A c \in {"nat", "out"} : ToSet(admin'[c]) \subseteq {AdminRule("ACCEPT")},
           chains' \in Chains, ChainsKept(chains'), AdminRulesKept',
           InsertsAbsent(todo', chains'),
           running = "start" =>
               /\ Established(chains', todo', applied.bypass, applied.accounts, applied.custom,
                              disturbed)
               /\ NamesOnce => OwnOnce(chains'.own, todo'),
           running = "stop" => Cleared(chains', todo', accounts)
    PROVE  Inv'
<1>1. /\ unit' = unit /\ running' = running /\ bypass' = bypass /\ custom' = custom
      /\ accounts' = accounts /\ applied' = applied /\ faults' = faults /\ disturbed' = disturbed
  BY DEF config
<1>2. TInv /\ running \in {"start", "stop"}
  BY AppliedTyped DEF Inv
<1>3. ASSUME running = "start"
      PROVE  todo' \in Seq(AppliedCommands) /\ Paired(todo') /\ Reached(todo', AppliedCommands)
  <2>1. Going(todo, applied.bypass, applied.accounts, applied.custom)
    BY <1>3, StartGoing
  <2>2. /\ todo \in Seq(AppliedCommands) /\ Paired(todo) /\ Reached(todo, AppliedCommands)
    BY <2>1 DEF Going, AppliedCommands
  <2>3. /\ Tail(todo) \in Seq(AppliedCommands) /\ Paired(Tail(todo))
        /\ Reached(Tail(todo), AppliedCommands)
    BY <1>2, <2>1, AppliedTyped, GoingTail DEF AppliedCommands
  <2> QED
    BY <2>2, <2>3
<1>4. ASSUME running = "stop" PROVE todo' \in Seq(StopCommands(accounts))
  BY <1>4, StopGoing
<1>5. AppliedCommands' = AppliedCommands /\ NamesOnce' = NamesOnce
  BY <1>1 DEF AppliedCommands, NamesOnce
<1>6. TInv'
  BY <1>1, <1>2, <1>3, <1>4, <1>5 DEF TInv, TypeOK, Chains
<1>7. KInv'
  BY <1>1 DEF Inv, KInv
<1>8. SInv'
  BY <1>1, <1>3, <1>5 DEF SInv
<1>9. CInv'
  BY <1>1 DEF CInv
<1>10. LInv'
  BY DEF LInv
<1> QED
  BY <1>6, <1>7, <1>8, <1>9, <1>10 DEF Inv

LEMMA StepKeeps ==
    ASSUME Inv, todo # <<>>, StepOf,
           todo' = todo \/ todo' = Tail(todo),
           chains' \in Chains, ChainsKept(chains'), AdminRulesKept',
           InsertsAbsent(todo', chains'),
           running = "start" =>
               /\ Established(chains', todo', applied.bypass, applied.accounts, applied.custom,
                              disturbed)
               /\ NamesOnce => OwnOnce(chains'.own, todo'),
           running = "stop" => Cleared(chains', todo', accounts)
    PROVE  Inv'
<1>1. /\ UNCHANGED <<unit, running, config, disturbed, faults>> /\ admin' = admin
      /\ listed' = 0 /\ shifted' = FALSE
  BY DEF StepOf, others
<1>2. /\ admin \in [nat : Seq(Rules), out : Seq(Rules)]
      /\ \A c \in {"nat", "out"} : ToSet(admin[c]) \subseteq {AdminRule("ACCEPT")}
  BY DEF Inv, TInv, TypeOK, KInv
<1> QED
  BY <1>1, <1>2, StepLeaves

(* But for remove_by_comment, no command is between a listing and its      *)
(* deletion.                                                               *)
LEMMA NotListing ==
    ASSUME Inv, todo # <<>>, Head(todo).op # "remove_by_comment"
    PROVE  listed = 0
  BY DEF Inv, LInv

LEMMA DoneIs ==
    ASSUME Inv, Done, listed = 0
    PROVE  todo' = Tail(todo) /\ StepOf /\ admin' = admin
  BY DEF Done, StepOf, others, Inv, LInv

LEMMA MoreIs ==
    ASSUME Inv, More, listed = 0
    PROVE  todo' = todo /\ StepOf /\ admin' = admin
  BY DEF More, StepOf, others, Inv, LInv

(* A command that is done and changes no chain.                            *)
LEMMA DoneKeeps ==
    ASSUME Inv, todo # <<>>, Done, listed = 0, UNCHANGED chains,
           Head(todo).op \notin {"insert", "append", "add_rule", "flush_chain"},
           Head(todo).op = "ensure_chain" => HasOwn,
           Head(todo).op = "remove_all" => Head(todo).rule \notin ToSet(chains[Head(todo).chain]),
           Head(todo).op = "remove_by_comment" /\ Head(todo).chain = "nat" =>
               \A r \in ToSet(chains.nat) : r.tag # Head(todo).tag
    PROVE  Inv'
<1>1. todo' = Tail(todo) /\ chains' = chains /\ StepOf /\ admin' = admin
  BY DoneIs
<1>2. /\ TInv /\ KInv /\ AdminRulesKept
      /\ running \in {"start", "stop"} /\ chains \in Chains
      /\ applied.bypass \in SUBSET Configurable /\ applied.custom \in Seq(Services)
  BY AppliedTyped DEF Inv
<1>3. chains' \in Chains /\ ChainsKept(chains') /\ AdminRulesKept'
  BY <1>1, <1>2 DEF KInv, AdminRulesKept
<1>4. ASSUME running = "start"
      PROVE  /\ Established(chains, Tail(todo), applied.bypass, applied.accounts, applied.custom, disturbed)
             /\ NamesOnce => OwnOnce(chains.own, Tail(todo))
             /\ InsertsAbsent(Tail(todo), chains)
  <2>1. /\ Going(todo, applied.bypass, applied.accounts, applied.custom)
        /\ Established(chains, todo, applied.bypass, applied.accounts, applied.custom, disturbed)
        /\ NamesOnce => OwnOnce(chains.own, todo)
    BY <1>4, StartGoing
  <2>2. chains.nat \in Seq(Rules)
    BY <1>2 DEF Chains
  <2>3. NatBuilt(chains.nat, ToSet(Tail(todo)), applied.bypass, applied.accounts, applied.custom, disturbed)
    BY <1>2, <2>1, <2>2, NatBuiltDone DEF Established
  <2>4. OutBuilt(chains.out, ToSet(Tail(todo)), disturbed)
    BY <1>2, <2>1, OutBuiltDone DEF Established
  <2>5. OwnBuilt(chains.own, Tail(todo), applied.bypass, applied.accounts, applied.custom)
    BY <1>2, <2>1, OwnBuiltDone DEF Established, HasOwn
  <2>6. NamesOnce => OwnOnce(chains.own, Tail(todo))
    BY <1>2, <2>1, OwnOnceDone
  <2>7. InsertsAbsent(Tail(todo), chains)
    <3> SUFFICES ASSUME Tail(todo) # <<>>, Head(Tail(todo)).op = "insert"
                 PROVE  Head(Tail(todo)).rule \notin ToSet(chains[Head(Tail(todo)).chain])
      BY DEF InsertsAbsent
    <3>1. Head(todo) = RemoveAll(Head(Tail(todo)).chain, Head(Tail(todo)).rule)
      BY <1>2, <2>1, NextInsert
    <3> QED
      BY <3>1 DEF RemoveAll
  <2> QED
    BY <2>3, <2>4, <2>5, <2>6, <2>7 DEF Established
<1>5. ASSUME running = "stop"
      PROVE  Cleared(chains, Tail(todo), accounts) /\ InsertsAbsent(Tail(todo), chains)
  <2>1. /\ todo \in Seq(StopCommands(accounts)) /\ Cleared(chains, todo, accounts)
        /\ Tail(todo) # <<>> => Head(Tail(todo)).op # "insert"
    BY <1>5, StopGoing
  <2>2. NatCleared(chains.nat, ToSet(Tail(todo)), accounts)
    BY <2>1, NatClearedDone DEF Cleared
  <2>3. OutCleared(chains.out, ToSet(Tail(todo)))
    BY <2>1, OutClearedDone DEF Cleared
  <2>4. OwnCleared(chains.own, ToSet(Tail(todo)))
    BY <2>1, OwnClearedDone DEF Cleared
  <2> QED
    BY <2>1, <2>2, <2>3, <2>4 DEF Cleared, InsertsAbsent
<1>6. InsertsAbsent(todo', chains')
  BY <1>1, <1>2, <1>4, <1>5
<1> HIDE DEF Inv
<1> QED
  BY <1>1, <1>2, <1>3, <1>4, <1>5, <1>6, StepKeeps

LEMMA AllDeletedKeeps == ASSUME Inv, AllDeleted PROVE Inv'
<1>1. /\ todo # <<>> /\ Head(todo).op = "remove_all" /\ Done /\ UNCHANGED chains
      /\ ~RuleExists(chains[Head(todo).chain], Head(todo).rule)
  BY DEF AllDeleted, Running
<1>2. Head(todo).rule \notin ToSet(chains[Head(todo).chain])
  BY <1>1 DEF RuleExists, Contains, ToSet
<1>3. listed = 0
  BY <1>1, NotListing
<1> QED
  BY <1>1, <1>2, <1>3, DoneKeeps

LEMMA NothingTaggedKeeps == ASSUME Inv, NothingTagged PROVE Inv'
<1>1. /\ todo # <<>> /\ Head(todo).op = "remove_by_comment" /\ Done /\ UNCHANGED chains /\ listed = 0
      /\ Present(Head(todo).chain) => ~IsTagged(chains[Head(todo).chain], Head(todo).tag)
  BY DEF NothingTagged, Running
<1>2. Head(todo).chain = "nat" => \A r \in ToSet(chains.nat) : r.tag # Head(todo).tag
  BY <1>1 DEF Present, IsTagged, ToSet
<1> QED
  BY <1>1, <1>2, DoneKeeps

LEMMA ForwardKeeps == ASSUME Inv, Forward PROVE Inv'
<1>1. todo # <<>> /\ Head(todo).op = "forwarding" /\ Done /\ UNCHANGED chains
  BY DEF Forward, Running
<1>2. listed = 0
  BY <1>1, NotListing
<1> QED
  BY <1>1, <1>2, DoneKeeps

(* A line of the nat chain goes; the command that deleted it goes on.      *)
LEMMA NatLineDeleted ==
    ASSUME Inv, todo # <<>>, todo' = todo, StepOf, NEW i \in 1..Len(chains.nat), chains.nat[i].tag # "admin",
           chains' = [chains EXCEPT !["nat"] = RemoveAt(chains.nat, i)],
           \/ Head(todo) = RemoveAll("nat", chains.nat[i])
           \/ Head(todo) = RemoveByComment("nat", chains.nat[i].tag)
    PROVE  Inv'
<1> DEFINE n == RemoveAt(chains.nat, i)
<1>1. /\ TInv /\ KInv /\ AdminRulesKept
      /\ running \in {"start", "stop"} /\ chains \in Chains /\ ChainsKept(chains)
      /\ chains.nat \in Seq(Rules) /\ NatKept(chains.nat)
      /\ applied.bypass \in SUBSET Configurable /\ applied.custom \in Seq(Services)
  BY AppliedTyped DEF Inv, KInv, Chains, ChainsKept
<1>2. n \in Seq(Rules) /\ NatKept(n)
  BY <1>1, RemoveAtLines, NatKeptDelete
<1>3. AdminRules(n) = AdminRules(chains.nat)
  BY <1>1, AdminRulesDelete
<1>4. ASSUME running = "start"
      PROVE  NatBuilt(n, ToSet(todo), applied.bypass, applied.accounts, applied.custom, disturbed)
  BY <1>1, <1>4, StartGoing, NatBuiltDelete DEF Established
<1>5. ASSUME running = "stop" PROVE NatCleared(n, ToSet(todo), accounts)
  BY <1>1, <1>5, StopGoing, NatClearedDelete DEF Cleared
<1>6. chains' = [chains EXCEPT !["nat"] = n]
  OBVIOUS
<1> HIDE DEF n
<1>7. /\ chains' \in Chains /\ ChainsKept(chains')
      /\ chains'.nat = n /\ chains'.out = chains.out /\ chains'.own = chains.own
  BY <1>1, <1>2, <1>6 DEF Chains, ChainsKept
<1>8. todo' = todo /\ StepOf /\ admin' = admin
  BY DEF StepOf, others
<1>9. AdminRulesKept'
  BY <1>1, <1>3, <1>7, <1>8 DEF AdminRulesKept
<1>10. InsertsAbsent(todo', chains')
  <2>1. Head(todo).op # "insert"
    BY DEF RemoveAll, RemoveByComment
  <2> QED
    BY <1>8, <2>1 DEF InsertsAbsent
<1>11. ASSUME running = "start"
       PROVE  /\ Established(chains', todo', applied.bypass, applied.accounts, applied.custom, disturbed)
              /\ NamesOnce => OwnOnce(chains'.own, todo')
  BY <1>4, <1>7, <1>8, <1>11, StartGoing DEF Established
<1>12. ASSUME running = "stop" PROVE Cleared(chains', todo', accounts)
  BY <1>5, <1>7, <1>8, <1>12, StopGoing DEF Cleared
<1> QED
  BY <1>7, <1>8, <1>9, <1>10, <1>11, <1>12, StepKeeps

LEMMA JumpDeleted ==
    ASSUME Inv, todo # <<>>, todo' = todo, StepOf, NEW i \in 1..Len(chains.out), chains.out[i] = JumpRule,
           chains' = [chains EXCEPT !["out"] = RemoveAt(chains.out, i)],
           Head(todo) = RemoveAll("out", JumpRule)
    PROVE  Inv'
<1> DEFINE o == RemoveAt(chains.out, i)
<1>1. /\ TInv /\ KInv /\ AdminRulesKept
      /\ running \in {"start", "stop"} /\ chains \in Chains /\ ChainsKept(chains)
      /\ chains.out \in Seq(Rules) /\ OutKept(chains.out)
      /\ JumpRule \in ToSet(chains.out) => chains.own # NoChain
      /\ applied.bypass \in SUBSET Configurable /\ applied.custom \in Seq(Services)
  BY AppliedTyped DEF Inv, KInv, Chains, ChainsKept
<1>2. o \in Seq(Rules) /\ OutKept(o)
  BY <1>1, RemoveAtLines, OutKeptDelete
<1>3. AdminRules(o) = AdminRules(chains.out)
  BY <1>1, AdminRulesDelete, RuleFields
<1>4. JumpRule \in ToSet(o) => chains.own # NoChain
  BY <1>1, ToSetRemoveAt
<1>5. ASSUME running = "start" PROVE OutBuilt(o, ToSet(todo), disturbed)
  BY <1>1, <1>5, StartGoing, OutBuiltDelete
<1>6. ASSUME running = "stop" PROVE OutCleared(o, ToSet(todo))
  BY <1>1, <1>6, StopGoing, OutClearedDelete DEF Cleared
<1>7. chains' = [chains EXCEPT !["out"] = o]
  OBVIOUS
<1> HIDE DEF o
<1>8. /\ chains' \in Chains /\ ChainsKept(chains')
      /\ chains'.nat = chains.nat /\ chains'.out = o /\ chains'.own = chains.own
  BY <1>1, <1>2, <1>4, <1>7 DEF Chains, ChainsKept
<1>9. todo' = todo /\ StepOf /\ admin' = admin
  BY DEF StepOf, others
<1>10. AdminRulesKept'
  BY <1>1, <1>3, <1>8, <1>9 DEF AdminRulesKept
<1>11. InsertsAbsent(todo', chains')
  <2>1. Head(todo).op # "insert"
    BY DEF RemoveAll
  <2> QED
    BY <1>9, <2>1 DEF InsertsAbsent
<1>12. ASSUME running = "start"
       PROVE  /\ Established(chains', todo', applied.bypass, applied.accounts, applied.custom, disturbed)
              /\ NamesOnce => OwnOnce(chains'.own, todo')
  BY <1>5, <1>8, <1>9, <1>12, StartGoing DEF Established
<1>13. ASSUME running = "stop" PROVE Cleared(chains', todo', accounts)
  BY <1>6, <1>8, <1>9, <1>13, StopGoing DEF Cleared
<1> QED
  BY <1>8, <1>9, <1>10, <1>11, <1>12, <1>13, StepKeeps

LEMMA CustomDeleted ==
    ASSUME Inv, todo # <<>>, todo' = todo, StepOf, HasOwn, NEW i \in 1..Len(chains.own),
           chains.own[i].tag = "mitmwall-custom",
           chains' = [chains EXCEPT !["own"] = RemoveAt(chains.own, i)],
           Head(todo) = RemoveByComment("own", "mitmwall-custom")
    PROVE  Inv'
<1> DEFINE w == RemoveAt(chains.own, i)
<1>1. /\ TInv /\ KInv /\ AdminRulesKept
      /\ running \in {"start", "stop"} /\ chains \in Chains /\ ChainsKept(chains)
      /\ chains.own \in Seq(Rules) /\ OwnKept(chains.own)
      /\ applied.bypass \in SUBSET Configurable /\ applied.custom \in Seq(Services)
  BY AppliedTyped DEF Inv, KInv, Chains, ChainsKept, HasOwn
<1>2. w \in Seq(Rules) /\ OwnKept(w)
  BY <1>1, RemoveAtLines, OwnKeptDelete
<1>3. ASSUME running = "start"
      PROVE  /\ OwnBuilt(w, todo, applied.bypass, applied.accounts, applied.custom)
             /\ NamesOnce => OwnOnce(w, todo)
  BY <1>1, <1>3, StartGoing, OwnBuiltDelete, OwnOnceDelete DEF Established
<1>4. ASSUME running = "stop" PROVE OwnCleared(w, ToSet(todo))
  <2>1. chains.own # <<>>
    BY <1>1
  <2> QED
    BY <1>4, <2>1, StopGoing DEF Cleared, OwnCleared, HasOwn
<1>5. chains' = [chains EXCEPT !["own"] = w]
  OBVIOUS
<1> HIDE DEF w
<1>6. /\ chains' \in Chains /\ ChainsKept(chains')
      /\ chains'.nat = chains.nat /\ chains'.out = chains.out /\ chains'.own = w
  BY <1>1, <1>2, <1>5, FirewallAssumption DEF Chains, ChainsKept
<1>7. todo' = todo /\ StepOf /\ admin' = admin
  BY DEF StepOf, others
<1>8. AdminRulesKept'
  BY <1>1, <1>6, <1>7 DEF AdminRulesKept
<1>9. InsertsAbsent(todo', chains')
  <2>1. Head(todo).op # "insert"
    BY DEF RemoveByComment
  <2> QED
    BY <1>7, <2>1 DEF InsertsAbsent
<1>10. ASSUME running = "start"
       PROVE  /\ Established(chains', todo', applied.bypass, applied.accounts, applied.custom, disturbed)
              /\ NamesOnce => OwnOnce(chains'.own, todo')
  BY <1>3, <1>6, <1>7, <1>10, StartGoing DEF Established
<1>11. ASSUME running = "stop" PROVE Cleared(chains', todo', accounts)
  BY <1>4, <1>6, <1>7, <1>11, StopGoing DEF Cleared
<1> QED
  BY <1>6, <1>7, <1>8, <1>9, <1>10, <1>11, StepKeeps

(* Which chain and rule a deletion is about.                               *)
LEMMA RemovalKinds ==
    ASSUME Inv, todo # <<>>, Head(todo).op = "remove_all"
    PROVE  \/ /\ Head(todo) = RemoveAll("nat", Head(todo).rule) /\ Head(todo).chain = "nat"
              /\ Head(todo).rule.tag # "admin"
           \/ Head(todo) = RemoveAll("out", JumpRule) /\ Head(todo).chain = "out"
              /\ Head(todo).rule = JumpRule
<1>1. TInv /\ running \in {"start", "stop"}
      /\ applied.bypass \in SUBSET Configurable /\ applied.custom \in Seq(Services)
  BY AppliedTyped DEF Inv
<1>2. \A r \in LegacyRules \cup NatRules(applied.bypass, applied.accounts, applied.custom) :
          r.tag # "admin"
  BY <1>1, RuleSets DEF NatRules
<1>3. \A r \in LegacyRules \cup NtpBypasses(accounts) : r.tag # "admin"
  <2>1. {} \in SUBSET Configurable /\ <<>> \in Seq(Services)
    OBVIOUS
  <2> QED
    BY <2>1, RuleSets
<1>4. CASE running = "start"
  BY <1>2, <1>4, StartGoing, StartCommandKinds DEF AppliedCommands
<1>5. CASE running = "stop"
  BY <1>3, <1>5, StopGoing, StopCommandKinds
<1> QED
  BY <1>1, <1>4, <1>5

LEMMA CommentKinds ==
    ASSUME Inv, todo # <<>>, Head(todo).op = "remove_by_comment"
    PROVE  /\ Head(todo) = RemoveByComment(Head(todo).chain, Head(todo).tag)
           /\ Head(todo).tag \in {"mitmwall-redirect", "mitmwall-custom"}
           /\ \/ Head(todo).chain = "nat"
              \/ Head(todo).chain = "own" /\ Head(todo).tag = "mitmwall-custom"
<1>1. TInv /\ running \in {"start", "stop"}
  BY AppliedTyped DEF Inv
<1>2. CASE running = "start"
  BY <1>2, StartGoing, StartCommandKinds DEF AppliedCommands
<1>3. CASE running = "stop"
  BY <1>3, StopGoing, StopCommandKinds
<1> QED
  BY <1>1, <1>2, <1>3

LEMMA DeleteCopyKeeps == ASSUME Inv, DeleteCopy PROVE Inv'
<1>1. /\ todo # <<>> /\ Head(todo).op = "remove_all" /\ More
      /\ RuleExists(chains[Head(todo).chain], Head(todo).rule)
      /\ chains' = [chains EXCEPT ![Head(todo).chain] =
                        DeleteRule(chains[Head(todo).chain], Head(todo).rule)]
  BY DEF DeleteCopy, Running, SetChain
<1>0. todo' = todo /\ StepOf
  BY <1>1, NotListing, MoreIs
<1>2. chains.nat \in Seq(Rules) /\ chains.out \in Seq(Rules)
  BY AppliedTyped DEF Inv, Chains
<1>3. CASE /\ Head(todo) = RemoveAll("nat", Head(todo).rule) /\ Head(todo).chain = "nat"
           /\ Head(todo).rule.tag # "admin"
  <2>1. PICK i \in 1..Len(chains.nat) :
            /\ chains.nat[i] = Head(todo).rule
            /\ DeleteRule(chains.nat, Head(todo).rule) = RemoveAt(chains.nat, i)
    <3>1. RuleExists(chains.nat, Head(todo).rule)
      BY <1>1, <1>3
    <3> QED
      BY <1>2, <3>1, DeleteRuleLine
  <2>2. chains' = [chains EXCEPT !["nat"] = RemoveAt(chains.nat, i)]
    BY <1>1, <1>3, <2>1
  <2> QED
    BY <1>0, <1>1, <1>3, <2>1, <2>2, NatLineDeleted
<1>4. CASE Head(todo) = RemoveAll("out", JumpRule) /\ Head(todo).chain = "out"
           /\ Head(todo).rule = JumpRule
  <2>1. PICK i \in 1..Len(chains.out) :
            /\ chains.out[i] = JumpRule
            /\ DeleteRule(chains.out, JumpRule) = RemoveAt(chains.out, i)
    <3>1. RuleExists(chains.out, JumpRule)
      BY <1>1, <1>4
    <3> QED
      BY <1>2, <3>1, DeleteRuleLine
  <2>2. chains' = [chains EXCEPT !["out"] = RemoveAt(chains.out, i)]
    BY <1>1, <1>4, <2>1
  <2> QED
    BY <1>0, <1>1, <1>4, <2>1, <2>2, JumpDeleted
<1> QED
  BY <1>1, <1>3, <1>4, RemovalKinds

(* The listing changes nothing, and finds a line with the comment.         *)
LEMMA ListTaggedKeeps == ASSUME Inv, ListTagged PROVE Inv'
<1> DEFINE c == Head(todo)
<1>1. /\ todo # <<>> /\ c.op = "remove_by_comment" /\ listed = 0
      /\ Present(c.chain) /\ IsTagged(chains[c.chain], c.tag)
      /\ listed' = TaggedLine(chains[c.chain], c.tag)
      /\ UNCHANGED <<chains, todo, unit, running, config, others, shifted, faults>>
  BY DEF ListTagged, Running
<1>2. /\ chains' = chains /\ todo' = todo /\ unit' = unit /\ running' = running
      /\ bypass' = bypass /\ custom' = custom /\ accounts' = accounts /\ applied' = applied
      /\ admin' = admin /\ disturbed' = disturbed /\ shifted' = shifted /\ faults' = faults
  BY <1>1 DEF config, others
<1>3. TInv /\ KInv /\ AdminRulesKept /\ SInv /\ CInv /\ ~shifted
  BY <1>1 DEF Inv, LInv
<1>4. c.chain = "nat" \/ c.chain = "own"
  BY <1>1, CommentKinds
<1>5. chains[c.chain] \in Seq(Rules)
  BY <1>1, <1>3, <1>4, AppliedTyped DEF Chains, Present, HasOwn
<1>6. listed' \in 1..Len(chains[c.chain]) /\ chains[c.chain][listed'].tag = c.tag
  BY <1>1, <1>5, TaggedLineIs
<1>7. TInv'
  <2>1. AppliedCommands' = AppliedCommands
    BY <1>2 DEF AppliedCommands
  <2>2. listed' \in Nat
    BY <1>5, <1>6
  <2> QED
    BY <1>2, <1>3, <2>1, <2>2 DEF TInv, TypeOK
<1>8. KInv' /\ AdminRulesKept' /\ SInv' /\ CInv'
  BY <1>2, <1>3 DEF KInv, AdminRulesKept, SInv, CInv, AppliedCommands, NamesOnce
<1>9. LInv'
  <2>1. Present(c.chain)'
    BY <1>1, <1>2 DEF Present, HasOwn
  <2>2. listed' # 0
    BY <1>5, <1>6
  <2> QED
    BY <1>1, <1>2, <1>3, <1>6, <2>1, <2>2 DEF LInv
<1> QED
  BY <1>7, <1>8, <1>9 DEF Inv

(* What is tagged as other management's in the nat chain is its rule.      *)
LEMMA AdminRulesAre ==
    ASSUME NEW nat \in Seq(Rules), NatKept(nat)
    PROVE  ToSet(AdminRules(nat)) \subseteq {AdminRule("ACCEPT")}
<1> DEFINE P(x) == IF x.tag = "admin" THEN <<x>> ELSE <<>>
           fs == [i \in DOMAIN nat |-> P(nat[i])]
<1>1. AdminRules(nat) = FlattenSeq(fs)
  BY DEF AdminRules, Each, P
<1>2. /\ DOMAIN nat = 1..Len(nat) /\ Len(nat) \in Nat
      /\ \A i \in 1..Len(nat) : nat[i] \in Rules /\ nat[i] \in ToSet(nat)
  BY ToSetMember
<1>3. \A x \in Rules : P(x) \in Seq(Rules) /\ \A e \in ToSet(P(x)) : e = x /\ x.tag = "admin"
  <2> TAKE x \in Rules
  <2>1. CASE x.tag = "admin"
    <3> DEFINE h == <<x>>
    <3>1. h \in Seq(Rules) /\ Len(h) = 1 /\ h[1] = x
      OBVIOUS
    <3>2. P(x) = h
      BY <2>1
    <3> HIDE DEF h
    <3>3. \A e \in ToSet(h) : e = x
      BY <3>1, ToSetMember
    <3> QED
      BY <2>1, <3>1, <3>2, <3>3
  <2>2. CASE x.tag # "admin"
    BY <2>2, EmptyOwn
  <2> QED
    BY <2>1, <2>2
<1> HIDE DEF P
<1>4. fs \in [1..Len(nat) -> Seq(Rules)] /\ \A i \in 1..Len(nat) : fs[i] = P(nat[i])
  BY <1>2, <1>3
<1> HIDE DEF fs
<1>5. fs \in Seq(Seq(Rules)) /\ Len(fs) = Len(nat)
  BY <1>2, <1>4, ListTyped
<1>6. ASSUME NEW e \in ToSet(AdminRules(nat)) PROVE e = AdminRule("ACCEPT")
  <2>1. PICK i \in 1..Len(fs) : e \in ToSet(fs[i])
    BY <1>1, <1>5, <1>6, FlattenMembers
  <2>2. e \in ToSet(nat) /\ e.tag = "admin"
    BY <1>2, <1>3, <1>4, <1>5, <2>1
  <2>3. NatKind(e)
    BY <2>2 DEF NatKept
  <2>4. \A r \in LegacyRules \cup NtpBypasses(NtpUsers) : r.tag # "admin"
    <3>1. {} \in SUBSET Configurable /\ <<>> \in Seq(Services)
      OBVIOUS
    <3> QED
      BY <3>1, RuleSets
  <2> QED
    BY <2>2, <2>3, <2>4 DEF NatKind
<1> QED
  BY <1>6

(* The lines have shifted: whatever rule of nat is there goes. The start   *)
(* then knows nothing of which rules are above which.                      *)
LEMMA ShiftedLineDeleted ==
    ASSUME Inv, todo # <<>>, Head(todo).op = "remove_by_comment", disturbed,
           UNCHANGED <<todo, unit, running, config, disturbed, faults>>,
           listed' = 0, shifted' = FALSE,
           NEW i \in 1..Len(chains.nat),
           chains' = [chains EXCEPT !["nat"] = RemoveAt(chains.nat, i)],
           admin' = [admin EXCEPT !["nat"] = AdminRules(chains'.nat)]
    PROVE  Inv'
<1> DEFINE n == RemoveAt(chains.nat, i)
           m == AdminRules(n)
<1>1. /\ TInv /\ KInv /\ AdminRulesKept
      /\ running \in {"start", "stop"} /\ chains \in Chains /\ ChainsKept(chains)
      /\ chains.nat \in Seq(Rules) /\ NatKept(chains.nat)
      /\ admin \in [nat : Seq(Rules), out : Seq(Rules)]
  BY AppliedTyped DEF Inv, KInv, Chains, ChainsKept, TInv, TypeOK
<1>2. n \in Seq(Rules) /\ NatKept(n) /\ ToSet(n) \subseteq ToSet(chains.nat)
  BY <1>1, RemoveAtLines, NatKeptDelete, ToSetRemoveAt
<1>3. m \in Seq(Rules) /\ ToSet(m) \subseteq {AdminRule("ACCEPT")}
  BY <1>2, AdminRulesTyped, AdminRulesAre
<1>4. ASSUME running = "start"
      PROVE  NatBuilt(n, ToSet(todo), applied.bypass, applied.accounts, applied.custom, disturbed)
  BY <1>2, <1>4, StartGoing DEF Established, NatBuilt
<1>5. ASSUME running = "stop" PROVE NatCleared(n, ToSet(todo), accounts)
  BY <1>1, <1>5, StopGoing, NatClearedDelete DEF Cleared
<1>6. chains' = [chains EXCEPT !["nat"] = n]
  OBVIOUS
<1>7. admin' = [admin EXCEPT !["nat"] = m]
  BY <1>1, <1>6 DEF Chains
<1>8. AdminRules(n) = m
  OBVIOUS
<1> HIDE DEF n, m
<1>9. /\ chains' \in Chains /\ ChainsKept(chains')
      /\ chains'.nat = n /\ chains'.out = chains.out /\ chains'.own = chains.own
  BY <1>1, <1>2, <1>6 DEF Chains, ChainsKept
<1>10. /\ admin' \in [nat : Seq(Rules), out : Seq(Rules)]
       /\ admin'.nat = m /\ admin'.out = admin.out
  BY <1>1, <1>3, <1>7
<1>11. \A c \in {"nat", "out"} : ToSet(admin'[c]) \subseteq {AdminRule("ACCEPT")}
  BY <1>1, <1>3, <1>10 DEF KInv
<1>12. AdminRulesKept'
  BY <1>1, <1>8, <1>9, <1>10 DEF AdminRulesKept
<1>13. InsertsAbsent(todo', chains')
  BY DEF InsertsAbsent
<1>14. ASSUME running = "start"
       PROVE  /\ Established(chains', todo', applied.bypass, applied.accounts, applied.custom,
                             disturbed)
              /\ NamesOnce => OwnOnce(chains'.own, todo')
  BY <1>4, <1>9, <1>14, StartGoing DEF Established
<1>15. ASSUME running = "stop" PROVE Cleared(chains', todo', accounts)
  BY <1>5, <1>9, <1>15, StopGoing DEF Cleared
<1> QED
  BY <1>9, <1>10, <1>11, <1>12, <1>13, <1>14, <1>15, StepLeaves

LEMMA DeleteListedKeeps == ASSUME Inv, DeleteListed PROVE Inv'
<1> DEFINE c == Head(todo).chain
<1>1. /\ todo # <<>> /\ Head(todo).op = "remove_by_comment" /\ listed # 0
      /\ chains' = [chains EXCEPT ![c] = RemoveAt(chains[c], listed)]
      /\ admin' = IF shifted THEN [admin EXCEPT ![c] = AdminRules(chains'[c])] ELSE admin
      /\ listed' = 0 /\ shifted' = FALSE
      /\ UNCHANGED <<todo, unit, running, config, disturbed, faults>>
  BY DEF DeleteListed, Running, SetChain, DeleteLineNumber
<1>2. /\ Present(c) /\ listed \in 1..Len(chains[c])
      /\ shifted => disturbed /\ c = "nat"
      /\ ~shifted => chains[c][listed].tag = Head(todo).tag
  BY <1>1 DEF Inv, LInv
<1>3. /\ Head(todo) = RemoveByComment(c, Head(todo).tag)
      /\ Head(todo).tag \in {"mitmwall-redirect", "mitmwall-custom"}
      /\ c = "nat" \/ (c = "own" /\ Head(todo).tag = "mitmwall-custom")
  BY <1>1, CommentKinds
<1>4. CASE shifted
  <2> HIDE DEF Inv
  <2> QED
    BY <1>1, <1>2, <1>4, ShiftedLineDeleted
<1>5. CASE ~shifted
  <2>1. todo' = todo /\ StepOf
    BY <1>1, <1>5 DEF StepOf, others
  <2>2. CASE c = "nat"
    <3>1. chains.nat[listed].tag # "admin" /\ Head(todo) = RemoveByComment("nat", chains.nat[listed].tag)
      BY <1>2, <1>3, <1>5, <2>2
    <3> HIDE DEF Inv
    <3> QED
      BY <1>1, <1>2, <2>1, <2>2, <3>1, NatLineDeleted
  <2>3. CASE c = "own" /\ Head(todo).tag = "mitmwall-custom"
    <3>1. HasOwn /\ Head(todo) = RemoveByComment("own", "mitmwall-custom")
          /\ chains.own[listed].tag = "mitmwall-custom"
      BY <1>2, <1>3, <1>5, <2>3 DEF Present
    <3> HIDE DEF Inv
    <3> QED
      BY <1>1, <1>2, <2>1, <2>3, <3>1, CustomDeleted
  <2> QED
    BY <1>3, <2>2, <2>3
<1> QED
  BY <1>4, <1>5

(* After a command that is no removal, no insertion is next.               *)
LEMMA NoInsertNext ==
    ASSUME Inv, todo # <<>>, Head(todo).op # "remove_all", NEW cs
    PROVE  InsertsAbsent(Tail(todo), cs)
<1>1. TInv /\ running \in {"start", "stop"}
      /\ applied.bypass \in SUBSET Configurable /\ applied.custom \in Seq(Services)
  BY AppliedTyped DEF Inv
<1>2. \A c, r : RemoveAll(c, r).op = "remove_all"
  BY DEF RemoveAll
<1>3. CASE running = "start"
  <2>1. Going(todo, applied.bypass, applied.accounts, applied.custom)
    BY <1>3, StartGoing
  <2>2. ASSUME Tail(todo) # <<>>, Head(Tail(todo)).op = "insert" PROVE FALSE
    <3>1. Head(todo) = RemoveAll(Head(Tail(todo)).chain, Head(Tail(todo)).rule)
      BY <1>1, <2>1, <2>2, NextInsert
    <3> QED
      BY <1>2, <3>1
  <2> QED
    BY <2>2 DEF InsertsAbsent
<1>4. CASE running = "stop"
  BY <1>4, StopGoing DEF InsertsAbsent
<1> QED
  BY <1>1, <1>3, <1>4

(* Only a start inserts, adds or creates anything.                         *)
LEMMA OnlyStart ==
    ASSUME Inv, todo # <<>>, Head(todo).op \in {"insert", "append", "add_rule", "ensure_chain"}
    PROVE  /\ running = "start"
           /\ Going(todo, applied.bypass, applied.accounts, applied.custom)
           /\ Established(chains, todo, applied.bypass, applied.accounts, applied.custom, disturbed)
           /\ NamesOnce => OwnOnce(chains.own, todo)
           /\ Head(todo) \in AppliedCommands
           /\ applied.bypass \in SUBSET Configurable /\ applied.custom \in Seq(Services)
           /\ chains \in Chains /\ ChainsKept(chains) /\ KInv /\ AdminRulesKept
<1>1. TInv /\ KInv /\ AdminRulesKept /\ ChainsKept(chains)
  BY DEF Inv, KInv
<1>2. running = "start"
  <2>1. running # "stop"
    BY StopGoing, StopCommandKinds
  <2> QED
    BY <1>1, <2>1, AppliedTyped
<1> QED
  BY <1>1, <1>2, AppliedTyped, StartGoing

LEMMA InsertFirstKeeps == ASSUME Inv, InsertFirst PROVE Inv'
<1> DEFINE b == applied.bypass
           a == applied.accounts
           cu == applied.custom
<1>1. /\ todo # <<>> /\ Head(todo).op = "insert"
      /\ chains' = [chains EXCEPT ![Head(todo).chain] =
                        InsertAt(chains[Head(todo).chain], 1, Head(todo).rule)]
      /\ Done
  BY DEF InsertFirst, Running, SetChain, InsertRule
<1>0. todo' = Tail(todo) /\ StepOf /\ admin' = admin
  BY <1>1, NotListing, DoneIs
<1>2. /\ running = "start" /\ Going(todo, b, a, cu)
      /\ Established(chains, todo, b, a, cu, disturbed) /\ (NamesOnce => OwnOnce(chains.own, todo))
      /\ Head(todo) \in StartCommands(b, a, cu)
      /\ b \in SUBSET Configurable /\ cu \in Seq(Services)
      /\ chains \in Chains /\ ChainsKept(chains) /\ KInv /\ AdminRulesKept
  BY <1>1, OnlyStart DEF AppliedCommands
<1>3. chains.nat \in Seq(Rules) /\ chains.out \in Seq(Rules)
      /\ NatKept(chains.nat) /\ OutKept(chains.out)
  BY <1>2 DEF Chains, ChainsKept
<1>4. Head(todo).rule \notin ToSet(chains[Head(todo).chain])
  BY <1>1, <1>2 DEF KInv, InsertsAbsent
<1>5. InsertsAbsent(todo', chains')
  BY <1>0, <1>1, NoInsertNext
<1>6. OwnBuilt(chains.own, Tail(todo), b, a, cu) /\ (NamesOnce => OwnOnce(chains.own, Tail(todo)))
  BY <1>1, <1>2, OwnBuiltDone, OwnOnceDone DEF Established
<1> HIDE DEF b, a, cu
<1>7. CASE /\ Head(todo) = Insert("nat", Head(todo).rule) /\ Head(todo).chain = "nat"
           /\ Head(todo).rule \in NatRules(b, a, cu)
  <2> DEFINE x == Head(todo).rule
             n == InsertAt(chains.nat, 1, x)
  <2>1. x \in Rules /\ NatKind(x) /\ x.tag # "admin"
    BY <1>2, <1>7, NatRulesKind, RuleSets DEF NatRules
  <2>2. n \in Seq(Rules) /\ NatKept(n)
    <3>1. 1 \in 1..(Len(chains.nat) + 1)
      BY <1>3
    <3>2. n \in Seq(Rules)
      BY <1>3, <2>1, <3>1, InsertAtLines
    <3>3. NatKept(n)
      BY <1>3, <1>4, <1>7, <2>1, NatKeptInsert
    <3> QED
      BY <3>2, <3>3
  <2>3. AdminRules(n) = AdminRules(chains.nat)
    BY <1>3, <2>1, AdminRulesInsert
  <2>4. NatBuilt(n, ToSet(Tail(todo)), b, a, cu, disturbed)
    BY <1>2, <1>3, <1>7, NatBuiltInsert DEF Established
  <2>5. OutBuilt(chains.out, ToSet(Tail(todo)), disturbed)
    BY <1>2, <1>7, OutBuiltDone DEF Established
  <2>6. chains' = [chains EXCEPT !["nat"] = n]
    BY <1>1, <1>7
  <2> HIDE DEF n, x
  <2>7. /\ chains' \in Chains /\ ChainsKept(chains')
        /\ chains'.nat = n /\ chains'.out = chains.out /\ chains'.own = chains.own
    BY <1>2, <2>2, <2>6 DEF Chains, ChainsKept
  <2>8. AdminRulesKept'
    BY <1>0, <1>2, <2>3, <2>7 DEF AdminRulesKept
  <2>9. Established(chains', todo', b, a, cu, disturbed) /\ (NamesOnce => OwnOnce(chains'.own, todo'))
    BY <1>0, <1>6, <2>4, <2>5, <2>7 DEF Established
  <2> QED
    BY <1>0, <1>1, <1>2, <1>5, <2>7, <2>8, <2>9, StepKeeps DEF b, a, cu
<1>8. CASE Head(todo) = Insert("out", JumpRule) /\ Head(todo).chain = "out"
           /\ Head(todo).rule = JumpRule
  <2> DEFINE o == InsertAt(chains.out, 1, JumpRule)
  <2>1. o \in Seq(Rules) /\ OutKept(o)
    <3>1. 1 \in 1..(Len(chains.out) + 1) /\ JumpRule \in Rules
      BY <1>3, RulesTyped
    <3>2. o \in Seq(Rules)
      BY <1>3, <3>1, InsertAtLines
    <3>3. OutKept(o)
      BY <1>3, <1>4, <1>8, OutKeptInsert
    <3> QED
      BY <3>2, <3>3
  <2>2. AdminRules(o) = AdminRules(chains.out)
    BY <1>3, RulesTyped, RuleFields, AdminRulesInsert
  <2>3. NatBuilt(chains.nat, ToSet(Tail(todo)), b, a, cu, disturbed)
    BY <1>1, <1>2, <1>3, <1>8, NatBuiltDone DEF Established
  <2>4. OutBuilt(o, ToSet(Tail(todo)), disturbed)
    BY <1>3, OutBuiltInsert
  <2>5. chains.own # NoChain
    <3>1. EnsureChain \notin ToSet(todo)
      <4>1. Phase(Head(todo)) = 10 /\ Phase(EnsureChain) = 6
        BY <1>8, PhaseValues
      <4>2. ~(Phase(Head(todo)) <= Phase(EnsureChain))
        BY <4>1
      <4> QED
        BY <1>2, <4>2, GoingTail
    <3> QED
      BY <1>2, <3>1 DEF Established, OwnBuilt
  <2>6. chains' = [chains EXCEPT !["out"] = o]
    BY <1>1, <1>8
  <2> HIDE DEF o
  <2>7. /\ chains' \in Chains /\ ChainsKept(chains')
        /\ chains'.nat = chains.nat /\ chains'.out = o /\ chains'.own = chains.own
    BY <1>2, <2>1, <2>5, <2>6 DEF Chains, ChainsKept
  <2>8. AdminRulesKept'
    BY <1>0, <1>2, <2>2, <2>7 DEF AdminRulesKept
  <2>9. Established(chains', todo', b, a, cu, disturbed) /\ (NamesOnce => OwnOnce(chains'.own, todo'))
    BY <1>0, <1>6, <2>3, <2>4, <2>7 DEF Established
  <2> QED
    BY <1>0, <1>1, <1>2, <1>5, <2>7, <2>8, <2>9, StepKeeps DEF b, a, cu
<1>9. \/ /\ Head(todo) = Insert("nat", Head(todo).rule) /\ Head(todo).chain = "nat"
         /\ Head(todo).rule \in NatRules(b, a, cu)
      \/ Head(todo) = Insert("out", JumpRule) /\ Head(todo).chain = "out"
         /\ Head(todo).rule = JumpRule
  BY <1>1, <1>2, StartCommandKinds
<1> QED
  BY <1>7, <1>8, <1>9

(* The managed chain becomes w, and the next command is up.                *)
LEMMA OwnStep ==
    ASSUME Inv, todo # <<>>, Done,
           Head(todo).op \in {"append", "add_rule", "ensure_chain", "flush_chain"},
           NEW w \in Seq(Rules), OwnKept(w), chains' = [chains EXCEPT !["own"] = w],
           running = "start" =>
               /\ OwnBuilt(w, Tail(todo), applied.bypass, applied.accounts, applied.custom)
               /\ NamesOnce => OwnOnce(w, Tail(todo)),
           running = "stop" => OwnCleared(w, ToSet(Tail(todo)))
    PROVE  Inv'
<1>1. /\ todo' = Tail(todo) /\ StepOf /\ admin' = admin
  BY NotListing, DoneIs
<1>2. /\ TInv /\ KInv /\ AdminRulesKept
      /\ running \in {"start", "stop"} /\ chains \in Chains /\ ChainsKept(chains)
      /\ chains.nat \in Seq(Rules)
      /\ applied.bypass \in SUBSET Configurable /\ applied.custom \in Seq(Services)
  BY AppliedTyped DEF Inv, KInv, Chains
<1>3. /\ chains' \in Chains /\ ChainsKept(chains')
      /\ chains'.nat = chains.nat /\ chains'.out = chains.out /\ chains'.own = w
  BY <1>2, FirewallAssumption DEF Chains, ChainsKept
<1>4. AdminRulesKept'
  BY <1>1, <1>2, <1>3 DEF AdminRulesKept
<1>5. InsertsAbsent(todo', chains')
  BY <1>1, NoInsertNext
<1>6. ASSUME running = "start"
      PROVE  /\ Established(chains', todo', applied.bypass, applied.accounts, applied.custom, disturbed)
             /\ NamesOnce => OwnOnce(chains'.own, todo')
  <2>1. NatBuilt(chains.nat, ToSet(Tail(todo)), applied.bypass, applied.accounts, applied.custom, disturbed)
    BY <1>2, <1>6, StartGoing, NatBuiltDone DEF Established
  <2>2. OutBuilt(chains.out, ToSet(Tail(todo)), disturbed)
    BY <1>2, <1>6, StartGoing, OutBuiltDone DEF Established
  <2> QED
    BY <1>1, <1>3, <1>6, <2>1, <2>2 DEF Established
<1>7. ASSUME running = "stop" PROVE Cleared(chains', todo', accounts)
  <2>1. /\ todo \in Seq(StopCommands(accounts)) /\ Cleared(chains, todo, accounts)
    BY <1>7, StopGoing
  <2>2. NatCleared(chains.nat, ToSet(Tail(todo)), accounts)
    BY <2>1, NatClearedDone DEF Cleared
  <2>3. OutCleared(chains.out, ToSet(Tail(todo)))
    BY <2>1, OutClearedDone DEF Cleared
  <2> QED
    BY <1>1, <1>3, <1>7, <2>2, <2>3 DEF Cleared
<1> QED
  BY <1>1, <1>3, <1>4, <1>5, <1>6, <1>7, StepKeeps

(* While rules are added the chain is there.                               *)
LEMMA ChainIsThere ==
    ASSUME Inv, todo # <<>>, running = "start", Phase(Head(todo)) \in 7..12
    PROVE  HasOwn /\ chains.own \in Seq(Rules)
<1>1. /\ Going(todo, applied.bypass, applied.accounts, applied.custom)
      /\ Established(chains, todo, applied.bypass, applied.accounts, applied.custom, disturbed)
      /\ applied.bypass \in SUBSET Configurable /\ applied.custom \in Seq(Services)
      /\ chains \in Chains
  BY StartGoing, AppliedTyped DEF Inv
<1>2. EnsureChain \notin ToSet(todo)
  <2>1. Phase(EnsureChain) = 6
    BY PhaseValues
  <2>2. ~(Phase(Head(todo)) <= Phase(EnsureChain))
    BY <2>1
  <2> QED
    BY <1>1, <2>2, GoingTail
<1> QED
  BY <1>1, <1>2 DEF Established, OwnBuilt, HasOwn, Chains

LEMMA CreateOwnKeeps == ASSUME Inv, CreateOwn PROVE Inv'
<1>1. todo # <<>> /\ Head(todo).op = "ensure_chain" /\ Done
  BY DEF CreateOwn, Running
<1>2. CASE HasOwn
  <2>1. UNCHANGED chains
    BY <1>2 DEF CreateOwn
  <2> QED
    BY <1>1, <1>2, <2>1, NotListing, DoneKeeps
<1>3. CASE ~HasOwn
  <2>1. chains' = [chains EXCEPT !["own"] = <<>>]
    BY <1>3 DEF CreateOwn, SetChain
  <2>2. Head(todo) = EnsureChain
    BY <1>1, OnlyStart, StartCommandKinds DEF AppliedCommands
  <2>3. /\ OwnBuilt(<<>>, Tail(todo), applied.bypass, applied.accounts, applied.custom)
        /\ NamesOnce => OwnOnce(<<>>, Tail(todo))
    BY <1>1, <2>2, OnlyStart, OwnBuiltEmpty, OwnOnceEmpty
  <2>4. running = "start"
    BY <1>1, OnlyStart
  <2> QED
    BY <1>1, <2>1, <2>3, <2>4, OwnStep, OwnKeptEmpty, EmptyOwn
<1> QED
  BY <1>2, <1>3

LEMMA FlushOwnKeeps == ASSUME Inv, FlushOwn PROVE Inv'
<1>1. todo # <<>> /\ Head(todo).op = "flush_chain" /\ Done
  BY DEF FlushOwn, Running
<1>2. TInv /\ running \in {"start", "stop"}
      /\ applied.bypass \in SUBSET Configurable /\ applied.custom \in Seq(Services)
  BY <1>1, AppliedTyped DEF Inv
<1>3. ASSUME running = "start"
      PROVE  /\ HasOwn
             /\ OwnBuilt(<<>>, Tail(todo), applied.bypass, applied.accounts, applied.custom)
             /\ NamesOnce => OwnOnce(<<>>, Tail(todo))
  <2>1. Head(todo) = FlushChain
    BY <1>1, <1>3, StartGoing, StartCommandKinds DEF AppliedCommands
  <2>2. HasOwn
    <3>1. Phase(Head(todo)) \in 7..12
      BY <2>1, PhaseValues
    <3> QED
      BY <1>1, <1>3, <3>1, ChainIsThere
  <2> QED
    BY <1>1, <1>2, <1>3, <2>1, <2>2, StartGoing, OwnBuiltEmpty, OwnOnceEmpty
<1>4. OwnCleared(<<>>, ToSet(Tail(todo)))
  BY DEF OwnCleared
<1>5. CASE HasOwn
  <2>1. chains' = [chains EXCEPT !["own"] = <<>>]
    BY <1>5 DEF FlushOwn, SetChain
  <2> QED
    BY <1>1, <1>3, <1>4, <2>1, OwnStep, OwnKeptEmpty, EmptyOwn
<1>6. CASE ~HasOwn
  <2>1. running = "stop"
    BY <1>2, <1>3, <1>6
  <2>2. todo' = Tail(todo) /\ chains' = chains /\ StepOf /\ admin' = admin
    BY <1>1, <1>6, NotListing, DoneIs DEF FlushOwn
  <2>3. /\ todo \in Seq(StopCommands(accounts)) /\ Cleared(chains, todo, accounts)
    BY <1>1, <2>1, StopGoing
  <2>4. NatCleared(chains.nat, ToSet(Tail(todo)), accounts)
    BY <1>1, <2>3, NatClearedDone DEF Cleared
  <2>5. OutCleared(chains.out, ToSet(Tail(todo)))
    BY <1>1, <2>3, OutClearedDone DEF Cleared
  <2>6. OwnCleared(chains.own, ToSet(Tail(todo)))
    BY <1>6 DEF OwnCleared, HasOwn
  <2>7. Cleared(chains', todo', accounts)
    BY <2>2, <2>4, <2>5, <2>6 DEF Cleared
  <2>8. InsertsAbsent(todo', chains')
    BY <1>1, <2>2, NoInsertNext
  <2>9. chains' \in Chains /\ ChainsKept(chains') /\ AdminRulesKept'
    BY <1>2, <2>2, AppliedTyped DEF Inv, KInv, AdminRulesKept
  <2> QED
    BY <1>1, <2>1, <2>2, <2>7, <2>8, <2>9, StepKeeps
<1> QED
  BY <1>5, <1>6

LEMMA AppendToOwnKeeps == ASSUME Inv, AppendToOwn PROVE Inv'
<1> DEFINE b == applied.bypass
           a == applied.accounts
           cu == applied.custom
           x == Head(todo).rule
           w == Append(chains.own, x)
<1>1. /\ todo # <<>> /\ Head(todo).op = "append" /\ Done
      /\ chains' = [chains EXCEPT !["own"] = w]
  BY DEF AppendToOwn, Running, SetChain, AppendRule
<1>2. /\ running = "start" /\ Going(todo, b, a, cu)
      /\ Established(chains, todo, b, a, cu, disturbed) /\ (NamesOnce => OwnOnce(chains.own, todo))
      /\ b \in SUBSET Configurable /\ cu \in Seq(Services)
      /\ ChainsKept(chains)
      /\ Head(todo) = AppendOwn(x) /\ x \in Managed(b, a)
  BY <1>1, OnlyStart, StartCommandKinds DEF AppliedCommands
<1>3. x \in Rules /\ Harmless(x)
  BY <1>2, RuleSets, ManagedHarmless DEF Managed, AcceptRules
<1>4. HasOwn /\ chains.own \in Seq(Rules)
  <2>1. Phase(Head(todo)) \in 7..12
    BY <1>2, PhaseValues
  <2> QED
    BY <1>1, <1>2, <2>1, ChainIsThere
<1> HIDE DEF b, a, cu, x
<1>5. w = InsertAt(chains.own, Len(chains.own) + 1, x) /\ Len(chains.own) + 1 \in 1..(Len(chains.own) + 1)
  BY <1>3, <1>4, AppendIsInsertAt
<1>6. w \in Seq(Rules)
  BY <1>3, <1>4
<1>7. OwnKept(w)
  BY <1>2, <1>3, <1>4, <1>5, OwnKeptAdd DEF ChainsKept
<1>8. OwnBuilt(w, Tail(todo), b, a, cu)
  BY <1>2, <1>4, OwnBuiltAppend DEF Established
<1>9. NamesOnce => OwnOnce(w, Tail(todo))
  BY <1>2, <1>4, <1>5, OwnOnceAdd
<1> HIDE DEF w
<1> QED
  BY <1>1, <1>2, <1>6, <1>7, <1>8, <1>9, OwnStep DEF b, a, cu

LEMMA AddCustomRuleKeeps == ASSUME Inv, AddCustomRule PROVE Inv'
<1> DEFINE b == applied.bypass
           a == applied.accounts
           cu == applied.custom
           x == Head(todo).rule
           own == chains.own
           line == FindDropLineNumber(own)
           w == IF line # 0 THEN InsertRule(own, line, x) ELSE AppendRule(own, x)
<1>1. /\ todo # <<>> /\ Head(todo).op = "add_rule" /\ Done
      /\ chains' = [chains EXCEPT !["own"] = w]
  BY DEF AddCustomRule, Running, SetChain
<1>2. /\ running = "start" /\ Going(todo, b, a, cu)
      /\ OwnBuilt(own, todo, b, a, cu) /\ (NamesOnce => OwnOnce(own, todo))
      /\ b \in SUBSET Configurable /\ cu \in Seq(Services)
      /\ OwnKept(own)
      /\ Head(todo) = InsertBeforeDrop(x) /\ x \in CustomRules(cu)
  BY <1>1, OnlyStart, StartCommandKinds DEF AppliedCommands, Established, ChainsKept
<1>3. x \in Rules /\ Harmless(x)
  BY <1>2, RuleSets, ManagedHarmless
<1>4. own \in Seq(Rules)
  <2>1. Phase(Head(todo)) \in 7..12
    BY <1>2, PhaseValues
  <2> QED
    BY <1>1, <1>2, <2>1, ChainIsThere
<1> HIDE DEF b, a, cu, x, own
<1>5. PICK k \in 1..(Len(own) + 1) :
          w = InsertAt(own, k, x) /\ \A j \in 1..(k - 1) : own[j] \in NotDrop
  BY <1>3, <1>4, AddRuleLine
<1> HIDE DEF w
<1>6. w \in Seq(Rules)
  BY <1>3, <1>4, <1>5, InsertAtLines
<1>7. OwnKept(w)
  BY <1>2, <1>3, <1>4, <1>5, OwnKeptAdd
<1>8. OwnBuilt(w, Tail(todo), b, a, cu)
  BY <1>2, <1>4, <1>5, OwnBuiltAdd
<1>9. NamesOnce => OwnOnce(w, Tail(todo))
  BY <1>2, <1>4, <1>5, OwnOnceAdd
<1> QED
  BY <1>1, <1>2, <1>6, <1>7, <1>8, <1>9, OwnStep DEF b, a, cu

(* A failed command, the end of the hook, and what others do.              *)
LEMMA ExitKeeps ==
    ASSUME Inv, NEW ok, Exit(ok), UNCHANGED <<chains, config>>, faults' \in 0..MaxFaults
    PROVE  Inv'
<1>1. /\ running' = "none" /\ todo' = <<>> /\ chains' = chains /\ admin' = admin
      /\ listed' = 0 /\ disturbed' = FALSE /\ shifted' = FALSE
      /\ bypass' = bypass /\ custom' = custom /\ accounts' = accounts /\ applied' = applied
      /\ unit' \in {"inactive", "active", "stopping"}
  BY DEF Exit, config
<1>2. TInv /\ KInv /\ AdminRulesKept
  BY DEF Inv
<1>3. TInv'
  BY <1>1, <1>2 DEF TInv, TypeOK
<1>4. KInv' /\ AdminRulesKept'
  BY <1>1, <1>2 DEF KInv, AdminRulesKept, InsertsAbsent
<1>5. SInv' /\ CInv' /\ LInv'
  BY <1>1 DEF SInv, CInv, LInv
<1> QED
  BY <1>3, <1>4, <1>5 DEF Inv

LEMMA FaultCount == ASSUME TInv, Fault PROVE faults' \in 0..MaxFaults
  BY FirewallAssumption DEF TInv, TypeOK, Fault

LEMMA CommandFailsKeeps == ASSUME Inv, CommandFails PROVE Inv'
  BY ExitKeeps, FaultCount DEF CommandFails, Inv

LEMMA HookEndsKeeps == ASSUME Inv, HookEnds PROVE Inv'
<1>1. faults' \in 0..MaxFaults
  BY DEF HookEnds, Inv, TInv, TypeOK
<1> QED
  BY <1>1, ExitKeeps DEF HookEnds

LEMMA StartKeeps == ASSUME Inv, Start PROVE Inv'
<1> DEFINE b == bypass
           a == accounts
           cu == custom
           t == StartProgram(b, a, cu)
<1>1. /\ unit' = "starting" /\ running' = "start" /\ todo' = t /\ chains' = chains
      /\ applied' = [bypass |-> b, custom |-> cu, accounts |-> a]
      /\ bypass' = b /\ custom' = cu /\ accounts' = a /\ admin' = admin /\ faults' = faults
      /\ listed' = listed /\ disturbed' = disturbed /\ shifted' = shifted
  BY DEF Start, others
<1>2. TInv /\ KInv /\ AdminRulesKept /\ listed = 0 /\ ~shifted
  BY DEF Inv, TInv, TypeOK, LInv, Start
<1>3. b \in SUBSET Configurable /\ cu \in Seq(Services) /\ cu \in CustomLists /\ a \subseteq NtpUsers
  BY <1>2, FirewallAssumption DEF TInv, TypeOK
<1>4. applied'.bypass = b /\ applied'.custom = cu /\ applied'.accounts = a
  BY <1>1
<1>5. /\ t \in Seq(StartCommands(b, a, cu))
      /\ Paired(t) /\ Reached(t, StartCommands(b, a, cu))
      /\ Established(chains, t, b, a, cu, disturbed')
      /\ InsertsAbsent(t, chains)
      /\ IsInjective(cu) /\ Resolver \notin b => OwnOnce(chains.own, t)
  BY <1>3, StartBegins
<1> HIDE DEF t, b, a, cu
<1>6. AppliedCommands' = StartCommands(b, a, cu)
  BY <1>4 DEF AppliedCommands
<1>7. NamesOnce' = (IsInjective(cu) /\ Resolver \notin b)
  BY <1>4 DEF NamesOnce
<1>8. TInv'
  BY <1>1, <1>2, <1>3, <1>4, <1>5, <1>6 DEF TInv, TypeOK
<1>9. KInv' /\ AdminRulesKept'
  BY <1>1, <1>2, <1>5 DEF KInv, AdminRulesKept
<1>10. SInv'
  BY <1>1, <1>4, <1>5, <1>6, <1>7 DEF SInv
<1>11. CInv' /\ LInv'
  BY <1>1, <1>2 DEF CInv, LInv
<1> QED
  BY <1>8, <1>9, <1>10, <1>11 DEF Inv

LEMMA StopKeeps == ASSUME Inv, Stop PROVE Inv'
<1> DEFINE a == accounts
           t == StopProgram(a)
<1>1. /\ running' = "stop" /\ todo' = t /\ chains' = chains /\ unit' = unit
      /\ applied' = applied /\ bypass' = bypass /\ custom' = custom /\ accounts' = a
      /\ admin' = admin /\ faults' = faults
      /\ listed' = listed /\ disturbed' = disturbed /\ shifted' = shifted
  BY DEF Stop, config, others
<1>2. TInv /\ KInv /\ AdminRulesKept /\ listed = 0 /\ ~shifted
  BY DEF Inv, TInv, TypeOK, LInv, Stop
<1>3. t \in Seq(StopCommands(a)) /\ Cleared(chains, t, a) /\ InsertsAbsent(t, chains)
  BY StopBegins
<1> HIDE DEF t, a
<1>4. TInv'
  BY <1>1, <1>2, <1>3 DEF TInv, TypeOK, a
<1>5. KInv' /\ AdminRulesKept'
  BY <1>1, <1>2, <1>3 DEF KInv, AdminRulesKept
<1>6. SInv' /\ CInv' /\ LInv'
  BY <1>1, <1>2, <1>3 DEF SInv, CInv, LInv
<1> QED
  BY <1>4, <1>5, <1>6 DEF Inv

(* No hook runs: nothing is to be done.                                    *)
LEMMA IdleKeeps ==
    ASSUME Inv, running' = "none", todo' = <<>>, chains' = chains, admin' = admin,
           applied' = applied, faults' = faults, unit' \in {"inactive", "starting", "active", "stopping"},
           bypass' \subseteq Configurable, custom' \in CustomLists, accounts' \subseteq NtpUsers,
           listed' = 0, disturbed' \in BOOLEAN, shifted' = FALSE
    PROVE  Inv'
<1>1. TInv /\ KInv /\ AdminRulesKept
  BY DEF Inv
<1>2. TInv'
  BY <1>1 DEF TInv, TypeOK
<1>3. KInv' /\ AdminRulesKept'
  BY <1>1 DEF KInv, AdminRulesKept, InsertsAbsent
<1>4. SInv' /\ CInv' /\ LInv'
  BY DEF SInv, CInv, LInv
<1> QED
  BY <1>2, <1>3, <1>4 DEF Inv

LEMMA DeactivateKeeps == ASSUME Inv, Deactivate PROVE Inv'
<1>1. TInv /\ todo = <<>> /\ listed = 0 /\ shifted = FALSE
  BY DEF Inv, TInv, TypeOK, LInv, Deactivate
<1>2. /\ running' = "none" /\ todo' = <<>> /\ chains' = chains /\ admin' = admin
      /\ applied' = applied /\ faults' = faults /\ unit' = "stopping"
      /\ bypass' \subseteq Configurable /\ custom' \in CustomLists /\ accounts' \subseteq NtpUsers
      /\ listed' = 0 /\ disturbed' \in BOOLEAN /\ shifted' = FALSE
  BY <1>1 DEF others, Deactivate, config, TInv, TypeOK
<1> QED
  BY <1>2, IdleKeeps

LEMMA EditConfigKeeps == ASSUME Inv, EditConfig PROVE Inv'
<1>1. TInv /\ todo = <<>> /\ listed = 0 /\ shifted = FALSE
  BY DEF Inv, TInv, TypeOK, LInv, EditConfig
<1>2. /\ running' = "none" /\ todo' = <<>> /\ chains' = chains /\ admin' = admin
      /\ applied' = applied /\ faults' = faults
      /\ unit' \in {"inactive", "starting", "active", "stopping"}
      /\ bypass' \subseteq Configurable /\ custom' \in CustomLists /\ accounts' \subseteq NtpUsers
      /\ listed' = 0 /\ disturbed' \in BOOLEAN /\ shifted' = FALSE
  BY <1>1 DEF others, EditConfig, TInv, TypeOK
<1> QED
  BY <1>2, IdleKeeps

LEMMA AccountChangesKeeps == ASSUME Inv, AccountChanges PROVE Inv'
<1>1. TInv /\ todo = <<>> /\ listed = 0 /\ shifted = FALSE
  BY DEF Inv, TInv, TypeOK, LInv, AccountChanges
<1>2. /\ running' = "none" /\ todo' = <<>> /\ chains' = chains /\ admin' = admin
      /\ applied' = applied /\ faults' = faults
      /\ unit' \in {"inactive", "starting", "active", "stopping"}
      /\ bypass' \subseteq Configurable /\ custom' \in CustomLists /\ accounts' \subseteq NtpUsers
      /\ listed' = 0 /\ disturbed' \in BOOLEAN /\ shifted' = FALSE
  BY <1>1 DEF others, AccountChanges, TInv, TypeOK
<1> QED
  BY <1>2, IdleKeeps

LEMMA RebootKeeps == ASSUME Inv, Reboot PROVE Inv'
<1>1. /\ chains' = [nat |-> admin.nat, out |-> admin.out, own |-> NoChain]
      /\ unit' = "inactive" /\ running' = "none" /\ todo' = <<>>
      /\ bypass' = bypass /\ custom' = custom /\ accounts' = accounts /\ applied' = applied
      /\ admin' = admin /\ faults' \in 0..MaxFaults
      /\ listed' = 0 /\ disturbed' = FALSE /\ shifted' = FALSE
  BY FaultCount DEF Reboot, config, Inv
<1>2. /\ TInv /\ KInv
      /\ admin.nat \in Seq(Rules) /\ admin.out \in Seq(Rules)
      /\ \A r \in ToSet(admin.nat) : r = AdminRule("ACCEPT")
      /\ \A r \in ToSet(admin.out) : r = AdminRule("ACCEPT")
  BY AppliedTyped DEF Inv, KInv
<1>3. AdminRule("ACCEPT").tag = "admin" /\ JumpRule.tag # "admin"
  BY RuleFields
<1>4. /\ \A i \in 1..Len(admin.nat) : admin.nat[i] = AdminRule("ACCEPT")
      /\ \A i \in 1..Len(admin.out) : admin.out[i] = AdminRule("ACCEPT")
  BY <1>2, ToSetMember
<1>5. NatKept(admin.nat)
  BY <1>2, <1>3, <1>4 DEF NatKept, NatKind, Once
<1>6. OutKept(admin.out) /\ JumpRule \notin ToSet(admin.out)
  BY <1>2, <1>3, <1>4 DEF OutKept, Once
<1>7. ChainsKept(chains')
  BY <1>1, <1>5, <1>6 DEF ChainsKept, OwnKept
<1>8. AdminRules(admin.nat) = admin.nat /\ AdminRules(admin.out) = admin.out
  BY <1>2, <1>3, AllAdmin
<1>9. AdminRulesKept'
  BY <1>1, <1>8 DEF AdminRulesKept
<1>10. TInv'
  BY <1>1, <1>2 DEF TInv, TypeOK
<1>11. KInv'
  BY <1>1, <1>2, <1>7 DEF KInv, InsertsAbsent
<1>12. SInv' /\ CInv' /\ LInv'
  BY <1>1 DEF SInv, CInv, LInv
<1> QED
  BY <1>9, <1>10, <1>11, <1>12 DEF Inv

(* At any time: what a start or a stop establishes by which rules a chain  *)
(* holds stays, what it establishes by their order may go.                 *)
LEMMA AdminInsertsKeeps == ASSUME Inv, AdminInserts PROVE Inv'
<1> DEFINE x == AdminRule("ACCEPT")
           b == applied.bypass
           a == applied.accounts
           cu == applied.custom
<1>1. PICK c \in {"nat", "out"} :
          /\ chains' = [chains EXCEPT ![c] = InsertAt(chains[c], 1, x)]
          /\ admin' = [admin EXCEPT ![c] = InsertAt(admin[c], 1, x)]
          /\ shifted' = (shifted \/ (listed # 0 /\ Head(todo).chain = c))
  BY DEF AdminInserts, SetChain, InsertRule
<1>2. /\ running' = running /\ unit' = unit /\ todo' = todo /\ listed' = listed
      /\ bypass' = bypass /\ custom' = custom /\ accounts' = accounts /\ applied' = applied
      /\ disturbed' = (disturbed \/ running # "none")
  BY DEF AdminInserts, config
<1>3. /\ TInv /\ KInv /\ AdminRulesKept /\ SInv /\ CInv /\ LInv
      /\ chains \in Chains /\ ChainsKept(chains)
      /\ admin \in [nat : Seq(Rules), out : Seq(Rules)]
      /\ running \in {"none", "start", "stop"}
      /\ b \in SUBSET Configurable /\ cu \in Seq(Services)
  BY AppliedTyped DEF Inv, KInv, TInv, TypeOK
<1>4. /\ chains.nat \in Seq(Rules) /\ chains.out \in Seq(Rules)
      /\ admin.nat \in Seq(Rules) /\ admin.out \in Seq(Rules)
      /\ NatKept(chains.nat) /\ OutKept(chains.out)
      /\ JumpRule \in ToSet(chains.out) => chains.own # NoChain
  BY <1>3 DEF Chains, ChainsKept
<1>5. x \in Rules /\ x.tag = "admin" /\ x # JumpRule
  BY RulesTyped, RuleFields
<1>6. \A s \in Seq(Rules) : /\ InsertAt(s, 1, x) \in Seq(Rules)
                            /\ Len(InsertAt(s, 1, x)) = Len(s) + 1
                            /\ ToSet(InsertAt(s, 1, x)) = ToSet(s) \cup {x}
                            /\ AdminRules(InsertAt(s, 1, x)) = InsertAt(AdminRules(s), 1, x)
  <2> TAKE s \in Seq(Rules)
  <2>1. 1 \in 1..(Len(s) + 1)
    OBVIOUS
  <2>2. InsertAt(s, 1, x) \in Seq(Rules) /\ Len(InsertAt(s, 1, x)) = Len(s) + 1
    BY <1>5, <2>1, InsertAtLines
  <2>3. ToSet(InsertAt(s, 1, x)) = ToSet(s) \cup {x}
    BY <1>5, <2>1, ToSetInsertAt
  <2>4. AdminRules(InsertAt(s, 1, x)) = InsertAt(AdminRules(s), 1, x)
    BY <1>5, AdminRulesInsert
  <2> QED
    BY <2>2, <2>3, <2>4
<1>7. NatKept(InsertAt(chains.nat, 1, x))
  BY <1>4, <1>5, NatKeptInsert DEF NatKind
<1>8. OutKept(InsertAt(chains.out, 1, x))
  BY <1>4, OutKeptInsert
<1>9. \A r \in LegacyRules \cup NatRules(b, a, cu) : r.tag # "admin"
  <2> HIDE DEF b, a, cu
  <2> QED
    BY <1>3, RuleSets DEF NatRules
<1>10. \A r \in NtpBypasses(accounts) : r.tag # "admin"
  BY <1>3, RuleSets
<1>11. /\ \A d \in {"nat", "out"} : ToSet(admin[d]) \subseteq {x}
       /\ AdminRules(chains.nat) = admin.nat /\ AdminRules(chains.out) = admin.out
  BY <1>3 DEF KInv, AdminRulesKept
<1> HIDE DEF x
<1>12. /\ chains' \in Chains /\ chains'.own = chains.own /\ ChainsKept(chains')
       /\ ToSet(chains'.nat) \subseteq ToSet(chains.nat) \cup {x}
       /\ ToSet(chains'.out) \subseteq ToSet(chains.out) \cup {x}
       /\ c = "nat" => Len(chains'.nat) = Len(chains.nat) + 1
       /\ c # "nat" => chains'.nat = chains.nat
       /\ admin' \in [nat : Seq(Rules), out : Seq(Rules)]
       /\ ToSet(admin'.nat) \subseteq {x} /\ ToSet(admin'.out) \subseteq {x}
       /\ AdminRules(chains'.nat) = admin'.nat /\ AdminRules(chains'.out) = admin'.out
  <2>1. CASE c = "nat"
    <3> DEFINE n == InsertAt(chains.nat, 1, x)
               m == InsertAt(admin.nat, 1, x)
    <3>1. /\ n \in Seq(Rules) /\ NatKept(n) /\ Len(n) = Len(chains.nat) + 1
          /\ ToSet(n) = ToSet(chains.nat) \cup {x}
          /\ m \in Seq(Rules) /\ ToSet(m) = ToSet(admin.nat) \cup {x}
      BY <1>4, <1>6, <1>7
    <3>2. AdminRules(n) = m
      BY <1>4, <1>6, <1>11
    <3>3. chains' = [chains EXCEPT !["nat"] = n] /\ admin' = [admin EXCEPT !["nat"] = m]
      BY <1>1, <2>1
    <3> HIDE DEF n, m
    <3>4. /\ chains' \in Chains /\ ChainsKept(chains')
          /\ chains'.nat = n /\ chains'.out = chains.out /\ chains'.own = chains.own
      BY <1>3, <3>1, <3>3 DEF Chains, ChainsKept
    <3>5. /\ admin' \in [nat : Seq(Rules), out : Seq(Rules)]
          /\ admin'.nat = m /\ admin'.out = admin.out
      BY <1>3, <3>1, <3>3
    <3> QED
      BY <1>11, <2>1, <3>1, <3>2, <3>4, <3>5
  <2>2. CASE c = "out"
    <3> DEFINE o == InsertAt(chains.out, 1, x)
               m == InsertAt(admin.out, 1, x)
    <3>1. /\ o \in Seq(Rules) /\ OutKept(o)
          /\ ToSet(o) = ToSet(chains.out) \cup {x}
          /\ m \in Seq(Rules) /\ ToSet(m) = ToSet(admin.out) \cup {x}
      BY <1>4, <1>6, <1>8
    <3>2. AdminRules(o) = m
      BY <1>4, <1>6, <1>11
    <3>3. chains' = [chains EXCEPT !["out"] = o] /\ admin' = [admin EXCEPT !["out"] = m]
      BY <1>1, <2>2
    <3> HIDE DEF o, m
    <3>4. /\ chains' \in Chains /\ ChainsKept(chains')
          /\ chains'.out = o /\ chains'.nat = chains.nat /\ chains'.own = chains.own
      BY <1>3, <1>4, <1>5, <3>1, <3>3 DEF Chains, ChainsKept
    <3>5. /\ admin' \in [nat : Seq(Rules), out : Seq(Rules)]
          /\ admin'.out = m /\ admin'.nat = admin.nat
      BY <1>3, <3>1, <3>3
    <3> QED
      BY <1>11, <2>2, <3>1, <3>2, <3>4, <3>5
  <2> QED
    BY <2>1, <2>2
<1>13. TInv'
  <2>1. faults' \in 0..MaxFaults
    BY <1>3, FaultCount DEF AdminInserts, TInv, TypeOK
  <2>2. AppliedCommands' = AppliedCommands
    BY <1>2 DEF AppliedCommands
  <2>3. shifted' \in BOOLEAN /\ disturbed' \in BOOLEAN
    BY <1>1, <1>2
  <2> QED
    BY <1>2, <1>3, <1>12, <2>1, <2>2, <2>3 DEF TInv, TypeOK, Chains
<1>14. KInv'
  <2>1. InsertsAbsent(todo', chains')
    <3> SUFFICES ASSUME todo # <<>>, Head(todo).op = "insert"
                 PROVE  Head(todo).rule \notin ToSet(chains'[Head(todo).chain])
      BY <1>2 DEF InsertsAbsent
    <3>1. Head(todo) \in StartCommands(b, a, cu)
      BY OnlyStart DEF AppliedCommands
    <3>2. /\ Head(todo).chain \in {"nat", "out"}
          /\ Head(todo).rule # x
      BY <1>5, <1>9, <3>1, StartCommandKinds
    <3>3. Head(todo).rule \notin ToSet(chains[Head(todo).chain])
      BY <1>3 DEF KInv, InsertsAbsent
    <3> QED
      BY <1>12, <3>2, <3>3
  <2> QED
    BY <1>12, <2>1 DEF KInv, x
<1>15. AdminRulesKept'
  BY <1>12 DEF AdminRulesKept
<1>16. SInv'
  <2> SUFFICES ASSUME running = "start"
               PROVE  /\ Paired(todo) /\ Reached(todo, AppliedCommands)
                      /\ Established(chains', todo, b, a, cu, TRUE)
                      /\ NamesOnce => OwnOnce(chains'.own, todo)
    BY <1>2 DEF SInv, AppliedCommands, NamesOnce
  <2>1. /\ Paired(todo) /\ Reached(todo, AppliedCommands)
        /\ Established(chains, todo, b, a, cu, disturbed)
        /\ NamesOnce => OwnOnce(chains.own, todo)
    BY <1>3 DEF SInv
  <2>2. NatBuilt(chains'.nat, ToSet(todo), b, a, cu, TRUE)
    <3>1. x.tag # "mitmwall-redirect" /\ x \notin LegacyRules
      BY <1>5, <1>9
    <3> HIDE DEF b, a, cu
    <3> QED
      BY <1>12, <2>1, <3>1 DEF Established, NatBuilt
  <2>3. OutBuilt(chains'.out, ToSet(todo), TRUE)
    BY DEF OutBuilt
  <2> QED
    BY <1>12, <2>1, <2>2, <2>3 DEF Established
<1>17. CInv'
  <2> SUFFICES ASSUME running = "stop" PROVE Cleared(chains', todo, accounts)
    BY <1>2 DEF CInv
  <2>1. Cleared(chains, todo, accounts)
    BY <1>3 DEF CInv
  <2>2. NatCleared(chains'.nat, ToSet(todo), accounts)
    <3>1. /\ x \notin LegacyRules \cup NtpBypasses(accounts)
          /\ \A tag \in {"mitmwall-redirect", "mitmwall-custom"} : x.tag # tag
      BY <1>5, <1>9, <1>10
    <3> QED
      BY <1>12, <2>1, <3>1 DEF Cleared, NatCleared
  <2>3. OutCleared(chains'.out, ToSet(todo))
    BY <1>5, <1>12, <2>1 DEF Cleared, OutCleared
  <2> QED
    BY <1>12, <2>1, <2>2, <2>3 DEF Cleared
<1>18. LInv'
  <2>1. listed = 0 => ~shifted'
    BY <1>1, <1>3 DEF LInv
  <2>2. ASSUME listed # 0
        PROVE  /\ todo # <<>> /\ Head(todo).op = "remove_by_comment"
               /\ Present(Head(todo).chain)'
               /\ listed \in 1..Len(chains'[Head(todo).chain])
               /\ shifted' => disturbed' /\ Head(todo).chain = "nat"
               /\ ~shifted' => chains'[Head(todo).chain][listed].tag = Head(todo).tag
    <3>1. /\ todo # <<>> /\ Head(todo).op = "remove_by_comment" /\ Present(Head(todo).chain)
          /\ listed \in 1..Len(chains[Head(todo).chain])
          /\ shifted => disturbed /\ Head(todo).chain = "nat"
          /\ ~shifted => chains[Head(todo).chain][listed].tag = Head(todo).tag
      BY <1>3, <2>2 DEF LInv
    <3>2. Head(todo).chain = "nat" \/ Head(todo).chain = "own"
      BY <3>1, CommentKinds
    <3>3. disturbed'
      BY <1>2, <1>3, <3>1 DEF TInv, TypeOK
    <3>4. Present(Head(todo).chain)'
      BY <1>2, <1>12, <3>1 DEF Present, HasOwn
    <3>5. listed \in 1..Len(chains'[Head(todo).chain])
      <4>1. CASE Head(todo).chain = "nat" /\ c = "nat"
        <5>1. Len(chains'.nat) = Len(chains.nat) + 1 /\ Len(chains.nat) \in Nat
          BY <1>4, <1>12, <4>1
        <5> QED
          BY <3>1, <4>1, <5>1
      <4>2. CASE Head(todo).chain = "nat" /\ c # "nat"
        BY <1>12, <3>1, <4>2
      <4>3. CASE Head(todo).chain = "own"
        BY <1>12, <3>1, <4>3
      <4> QED
        BY <3>2, <4>1, <4>2, <4>3
    <3>6. shifted' => Head(todo).chain = "nat"
      BY <1>1, <3>1, <3>2
    <3>7. ~shifted' => chains'[Head(todo).chain][listed].tag = Head(todo).tag
      BY <1>1, <1>12, <2>2, <3>1, <3>2
    <3> QED
      BY <3>1, <3>3, <3>4, <3>5, <3>6, <3>7
  <2> QED
    BY <1>2, <2>1, <2>2 DEF LInv
<1> QED
  BY <1>13, <1>14, <1>15, <1>16, <1>17, <1>18 DEF Inv

(* What an older release left is of a known kind.                          *)
LEMMA InitInv == Init => Inv
<1> SUFFICES ASSUME Init PROVE Inv
  OBVIOUS
<1> DEFINE l == LegacyRule("https")
           m == LegacyRule("dns-udp")
           old == <<l, m, l>>
<1>1. l \in Rules /\ m \in Rules /\ l \in LegacyRules /\ m \in LegacyRules
      /\ l.tag # "admin" /\ m.tag # "admin"
  <2>1. "https" \in Services /\ "dns-udp" \in Services
        /\ "https" \in ToSet(WebServices) /\ "dns-udp" \in ToSet(DnsServices)
    BY ServicesAre
  <2> QED
    BY <2>1, RulesTyped, RuleFields DEF LegacyRules
<1>2. PICK nat \in {<<>>, old} : chains = [nat |-> nat, out |-> <<>>, own |-> NoChain]
  BY DEF Init
<1> HIDE DEF l, m
<1>3. \A s \in {<<>>, old} : s \in Seq(Rules) /\ \A i \in 1..Len(s) : s[i] = l \/ s[i] = m
  <2>1. old \in Seq(Rules) /\ Len(old) = 3 /\ old[1] = l /\ old[2] = m /\ old[3] = l
    BY <1>1
  <2>2. <<>> \in Seq(Rules) /\ Len(<<>>) = 0
    OBVIOUS
  <2> HIDE DEF old
  <2>3. \A i \in 1..Len(old) : old[i] = l \/ old[i] = m
    <3> TAKE i \in 1..Len(old)
    <3>1. i = 1 \/ i = 2 \/ i = 3
      BY <2>1
    <3> QED
      BY <2>1, <3>1
  <2>4. \A i \in 1..Len(<<>>) : <<>>[i] = l \/ <<>>[i] = m
    BY <2>2
  <2> QED
    BY <2>1, <2>2, <2>3, <2>4
<1>4. \A s \in {<<>>, old} : NatKept(s)
  <2> TAKE s \in {<<>>, old}
  <2>0. s \in Seq(Rules) /\ \A i \in 1..Len(s) : s[i] = l \/ s[i] = m
    BY <1>3
  <2> HIDE DEF old
  <2>1. \A r \in ToSet(s) : r = l \/ r = m
    BY <2>0, ToSetMember
  <2>2. \A r \in Rules : r \notin LegacyRules => Once(s, r)
    BY <1>1, <1>3 DEF Once
  <2> QED
    BY <1>1, <2>1, <2>2 DEF NatKept, NatKind
<1>5. AdminRules(old) = <<>>
  <2> DEFINE a == <<l, m>>
             e == <<l>>
             f == <<m>>
  <2>1. e \in Seq(Rules) /\ f \in Seq(Rules) /\ a \in Seq(Rules)
    BY <1>1
  <2>2. a = e \o f
    BY ConcatPair
  <2>3. old = a \o e
    OBVIOUS
  <2>4. AdminRules(e) = <<>> /\ AdminRules(f) = <<>>
    BY <1>1, AdminRulesOne
  <2> HIDE DEF a, e, f, old
  <2>5. AdminRules(e \o f) = AdminRules(e) \o AdminRules(f)
    BY <2>1, AdminRulesConcat
  <2>6. AdminRules(a \o e) = AdminRules(a) \o AdminRules(e)
    BY <2>1, AdminRulesConcat
  <2>7. <<>> \o <<>> = <<>>
    OBVIOUS
  <2> QED
    BY <2>2, <2>3, <2>4, <2>5, <2>6, <2>7
<1>6. /\ nat \in Seq(Rules) /\ NatKept(nat) /\ AdminRules(nat) = <<>>
  BY <1>3, <1>4, <1>5, AdminRulesNone
<1> HIDE DEF old
<1>7. OutKept(<<>>)
  BY EmptyOwn DEF OutKept, Once
<1>8. ChainsKept(chains)
  BY <1>2, <1>6, <1>7, EmptyOwn DEF ChainsKept, OwnKept
<1>9. TInv
  <2>1. chains \in Chains
    BY <1>2, <1>6, EmptyOwn DEF Chains
  <2>2. /\ todo = <<>> /\ running = "none" /\ unit = "inactive"
        /\ listed = 0 /\ disturbed = FALSE /\ shifted = FALSE
        /\ bypass = {} /\ custom = <<>> /\ accounts = NtpUsers
        /\ applied = [bypass |-> {}, custom |-> <<>>, accounts |-> {}]
        /\ faults \in 0..MaxFaults /\ custom \in CustomLists
        /\ admin \in [nat : Seq(Rules), out : Seq(Rules)]
    BY EmptyOwn, FirewallAssumption DEF Init
  <2> QED
    BY <2>1, <2>2 DEF TInv, TypeOK, Chains
<1>10. KInv
  BY <1>8, EmptyOwn DEF Init, KInv, InsertsAbsent
<1>11. AdminRulesKept
  BY <1>2, <1>6, AdminRulesNone DEF Init, AdminRulesKept
<1>12. SInv /\ CInv /\ LInv
  BY DEF Init, SInv, CInv, LInv
<1> QED
  BY <1>9, <1>10, <1>11, <1>12 DEF Inv

LEMMA InvInductive == Inv /\ [Next]_vars => Inv'
<1> SUFFICES ASSUME Inv, [Next]_vars PROVE Inv'
  OBVIOUS
<1>1. CASE DeleteCopy
  BY <1>1, DeleteCopyKeeps
<1>2. CASE AllDeleted
  BY <1>2, AllDeletedKeeps
<1>3. CASE ListTagged \/ DeleteListed
  BY <1>3, ListTaggedKeeps, DeleteListedKeeps
<1>4. CASE NothingTagged
  BY <1>4, NothingTaggedKeeps
<1>5. CASE InsertFirst
  BY <1>5, InsertFirstKeeps
<1>6. CASE AppendToOwn
  BY <1>6, AppendToOwnKeeps
<1>7. CASE CreateOwn
  BY <1>7, CreateOwnKeeps
<1>8. CASE FlushOwn
  BY <1>8, FlushOwnKeeps
<1>9. CASE AddCustomRule
  BY <1>9, AddCustomRuleKeeps
<1>10. CASE Forward
  BY <1>10, ForwardKeeps
<1>11. CASE CommandFails
  BY <1>11, CommandFailsKeeps
<1>12. CASE HookEnds
  BY <1>12, HookEndsKeeps
<1>13. CASE Start
  BY <1>13, StartKeeps
<1>14. CASE Deactivate
  BY <1>14, DeactivateKeeps
<1>15. CASE Stop
  BY <1>15, StopKeeps
<1>16. CASE Reboot
  BY <1>16, RebootKeeps
<1>17. CASE EditConfig
  BY <1>17, EditConfigKeeps
<1>18. CASE AccountChanges
  BY <1>18, AccountChangesKeeps
<1>19. CASE AdminInserts
  BY <1>19, AdminInsertsKeeps
<1>20. CASE UNCHANGED vars
  BY <1>20 DEF vars, config, others, Inv, TInv, TypeOK, KInv, SInv, CInv, LInv, AdminRulesKept,
     AppliedCommands, NamesOnce, Present, HasOwn
<1> QED
  BY <1>1, <1>2, <1>3, <1>4, <1>5, <1>6, <1>7, <1>8, <1>9, <1>10, <1>11, <1>12, <1>13, <1>14,
     <1>15, <1>16, <1>17, <1>18, <1>19, <1>20 DEF Next, Command

(* Whatever fails, is killed, is edited or is inserted by others, what the *)
(* chains hold and what a start or a stop has done so far fit together.    *)
THEOREM ProgramsKeepTheChains == Spec => []Inv
<1>1. Init => Inv
  BY InitInv
<1>2. Inv /\ [Next]_vars => Inv'
  BY InvInductive
<1> QED
  BY <1>1, <1>2, PTL DEF Spec

(* The chains hold rules, and nothing is to be done when no hook runs.     *)
THEOREM FirewallTypes == Spec => []TypeOK
<1>1. Inv => TypeOK
  BY DEF Inv, TInv
<1> QED
  BY <1>1, ProgramsKeepTheChains, PTL

(* Whatever the hook deletes, inserts, flushes or leaves half done, it     *)
(* takes a rule of other management only by a line number that another     *)
(* insertion has shifted since remove_by_comment listed it.                *)
THEOREM HookKeepsAdminRules == Spec => []AdminRulesKept
<1>1. Inv => AdminRulesKept
  BY DEF Inv
<1> QED
  BY <1>1, ProgramsKeepTheChains, PTL

(* A start that completes leaves no rule twice, over whatever it found:    *)
(* ensure_first deletes every copy before it inserts, add_rule runs on the *)
(* chain the start flushed.                                                *)
THEOREM StartsDoNotAccumulate == Spec => []NothingAccumulates
<1>1. ASSUME Inv, StartIsDone, NEW c \in DOMAIN chains, c = "own" => NamesOnce,
             NEW i \in DOMAIN chains[c], NEW j \in DOMAIN chains[c],
             chains[c][i] = chains[c][j], chains[c][i].tag # "admin"
      PROVE  i = j
  <2>1. /\ running = "start" /\ todo = <<>> /\ TInv /\ SInv
        /\ ChainsKept(chains) /\ chains \in Chains
        /\ applied.bypass \in SUBSET Configurable /\ applied.custom \in Seq(Services)
    BY <1>1, AppliedTyped DEF Inv, KInv, StartIsDone
  <2>2. ToSet(todo) = {}
    BY <2>1, EmptyOwn
  <2>3. c \in {"nat", "out", "own"}
    BY <2>1 DEF Chains
  <2>4. Established(chains, todo, applied.bypass, applied.accounts, applied.custom, disturbed)
        /\ (NamesOnce => OwnOnce(chains.own, todo))
    BY <2>1 DEF SInv
  <2>5. CASE c = "nat"
    <3>1. chains.nat \in Seq(Rules) /\ NatKept(chains.nat)
      BY <2>1 DEF Chains, ChainsKept
    <3>2. DOMAIN chains.nat = 1..Len(chains.nat) /\ chains.nat[i] \in Rules
      BY <1>1, <2>5, <3>1
    <3>3. chains.nat[i] \in ToSet(chains.nat)
      BY <1>1, <2>5, <3>1, <3>2, ToSetMember
    <3>4. chains.nat[i] \notin LegacyRules
      BY <2>2, <2>4, <3>3 DEF Established, NatBuilt
    <3>5. Once(chains.nat, chains.nat[i])
      BY <1>1, <2>5, <3>1, <3>2, <3>4 DEF NatKept
    <3> QED
      BY <1>1, <2>5, <3>2, <3>5 DEF Once
  <2>6. CASE c = "out"
    <3>1. chains.out \in Seq(Rules) /\ OutKept(chains.out)
      BY <2>1 DEF Chains, ChainsKept
    <3>2. DOMAIN chains.out = 1..Len(chains.out)
      BY <3>1
    <3>3. chains.out[i] \in ToSet(chains.out)
      BY <1>1, <2>6, <3>1, <3>2, ToSetMember
    <3>4. chains.out[i] = JumpRule
      BY <1>1, <2>6, <3>1, <3>3, RuleFields DEF OutKept
    <3> QED
      BY <1>1, <2>6, <3>1, <3>2, <3>4 DEF OutKept, Once
  <2>7. CASE c = "own"
    <3>1. chains.own # NoChain
      BY <2>2, <2>4 DEF Established, OwnBuilt
    <3>2. chains.own \in Seq(Rules)
      BY <2>1, <3>1 DEF Chains
    <3>3. DOMAIN chains.own = 1..Len(chains.own)
      BY <3>2
    <3>4. Distinct(chains.own)
      BY <1>1, <2>2, <2>4, <2>7 DEF OwnOnce
    <3> QED
      BY <1>1, <2>7, <3>3, <3>4 DEF Distinct
  <2> QED
    BY <2>3, <2>5, <2>6, <2>7
<1>2. Inv => NothingAccumulates
  BY <1>1 DEF NothingAccumulates
<1> QED
  BY <1>2, ProgramsKeepTheChains, PTL

(* A stop that completes leaves the administrator's rules alone in both    *)
(* built-in chains and its own chain empty, whatever any start, stop or    *)
(* older release left, but for bypasses of accounts that are gone.         *)
THEOREM CompleteStopsClean == Spec => []StopCleans
<1>1. ASSUME Inv, running = "stop", todo = <<>> PROVE Clean
  <2>1. /\ TInv /\ CInv /\ AdminRulesKept
        /\ ChainsKept(chains) /\ chains \in Chains
    BY <1>1, AppliedTyped DEF Inv, KInv
  <2>2. ToSet(todo) = {}
    BY <1>1, EmptyOwn
  <2>3. Cleared(chains, todo, accounts)
    BY <1>1, <2>1 DEF CInv
  <2>4. /\ chains.nat \in Seq(Rules) /\ NatKept(chains.nat)
        /\ chains.out \in Seq(Rules) /\ OutKept(chains.out)
    BY <2>1 DEF Chains, ChainsKept
  <2>5. ASSUME NEW r \in ToSet(chains.nat) PROVE r.tag = "admin" \/ Orphaned(r)
    <3>1. NatKind(r)
      BY <2>4 DEF NatKept
    <3>2. /\ r \notin LegacyRules \cup NtpBypasses(accounts)
          /\ r.tag # "mitmwall-redirect" /\ r.tag # "mitmwall-custom"
      BY <2>2, <2>3, <2>5 DEF Cleared, NatCleared
    <3>3. r = AdminRule("ACCEPT") \/ r \in NtpBypasses(NtpUsers)
      BY <3>1, <3>2 DEF NatKind
    <3>4. CASE r = AdminRule("ACCEPT")
      BY <3>4, RuleFields
    <3>5. CASE r \in NtpBypasses(NtpUsers)
      <4>1. \A a : r \in NtpBypasses(a) <=>
                \E s \in ToSet(DnsServices), u \in NtpUsers \cap a : r = NtpDnsBypassRule(s, u)
        BY DEF NtpBypasses
      <4>2. PICK s \in ToSet(DnsServices), u \in NtpUsers : r = NtpDnsBypassRule(s, u)
        BY <3>5, <4>1
      <4>3. u \notin accounts
        BY <3>2, <4>1, <4>2
      <4> QED
        BY <4>2, <4>3 DEF Orphaned
    <3> QED
      BY <3>3, <3>4, <3>5
  <2>6. \A i \in DOMAIN chains.nat : chains.nat[i].tag = "admin" \/ Orphaned(chains.nat[i])
    <3> TAKE i \in DOMAIN chains.nat
    <3>1. chains.nat[i] \in ToSet(chains.nat)
      BY <2>4, ToSetMember
    <3> QED
      BY <2>5, <3>1
  <2>7. chains.out = admin.out
    <3>1. \A r \in ToSet(chains.out) : r.tag = "admin"
      BY <2>2, <2>3, <2>4, RuleFields DEF OutKept, Cleared, OutCleared
    <3>2. AdminRules(chains.out) = chains.out
      BY <2>4, <3>1, AllAdmin
    <3> QED
      BY <2>1, <3>2 DEF AdminRulesKept
  <2>8. chains.own \in {NoChain, <<>>}
    BY <2>2, <2>3 DEF Cleared, OwnCleared
  <2>9. AdminRules(chains.nat) = admin.nat
    BY <2>1 DEF AdminRulesKept
  <2> QED
    BY <2>6, <2>7, <2>8, <2>9 DEF Clean
<1>2. Inv => StopCleans
  BY <1>1 DEF StopCleans
<1> QED
  BY <1>2, ProgramsKeepTheChains, PTL

-----------------------------------------------------------------------------
(* What a chain does to a packet                                           *)

(* The first rule that matches decides, else the policy.                   *)
LEMMA JudgeCases ==
    ASSUME NEW s \in Seq(Rules), NEW p, NEW policy
    PROVE  \/ /\ Judge(s, p, policy) = policy
              /\ \A i \in 1..Len(s) : ~Matching(s[i], p)
           \/ \E i \in 1..Len(s) : /\ Matching(s[i], p) /\ Judge(s, p, policy) = s[i].verdict
                                   /\ \A j \in 1..(i - 1) : ~Matching(s[j], p)
<1> DEFINE I == {i \in 1..Len(s) : Matching(s[i], p)}
           v == Judge(s, p, policy)
<1>1. v = IF (IF I # {} THEN Min(I) ELSE 0) = 0 THEN policy
          ELSE s[IF I # {} THEN Min(I) ELSE 0].verdict
  BY DEF Judge, FirstMatch, SelectInSeq
<1> HIDE DEF v
<1>2. I \subseteq 1..Len(s) /\ Len(s) \in Nat
  OBVIOUS
<1>3. CASE I = {}
  <2>1. v = policy
    BY <1>1, <1>3
  <2> QED
    BY <1>3, <2>1 DEF v
<1>4. CASE I # {}
  <2> DEFINE m == Min(I)
  <2> HIDE DEF I
  <2>1. m \in I /\ \A j \in 1..(m - 1) : j \notin I
    BY <1>2, <1>4, FirstPosition
  <2> HIDE DEF m
  <2>2. m \in 1..Len(s) /\ m # 0
    BY <1>2, <2>1
  <2>3. v = s[m].verdict
    BY <1>1, <1>4, <2>2 DEF m
  <2>4. Matching(s[m], p)
    BY <2>1 DEF I
  <2>5. \A j \in 1..(m - 1) : ~Matching(s[j], p)
    <3> TAKE j \in 1..(m - 1)
    <3>1. j \in 1..Len(s)
      BY <1>2, <2>2
    <3> QED
      BY <2>1, <3>1 DEF I
  <2> QED
    BY <2>2, <2>3, <2>4, <2>5 DEF v
<1> QED
  BY <1>3, <1>4

(* A rule that matches, and what the rules above it would decide.          *)
LEMMA JudgeAbove ==
    ASSUME NEW s \in Seq(Rules), NEW r, NEW G, Above(s, r, G), NEW p, NEW policy, NEW V,
           Matching(r, p), r.verdict \in V,
           \A g \in G : Matching(g, p) => g.verdict \in V
    PROVE  Judge(s, p, policy) \in V
<1>1. PICK k \in 1..Len(s) : s[k] = r /\ \A j \in 1..(k - 1) : s[j] \in G
  BY DEF Above
<1>2. PICK i \in 1..Len(s) : /\ Matching(s[i], p) /\ Judge(s, p, policy) = s[i].verdict
                             /\ \A j \in 1..(i - 1) : ~Matching(s[j], p)
  <2>1. Matching(s[k], p)
    BY <1>1
  <2> HIDE DEF Matching
  <2> QED
    BY <1>1, <2>1, JudgeCases
<1>3. i <= k
  <2>1. ~(k \in 1..(i - 1))
    BY <1>1, <1>2
  <2> QED
    BY <1>1, <2>1
<1>4. CASE i = k
  BY <1>1, <1>2, <1>4
<1>5. CASE i # k
  <2>1. i \in 1..(k - 1)
    BY <1>3, <1>5
  <2> QED
    BY <1>1, <1>2, <2>1
<1> QED
  BY <1>4, <1>5

(* The filter OUTPUT chain with the managed chain in place of the jump.    *)
LEMMA FilterParts ==
    ASSUME NEW out \in Seq(Rules), NEW own, JumpRule \in ToSet(out) => own \in Seq(Rules)
    PROVE  LET f == FlattenSeq(Each(LAMBDA r : IF r = JumpRule THEN own ELSE <<r>>, out))
           IN  /\ f \in Seq(Rules)
               /\ out = <<>> => f = <<>>
               /\ out # <<>> => \E rest \in Seq(Rules) :
                                    f = (IF out[1] = JumpRule THEN own ELSE <<out[1]>>) \o rest
               /\ \A e \in ToSet(f) : \/ e \in ToSet(out) /\ e # JumpRule
                                      \/ JumpRule \in ToSet(out) /\ e \in ToSet(own)
<1> DEFINE h(x) == IF x = JumpRule THEN own ELSE <<x>>
           ss == [i \in DOMAIN out |-> h(out[i])]
           f == FlattenSeq(ss)
<1>1. f = FlattenSeq(Each(LAMBDA r : IF r = JumpRule THEN own ELSE <<r>>, out))
  BY DEF Each
<1>2. /\ DOMAIN out = 1..Len(out) /\ Len(out) \in Nat
      /\ \A i \in 1..Len(out) : out[i] \in ToSet(out) /\ out[i] \in Rules
  BY ToSetMember
<1>3. \A i \in 1..Len(out) : h(out[i]) \in Seq(Rules)
  BY <1>2
<1>4. \A x : ToSet(h(x)) = IF x = JumpRule THEN ToSet(own) ELSE {x}
  <2>1. \A x : ToSet(<<x>>) = {x}
    BY DEF ToSet
  <2> QED
    BY <2>1
<1>5. h(out[1]) = IF out[1] = JumpRule THEN own ELSE <<out[1]>>
  OBVIOUS
<1> HIDE DEF h
<1>6. ss \in [1..Len(out) -> Seq(Rules)] /\ \A i \in 1..Len(out) : ss[i] = h(out[i])
  BY <1>2, <1>3
<1>7. ss \in Seq(Seq(Rules)) /\ Len(ss) = Len(out)
  <2> HIDE DEF ss
  <2> QED
    BY <1>2, <1>6, ListTyped
<1>8. out = <<>> => f = <<>>
  <2> SUFFICES ASSUME out = <<>> PROVE f = <<>>
    OBVIOUS
  <2>1. ss = <<>>
    <3> HIDE DEF ss
    <3> QED
      BY <1>7
  <2> QED
    BY <2>1, FlattenEmpty
<1> HIDE DEF ss
<1>9. f \in Seq(Rules)
  BY <1>7, FlattenTyped
<1>10. ASSUME out # <<>> PROVE \E rest \in Seq(Rules) : f = h(out[1]) \o rest
  <2> DEFINE tt == Tail(ss)
             s1 == ss[1]
             hh == <<s1>>
  <2>1. Len(ss) >= 1 /\ 1 \in 1..Len(out)
    BY <1>2, <1>7, <1>10
  <2>2. tt \in Seq(Seq(Rules)) /\ s1 \in Seq(Rules) /\ hh \in Seq(Seq(Rules))
    BY <1>7, <2>1
  <2>3. ss = hh \o tt
    BY <1>7, <2>1
  <2> HIDE DEF tt
  <2>4. FlattenSeq(hh \o tt) = FlattenSeq(hh) \o FlattenSeq(tt)
    <3> HIDE DEF hh
    <3> QED
      BY <2>2, FlattenConcat
  <2>5. FlattenSeq(hh) = s1
    BY <2>2, FlattenSingle
  <2>6. s1 = h(out[1])
    BY <1>6, <2>1
  <2>7. FlattenSeq(tt) \in Seq(Rules)
    BY <2>2, FlattenTyped
  <2> QED
    BY <2>3, <2>4, <2>5, <2>6, <2>7
<1>11. ASSUME NEW e \in ToSet(f)
       PROVE  \/ e \in ToSet(out) /\ e # JumpRule
              \/ JumpRule \in ToSet(out) /\ e \in ToSet(own)
  <2>1. PICK i \in 1..Len(ss) : e \in ToSet(ss[i])
    BY <1>7, <1>11, FlattenMembers
  <2>2. i \in 1..Len(out) /\ e \in ToSet(h(out[i]))
    BY <1>6, <1>7, <2>1
  <2> QED
    BY <1>2, <1>4, <2>2
<1> HIDE DEF f
<1> QED
  BY <1>1, <1>5, <1>8, <1>9, <1>10, <1>11

-----------------------------------------------------------------------------
(* The policy                                                              *)

(* Which packets each rule matches.                                        *)
LEMMA RuleMatches ==
    ASSUME NEW p \in Packets
    PROVE  /\ \A s, b : Matching(RedirectRule(s, b), p) <=>
                  p.user \notin {Proxy} \cup b /\ p.service = s /\ p.place # "loopback"
           /\ \A s, b : Matching(DnsRedirectRule(s, b), p) <=>
                  p.user \notin {Proxy, Resolver} \cup b /\ p.service = s
           /\ \A s, u : Matching(NtpDnsBypassRule(s, u), p) <=> p.user = u /\ p.service = s
           /\ \A s, u : Matching(Rule("none", {u}, {s}, Places, "ACCEPT"), p) <=>
                  p.user = u /\ p.service = s
           /\ \A s : Matching(CustomRule(s), p) <=> p.service = s /\ p.place = "custom"
           /\ \A u : Matching(OwnerRule(u), p) <=> p.user = u
           /\ \A s, ps : Matching(ServiceRule(s, ps), p) <=> p.service = s /\ p.place \in ps
           /\ Matching(ReplyRule, p) <=> p.conn = "reply"
           /\ Matching(LoopbackRule, p) <=> p.place = "loopback"
           /\ Matching(DropRule, p)
<1>1. p.user \in Users /\ p.service \in Services /\ p.place \in Places /\ p.conn \in Conns
  BY DEF Packets
<1>2. \A t, us, ss, ps, v : Matching(Rule(t, us, ss, ps, v), p) <=>
          p.user \in us /\ p.service \in ss /\ p.place \in ps
  BY <1>1 DEF Matching, Rule
<1>3. Matching(ReplyRule, p) <=> p.conn = "reply"
  BY <1>1 DEF Matching, ReplyRule, Rule
<1>4. /\ \A s, b : Matching(RedirectRule(s, b), p) <=>
             p.user \notin {Proxy} \cup b /\ p.service = s /\ p.place # "loopback"
      /\ \A s, b : Matching(DnsRedirectRule(s, b), p) <=>
             p.user \notin {Proxy, Resolver} \cup b /\ p.service = s
  BY <1>1, <1>2 DEF RedirectRule, DnsRedirectRule
<1>5. /\ \A s, u : Matching(NtpDnsBypassRule(s, u), p) <=> p.user = u /\ p.service = s
      /\ \A s, u : Matching(Rule("none", {u}, {s}, Places, "ACCEPT"), p) <=>
             p.user = u /\ p.service = s
      /\ \A s : Matching(CustomRule(s), p) <=> p.service = s /\ p.place = "custom"
  BY <1>1, <1>2 DEF NtpDnsBypassRule, CustomRule
<1>6. /\ \A u : Matching(OwnerRule(u), p) <=> p.user = u
      /\ \A s, ps : Matching(ServiceRule(s, ps), p) <=> p.service = s /\ p.place \in ps
      /\ Matching(LoopbackRule, p) <=> p.place = "loopback"
      /\ Matching(DropRule, p)
  BY <1>1, <1>2 DEF OwnerRule, ServiceRule, LoopbackRule, DropRule
<1> QED
  BY <1>3, <1>4, <1>5, <1>6

(* What a configuration sends to the proxy, and what it leaves untouched.  *)
OpenedBy(p, cu) == p.place = "custom" /\ p.service \in ToSet(cu)

ProxyBound(p, b, a, cu) ==
    /\ ~OpenedBy(p, cu)
    /\ p.user \notin {Proxy} \cup b
    /\ \/ p.service \in ToSet(WebServices) /\ p.place # "loopback"
       \/ p.service \in ToSet(DnsServices) /\ p.user \notin {Resolver} \cup a

LetThrough(p, b, a, cu) ==
    \/ p.conn = "reply" \/ p.place = "loopback" \/ OpenedBy(p, cu)
    \/ p.user \in {Proxy, Resolver} \cup b
    \/ p.user \in a /\ p.service \in {"ntp"} \cup ToSet(DnsServices)
    \/ IsIpv6 /\ p.service = "icmp6"
    \/ p.place = "local" /\ p.service \in {"proxy", "dnsproxy-udp", "dnsproxy-tcp", "webui"}

(* The nat chain a start has built redirects exactly what belongs to the   *)
(* proxy.                                                                  *)
LEMMA NatDecides ==
    ASSUME NEW b \in SUBSET Configurable, NEW a \in SUBSET NtpUsers, NEW cu \in Seq(Services),
           NEW nat \in Seq(Rules), NatKept(nat), NatBuilt(nat, {}, b, a, cu, FALSE),
           NEW p \in Packets
    PROVE  Judge(nat, p, "ACCEPT") = "REDIRECT" <=> ProxyBound(p, b, a, cu)
<1> DEFINE v == Judge(nat, p, "ACCEPT")
           V == Verdicts \ {"REDIRECT"}
<1>1. /\ \A r \in LegacyRules : r \notin ToSet(nat)
      /\ \A r \in ToSet(nat) : r.tag = "mitmwall-redirect" => r \in Redirects(b)
      /\ \A r \in Redirects(b) : Above(nat, r, NatRules(b, a, cu))
      /\ \A r \in NtpBypasses(a) \cup CustomRules(cu) : Above(nat, r, NotRedirect)
  BY DEF NatBuilt
<1>2. /\ \A x : \A r : r \in NtpBypasses(x) <=>
             \E s \in ToSet(DnsServices), u \in NtpUsers \cap x : r = NtpDnsBypassRule(s, u)
      /\ \A r : r \in CustomRules(cu) <=> \E s \in ToSet(cu) : r = CustomRule(s)
      /\ \A r : r \in Redirects(b) <=>
             \/ \E s \in ToSet(DnsServices) : r = DnsRedirectRule(s, b)
             \/ \E s \in ToSet(WebServices) : r = RedirectRule(s, b)
  BY DEF NtpBypasses, CustomRules, Redirects
<1>3. p.user \in Users /\ p.service \in Services /\ p.place \in Places
  BY DEF Packets
<1>4. ASSUME NEW r \in NtpBypasses(a) \cup CustomRules(cu), Matching(r, p)
      PROVE  v # "REDIRECT"
  <2>1. Above(nat, r, NotRedirect) /\ r.verdict = "ACCEPT"
    BY <1>1, <1>4, RuleSets
  <2>2. r.verdict \in V /\ \A g \in NotRedirect : g.verdict \in V
    BY <2>1 DEF Verdicts, NotRedirect, Rules
  <2>3. v \in V
    <3> HIDE DEF V, v
    <3>1. \A g \in NotRedirect : Matching(g, p) => g.verdict \in V
      BY <2>2
    <3>2. Judge(nat, p, "ACCEPT") \in V
      BY <1>4, <2>1, <2>2, <3>1, JudgeAbove
    <3> QED
      BY <3>2 DEF v
  <2> QED
    BY <2>3
<1>5. ASSUME v = "REDIRECT" PROVE ProxyBound(p, b, a, cu)
  <2>1. PICK i \in 1..Len(nat) : Matching(nat[i], p) /\ nat[i].verdict = "REDIRECT"
    <3> HIDE DEF Matching
    <3>1. v # "ACCEPT"
      BY <1>5
    <3> HIDE DEF v
    <3> QED
      BY <1>5, <3>1, JudgeCases DEF v
  <2> DEFINE r == nat[i]
  <2>2. r \in ToSet(nat)
    BY ToSetMember
  <2> HIDE DEF r
  <2>3. r \in Redirects(b)
    <3>1. NatKind(r) /\ r \notin LegacyRules
      BY <1>1, <2>2 DEF NatKept
    <3>2. r.verdict = "REDIRECT"
      BY <2>1 DEF r
    <3>3. r # AdminRule("ACCEPT") /\ r \notin NtpBypasses(NtpUsers)
      BY <3>2, RuleFields, RuleSets
    <3> QED
      BY <1>1, <2>2, <3>1, <3>2, <3>3 DEF NatKind
  <2>4. Matching(r, p)
    BY <2>1 DEF r
  <2>5. /\ p.user \notin {Proxy} \cup b
        /\ \/ p.service \in ToSet(WebServices) /\ p.place # "loopback"
           \/ p.service \in ToSet(DnsServices) /\ p.user # Resolver
    <3> HIDE DEF Matching
    <3> QED
      BY <1>2, <2>3, <2>4, RuleMatches
  <2>6. ~OpenedBy(p, cu)
    <3> HIDE DEF Matching, v
    <3> QED
      BY <1>2, <1>4, <1>5, RuleMatches DEF OpenedBy
  <2>7. p.service \in ToSet(DnsServices) => p.user \notin a
    <3> HIDE DEF Matching, v
    <3> QED
      BY <1>2, <1>4, <1>5, RuleMatches
  <2>8. ToSet(WebServices) \cap ToSet(DnsServices) = {}
    BY ServicesAre
  <2> QED
    BY <2>5, <2>6, <2>7, <2>8 DEF ProxyBound
<1>6. ASSUME ProxyBound(p, b, a, cu) PROVE v = "REDIRECT"
  <2> HIDE DEF Matching
  <2>1. PICK r \in Redirects(b) : Matching(r, p)
    <3>1. CASE p.service \in ToSet(WebServices) /\ p.place # "loopback"
      BY <1>2, <1>6, <3>1, RuleMatches DEF ProxyBound
    <3>2. CASE p.service \in ToSet(DnsServices) /\ p.user \notin {Resolver} \cup a
      BY <1>2, <1>6, <3>2, RuleMatches DEF ProxyBound
    <3> QED
      BY <1>6, <3>1, <3>2 DEF ProxyBound
  <2>2. \A g \in NatRules(b, a, cu) : Matching(g, p) => g.verdict \in {"REDIRECT"}
    <3> SUFFICES ASSUME NEW g \in NatRules(b, a, cu), Matching(g, p)
                 PROVE  g.verdict \in {"REDIRECT"}
      OBVIOUS
    <3>1. CASE g \in Redirects(b)
      BY <3>1, RuleSets
    <3>2. g \notin NtpBypasses(a)
      <4>1. ToSet(WebServices) \cap ToSet(DnsServices) = {}
        BY ServicesAre
      <4> QED
        BY <1>2, <1>6, <4>1, RuleMatches DEF ProxyBound
    <3>3. g \notin CustomRules(cu)
      BY <1>2, <1>6, RuleMatches DEF ProxyBound, OpenedBy
    <3> QED
      BY <3>1, <3>2, <3>3 DEF NatRules
  <2>3. Above(nat, r, NatRules(b, a, cu)) /\ r.verdict \in {"REDIRECT"}
    BY <1>1, <2>1, RuleSets
  <2>4. Judge(nat, p, "ACCEPT") \in {"REDIRECT"}
    BY <2>1, <2>2, <2>3, JudgeAbove
  <2> QED
    BY <2>4
<1> QED
  BY <1>5, <1>6

(* The accepting rules of the managed chain are those of the policy.       *)
LEMMA AcceptsAre ==
    ASSUME NEW b, NEW a \in SUBSET NtpUsers, NEW cu, NEW p \in Packets
    PROVE  (\E r \in ManagedAccepts(b, a) \cup CustomRules(cu) : Matching(r, p))
           <=> LetThrough(p, b, a, cu)
<1>1. /\ p.place \in Places
      /\ ToSet(DnsServices) = {"dns-udp", "dns-tcp"}
  BY ServicesAre DEF Packets
<1>2. /\ \A r : r \in CustomRules(cu) <=> \E s \in ToSet(cu) : r = CustomRule(s)
      /\ \A r : r \in ListenerRules <=>
             \E s \in {"proxy", "dnsproxy-udp", "dnsproxy-tcp", "webui"} :
                 r = ServiceRule(s, {"loopback", "local"})
      /\ \A r : r \in NtpFilterRules(a) <=>
             \E u \in NtpUsers \cap a, s \in {"ntp", "dns-udp", "dns-tcp"} :
                 r = Rule("none", {u}, {s}, Places, "ACCEPT")
  BY DEF CustomRules, ListenerRules, NtpFilterRules
<1>3. \A r : r \in ManagedAccepts(b, a) <=>
          \/ r \in {ReplyRule, OwnerRule(Proxy), OwnerRule(Resolver), LoopbackRule}
          \/ \E u \in b : r = OwnerRule(u)
          \/ r \in NtpFilterRules(a) \/ r \in ListenerRules
          \/ IsIpv6 /\ r = ServiceRule("icmp6", Places)
  BY DEF ManagedAccepts
<1> HIDE DEF Matching
<1>4. ASSUME NEW r \in ManagedAccepts(b, a) \cup CustomRules(cu), Matching(r, p)
      PROVE  LetThrough(p, b, a, cu)
  <2>1. CASE r \in {ReplyRule, OwnerRule(Proxy), OwnerRule(Resolver), LoopbackRule}
    BY <1>4, <2>1, RuleMatches DEF LetThrough
  <2>2. CASE \E u \in b : r = OwnerRule(u)
    BY <1>4, <2>2, RuleMatches DEF LetThrough
  <2>3. CASE r \in NtpFilterRules(a)
    <3>1. PICK u \in NtpUsers \cap a, s \in {"ntp", "dns-udp", "dns-tcp"} :
              r = Rule("none", {u}, {s}, Places, "ACCEPT")
      BY <1>2, <2>3
    <3>2. p.user = u /\ p.service = s
      BY <1>4, <3>1, RuleMatches
    <3> QED
      BY <1>1, <3>2 DEF LetThrough
  <2>4. CASE r \in ListenerRules
    BY <1>2, <1>4, <2>4, RuleMatches DEF LetThrough
  <2>5. CASE IsIpv6 /\ r = ServiceRule("icmp6", Places)
    BY <1>4, <2>5, RuleMatches DEF LetThrough
  <2>6. CASE r \in CustomRules(cu)
    BY <1>2, <1>4, <2>6, RuleMatches DEF LetThrough, OpenedBy
  <2> QED
    BY <1>3, <2>1, <2>2, <2>3, <2>4, <2>5, <2>6
<1>5. ASSUME LetThrough(p, b, a, cu)
      PROVE  \E r \in ManagedAccepts(b, a) \cup CustomRules(cu) : Matching(r, p)
  <2>1. CASE p.conn = "reply"
    BY <1>3, <2>1, RuleMatches
  <2>2. CASE p.place = "loopback"
    BY <1>3, <2>2, RuleMatches
  <2>3. CASE OpenedBy(p, cu)
    BY <1>2, <2>3, RuleMatches DEF OpenedBy
  <2>4. CASE p.user \in {Proxy, Resolver} \cup b
    BY <1>3, <2>4, RuleMatches
  <2>5. CASE p.user \in a /\ p.service \in {"ntp"} \cup ToSet(DnsServices)
    <3> DEFINE r == Rule("none", {p.user}, {p.service}, Places, "ACCEPT")
    <3>1. r \in NtpFilterRules(a)
      BY <1>1, <1>2, <2>5
    <3>2. Matching(r, p)
      <4> HIDE DEF r
      <4> QED
        BY RuleMatches DEF r
    <3> QED
      BY <1>3, <3>1, <3>2
  <2>6. CASE IsIpv6 /\ p.service = "icmp6"
    BY <1>1, <1>3, <2>6, RuleMatches
  <2>7. CASE p.place = "local" /\ p.service \in {"proxy", "dnsproxy-udp", "dnsproxy-tcp", "webui"}
    <3> DEFINE r == ServiceRule(p.service, {"loopback", "local"})
    <3>1. r \in ListenerRules
      BY <1>2, <2>7
    <3>2. Matching(r, p)
      BY <2>7, RuleMatches
    <3> QED
      BY <1>3, <3>1, <3>2
  <2> QED
    BY <1>5, <2>1, <2>2, <2>3, <2>4, <2>5, <2>6, <2>7 DEF LetThrough
<1> QED
  BY <1>4, <1>5

(* The filter chain a start has built drops exactly what the policy blocks.*)
LEMMA FilterDecides ==
    ASSUME NEW b \in SUBSET Configurable, NEW a \in SUBSET NtpUsers, NEW cu \in Seq(Services),
           NEW own \in Seq(Rules), NEW rest \in Seq(Rules),
           NEW t, ToSet(t) = {}, t = <<>>, OwnBuilt(own, t, b, a, cu),
           NEW p \in Packets
    PROVE  Judge(own \o rest, p, "ACCEPT") = "DROP" <=> ~LetThrough(p, b, a, cu)
<1> DEFINE G == ManagedAccepts(b, a) \cup CustomRules(cu)
           V == Verdicts \ {"DROP"}
           f == own \o rest
<1>1. /\ ToSet(own) \subseteq G \cup {DropRule}
      /\ \A r \in G : Above(own, r, NotDrop)
      /\ DropRule \in ToSet(own)
  BY DEF OwnBuilt, Managed
<1>2. f \in Seq(Rules)
  BY ConcatLines
<1>3. \A r \in G : r.verdict = "ACCEPT"
  BY RuleSets DEF AcceptRules
<1>4. (\E r \in G : Matching(r, p)) <=> LetThrough(p, b, a, cu)
  BY AcceptsAre
<1>5. ASSUME NEW r \in G, Matching(r, p) PROVE Judge(f, p, "ACCEPT") # "DROP"
  <2>1. r.verdict \in V /\ \A g \in NotDrop : g.verdict \in V
    BY <1>3, <1>5 DEF Verdicts, NotDrop, Rules
  <2>2. Above(own, r, NotDrop)
    BY <1>1, <1>5
  <2> HIDE DEF Matching, Above
  <2>3. Above(f, r, NotDrop)
    BY <2>2, AboveConcat
  <2>4. \A g \in NotDrop : Matching(g, p) => g.verdict \in V
    BY <2>1
  <2> HIDE DEF f, V
  <2>5. Judge(f, p, "ACCEPT") \in V
    BY <1>2, <1>5, <2>1, <2>3, <2>4, JudgeAbove
  <2> QED
    BY <2>5 DEF V
<1>6. ASSUME \A r \in G : ~Matching(r, p) PROVE Judge(f, p, "ACCEPT") = "DROP"
  <2>1. Matching(DropRule, p)
    BY RuleMatches
  <2> HIDE DEF Matching, Above, G
  <2>2. Above(own, DropRule, G)
    BY <1>1, AboveFirst
  <2>3. Above(f, DropRule, G)
    BY <2>2, AboveConcat
  <2>4. DropRule.verdict \in {"DROP"}
    BY RuleFields
  <2>5. \A g \in G : Matching(g, p) => g.verdict \in {"DROP"}
    BY <1>6
  <2> HIDE DEF f
  <2>6. Judge(f, p, "ACCEPT") \in {"DROP"}
    BY <1>2, <2>1, <2>3, <2>4, <2>5, JudgeAbove
  <2> QED
    BY <2>6
<1> HIDE DEF Matching, G
<1> QED
  BY <1>4, <1>5, <1>6

(* When the last command of a start has run, every packet of every account *)
(* meets exactly the policy, whatever earlier starts, stops, failures and  *)
(* other rules left behind, unless other management inserted rules while   *)
(* the start ran.                                                          *)
THEOREM StartsEnforceThePolicy == Spec => []PolicyEnforced
<1>1. ASSUME Inv, StartIsDone, ~disturbed, NEW p \in Packets
      PROVE  Outcome(Filter, p) = IF ToProxy(p) THEN "proxied"
                                  ELSE IF ToDestination(p) THEN "direct" ELSE "blocked"
  <2> DEFINE b == applied.bypass
             a == applied.accounts
             cu == applied.custom
  <2>1. /\ TInv /\ SInv /\ ChainsKept(chains) /\ running = "start" /\ todo = <<>>
        /\ b \in SUBSET Configurable /\ a \in SUBSET NtpUsers /\ cu \in Seq(Services)
        /\ chains \in Chains
    BY <1>1, AppliedTyped DEF Inv, KInv, StartIsDone, TInv
  <2>2. ToSet(todo) = {} /\ Established(chains, todo, b, a, cu, FALSE)
    BY <1>1, <2>1, EmptyOwn DEF SInv, TInv, TypeOK
  <2>3. /\ chains.nat \in Seq(Rules) /\ NatKept(chains.nat)
        /\ NatBuilt(chains.nat, {}, b, a, cu, FALSE)
        /\ chains.out \in Seq(Rules) /\ OutBuilt(chains.out, {}, FALSE)
        /\ OwnBuilt(chains.own, todo, b, a, cu)
    BY <2>1, <2>2 DEF Chains, ChainsKept, Established
  <2>4. chains.own \in Seq(Rules)
    BY <2>1, <2>2, <2>3 DEF OwnBuilt, Chains
  <2>5. chains.out # <<>> /\ chains.out[1] = JumpRule
    <3>1. PICK i \in 1..Len(chains.out) :
              chains.out[i] = JumpRule /\ \A j \in 1..(i - 1) : chains.out[j] \in {}
      BY <2>3 DEF OutBuilt, Above
    <3>2. ~(1 \in 1..(i - 1)) /\ Len(chains.out) \in Nat
      BY <2>3, <3>1
    <3>3. i = 1
      BY <3>1, <3>2
    <3> QED
      BY <3>1, <3>3
  <2>6. PICK rest \in Seq(Rules) : Filter = chains.own \o rest
    BY <2>3, <2>4, <2>5, FilterParts DEF Filter
  <2> HIDE DEF b, a, cu
  <2>7. \A q \in Packets : Judge(Filter, q, "ACCEPT") = "DROP" <=> ~LetThrough(q, b, a, cu)
    <3> TAKE q \in Packets
    <3>1. Judge(chains.own \o rest, q, "ACCEPT") = "DROP" <=> ~LetThrough(q, b, a, cu)
      BY <2>1, <2>2, <2>3, <2>4, FilterDecides
    <3> QED
      BY <2>6, <3>1
  <2>8. Judge(chains.nat, p, "ACCEPT") = "REDIRECT" <=> ProxyBound(p, b, a, cu)
    BY <2>1, <2>3, NatDecides
  <2>9. ToProxy(p) <=> Redirected(p)
    BY <2>8 DEF ToProxy, ProxyBound, OpenedBy, Opened, Redirected, b, a, cu
  <2>10. ToDestination(p) <=> LetThrough(p, b, a, cu)
    BY DEF ToDestination, LetThrough, OpenedBy, Opened, b, a, cu
  <2>11. CASE ToProxy(p)
    <3> DEFINE q == [p EXCEPT !.service = Listener(p.service), !.place = "local"]
    <3>1. Listener(p.service) \in {"proxy", "dnsproxy-udp", "dnsproxy-tcp"}
      BY <2>11, ServicesAre DEF ToProxy, Listener
    <3>2. q \in Packets /\ q.place = "local" /\ q.service = Listener(p.service)
      BY <3>1 DEF Packets, Services, Places
    <3>3. LetThrough(q, b, a, cu)
      BY <3>1, <3>2 DEF LetThrough
    <3> HIDE DEF q
    <3>4. Judge(Filter, q, "ACCEPT") # "DROP"
      BY <2>7, <3>2, <3>3
    <3>5. Outcome(Filter, p) = "proxied"
      BY <2>9, <2>11, <3>4 DEF Outcome, q
    <3> QED
      BY <2>11, <3>5
  <2>12. CASE ~ToProxy(p)
    <3>1. Outcome(Filter, p) = IF Judge(Filter, p, "ACCEPT") = "DROP" THEN "blocked" ELSE "direct"
      BY <2>9, <2>12 DEF Outcome
    <3> QED
      BY <2>7, <2>10, <2>12, <3>1
  <2> QED
    BY <2>11, <2>12
<1>2. Inv => PolicyEnforced
  <2> HIDE DEF Inv
  <2> SUFFICES ASSUME Inv, StartIsDone, ~disturbed, NEW p \in Packets
               PROVE  Outcome(Filter, p) = IF ToProxy(p) THEN "proxied"
                                           ELSE IF ToDestination(p) THEN "direct" ELSE "blocked"
    BY DEF PolicyEnforced
  <2> QED
    BY <1>1
<1> QED
  BY <1>2, ProgramsKeepTheChains, PTL

-----------------------------------------------------------------------------
(* When the policy is open                                                 *)

(* The jump is first in the filter chain and the managed chain drops.      *)
Shut(cs) == cs.out # <<>> /\ cs.out[1] = JumpRule /\ DropRule \in ToSet(cs.own)

LEMMA OpenIs == Inv => (Open <=> Ordinary # {} /\ ~Shut(chains))
<1> SUFFICES ASSUME Inv PROVE Open <=> Ordinary # {} /\ ~Shut(chains)
  OBVIOUS
<1>1. /\ ChainsKept(chains) /\ chains \in Chains
      /\ chains.out \in Seq(Rules) /\ OutKept(chains.out) /\ OwnKept(chains.own)
  BY AppliedTyped DEF Inv, KInv, ChainsKept, Chains
<1>2. JumpRule \in ToSet(chains.out) => chains.own \in Seq(Rules) /\ chains.own # NoChain
  BY <1>1 DEF ChainsKept, Chains
<1>3. /\ Filter \in Seq(Rules)
      /\ chains.out = <<>> => Filter = <<>>
      /\ chains.out # <<>> => \E rest \in Seq(Rules) :
             Filter = (IF chains.out[1] = JumpRule THEN chains.own ELSE <<chains.out[1]>>) \o rest
      /\ \A e \in ToSet(Filter) : \/ e \in ToSet(chains.out) /\ e # JumpRule
                                  \/ JumpRule \in ToSet(chains.out) /\ e \in ToSet(chains.own)
  <2>1. JumpRule \in ToSet(chains.out) => chains.own \in Seq(Rules)
    BY <1>2
  <2> QED
    BY <1>1, <2>1, FilterParts DEF Filter
<1>4. \A p \in Packets : /\ Matching(AdminRule("ACCEPT"), p) /\ Matching(DropRule, p)
  BY DEF Packets, Matching, AdminRule, DropRule, Rule
<1>5. Probes \subseteq Packets
  <2>1. Ordinary \subseteq Users /\ {"https", "dns-udp", "other"} \subseteq Services
        /\ {"remote"} \subseteq Places /\ {"new", "original"} \subseteq Conns
    BY UsersAre, ServicesAre DEF Places, Conns
  <2> QED
    BY <2>1 DEF Probes, Packets
<1>6. ASSUME Shut(chains), NEW p \in Probes PROVE Outcome(Filter, p) # "direct"
  <2>1. /\ chains.out # <<>> /\ chains.out[1] = JumpRule /\ DropRule \in ToSet(chains.own)
        /\ JumpRule \in ToSet(chains.out)
    <3>1. chains.out # <<>> /\ chains.out[1] = JumpRule /\ DropRule \in ToSet(chains.own)
      BY <1>6 DEF Shut
    <3>2. 1 \in 1..Len(chains.out)
      BY <1>1, <3>1
    <3> QED
      BY <1>1, <3>1, <3>2, ToSetMember
  <2>2. chains.own \in Seq(Rules)
    BY <1>2, <2>1
  <2>3. PICK rest \in Seq(Rules) : Filter = chains.own \o rest
    BY <1>3, <2>1
  <2> DEFINE G == ToSet(chains.own) \ {DropRule}
  <2>4. ToSet(chains.own) \subseteq G \cup {DropRule}
    OBVIOUS
  <2>5. \A g \in G : Matching(g, p) => g.verdict \in {"DROP"}
    BY <1>1, <1>2, <1>6, <2>1 DEF OwnKept, Harmless
  <2> HIDE DEF G, Matching, Above
  <2>6. Above(chains.own, DropRule, G)
    BY <2>1, <2>2, <2>4, AboveFirst
  <2>7. Above(Filter, DropRule, G)
    BY <2>2, <2>3, <2>6, AboveConcat
  <2>8. Matching(DropRule, p) /\ DropRule.verdict \in {"DROP"}
    BY <1>4, <1>5, RuleFields
  <2>9. Judge(Filter, p, "ACCEPT") \in {"DROP"}
    BY <1>3, <2>5, <2>7, <2>8, JudgeAbove
  <2>10. CASE Redirected(p)
    BY <2>10 DEF Outcome
  <2>11. CASE ~Redirected(p)
    BY <2>9, <2>11 DEF Outcome
  <2> QED
    BY <2>10, <2>11
<1>7. ASSUME ~Shut(chains), NEW u \in Ordinary PROVE Open
  <2> DEFINE p == [user |-> u, service |-> "other", place |-> "remote", conn |-> "original"]
             v == Judge(Filter, p, "ACCEPT")
  <2>1. p \in Probes /\ p \in Packets /\ ~Redirected(p)
    BY <1>5 DEF Probes, Redirected
  <2> HIDE DEF p
  <2>2. v # "DROP"
    <3>1. CASE chains.out = <<>>
      <4>1. Filter = <<>> /\ <<>> \in Seq(Rules) /\ Len(<<>>) = 0
        BY <1>3, <3>1
      <4> HIDE DEF Matching
      <4>2. ~(\E i \in 1..Len(Filter) : TRUE)
        BY <4>1
      <4>3. v = "ACCEPT"
        BY <1>3, <4>2, JudgeCases
      <4> QED
        BY <4>3
    <3>2. CASE chains.out # <<>> /\ chains.out[1] # JumpRule
      <4> DEFINE A == AdminRule("ACCEPT")
                 h == <<A>>
                 G == {}
      <4>1. chains.out[1] = A
        <5>1. 1 \in 1..Len(chains.out)
          BY <1>1, <3>2
        <5>2. chains.out[1] \in ToSet(chains.out)
          BY <1>1, <5>1, ToSetMember
        <5> QED
          BY <1>1, <3>2, <5>2 DEF OutKept
      <4>2. PICK rest \in Seq(Rules) : Filter = h \o rest
        BY <1>3, <3>2, <4>1
      <4>3. A \in Rules /\ A.verdict \in {"ACCEPT"} /\ Matching(A, p)
        BY <1>4, <2>1, RulesTyped, RuleFields
      <4> HIDE DEF A
      <4>4. h \in Seq(Rules) /\ Above(h, A, G)
        BY <4>3 DEF Above
      <4>6. \A g \in G : Matching(g, p) => g.verdict \in {"ACCEPT"}
        OBVIOUS
      <4> HIDE DEF h, G, Above, Matching
      <4>5. Above(Filter, A, G)
        BY <4>2, <4>4, AboveConcat
      <4>7. Judge(Filter, p, "ACCEPT") \in {"ACCEPT"}
        BY <1>3, <4>3, <4>5, <4>6, JudgeAbove
      <4> QED
        BY <4>7
    <3>3. CASE chains.out # <<>> /\ chains.out[1] = JumpRule
      <4>1. DropRule \notin ToSet(chains.own)
        BY <1>7, <3>3 DEF Shut
      <4>2. \A e \in ToSet(Filter) : e.verdict # "DROP"
        BY <1>1, <1>2, <1>3, <4>1, RuleFields DEF OutKept, OwnKept, Harmless
      <4>3. \A i \in 1..Len(Filter) : Filter[i].verdict # "DROP"
        BY <1>3, <4>2, ToSetMember
      <4> HIDE DEF Matching
      <4> QED
        BY <1>3, <4>3, JudgeCases
    <3> QED
      BY <3>1, <3>2, <3>3
  <2>3. Outcome(Filter, p) = "direct"
    BY <2>1, <2>2 DEF Outcome
  <2> QED
    BY <2>1, <2>3 DEF Open
<1>8. Open => Ordinary # {}
  BY DEF Open, Probes
<1>9. Open => ~Shut(chains)
  BY <1>6 DEF Open
<1> QED
  BY <1>7, <1>8, <1>9

LEMMA InsertionChanges ==
    ASSUME NEW s \in Seq(Rules), NEW x \in Rules
    PROVE  InsertAt(s, 1, x) # s
<1>1. 1 \in 1..(Len(s) + 1)
  OBVIOUS
<1>2. InsertAt(s, 1, x) \in Seq(Rules) /\ Len(InsertAt(s, 1, x)) = Len(s) + 1
  BY <1>1, InsertAtLines
<1>3. Len(s) \in Nat
  OBVIOUS
<1> QED
  BY <1>2, <1>3

(* A command of a start that is neither the flush nor the removal of the   *)
(* jump leaves a shut chain shut.                                          *)
LEMMA StaysShut ==
    ASSUME Inv, Shut(chains), running = "start", todo # <<>>,
           Head(todo) \notin {FlushChain, RemoveAll("out", JumpRule)},
           DeleteCopy \/ DeleteListed \/ InsertFirst \/ AppendToOwn \/ CreateOwn
               \/ FlushOwn \/ AddCustomRule
    PROVE  Shut(chains')
<1> DEFINE b == applied.bypass
           a == applied.accounts
           cu == applied.custom
<1>1. /\ TInv /\ KInv /\ ChainsKept(chains) /\ chains \in Chains
      /\ b \in SUBSET Configurable /\ cu \in Seq(Services)
      /\ Head(todo) \in StartCommands(b, a, cu)
  BY AppliedTyped, StartGoing DEF Inv, KInv, AppliedCommands
<1>2. /\ chains.out # <<>> /\ chains.out[1] = JumpRule /\ DropRule \in ToSet(chains.own)
      /\ chains.out \in Seq(Rules) /\ JumpRule \in ToSet(chains.out)
  <2>1. /\ chains.out # <<>> /\ chains.out[1] = JumpRule /\ DropRule \in ToSet(chains.own)
        /\ chains.out \in Seq(Rules)
    BY <1>1 DEF Shut, Chains
  <2>2. 1 \in 1..Len(chains.out)
    BY <2>1
  <2> QED
    BY <2>1, <2>2, ToSetMember
<1>3. HasOwn /\ chains.own \in Seq(Rules)
  BY <1>1, <1>2 DEF ChainsKept, Chains, HasOwn
<1>4. ASSUME NEW nat, chains' = [chains EXCEPT !["nat"] = nat] PROVE Shut(chains')
  BY <1>1, <1>2, <1>4 DEF Shut, Chains
<1>5. ASSUME NEW own, chains' = [chains EXCEPT !["own"] = own], DropRule \in ToSet(own)
      PROVE  Shut(chains')
  BY <1>1, <1>2, <1>5 DEF Shut, Chains
<1> HIDE DEF b, a, cu
<1>6. CASE DeleteCopy
  <2>1. /\ Head(todo).op = "remove_all"
        /\ chains' = [chains EXCEPT ![Head(todo).chain] =
                          DeleteRule(chains[Head(todo).chain], Head(todo).rule)]
    BY <1>6 DEF DeleteCopy, Running, SetChain
  <2>2. Head(todo).chain = "nat"
    BY <2>1, RemovalKinds
  <2> QED
    BY <1>4, <2>1, <2>2
<1>7. CASE DeleteListed
  <2>1. /\ Head(todo).op = "remove_by_comment" /\ listed # 0
        /\ chains' = [chains EXCEPT ![Head(todo).chain] =
                          RemoveAt(chains[Head(todo).chain], listed)]
    BY <1>7 DEF DeleteListed, Running, SetChain, DeleteLineNumber
  <2>2. CASE Head(todo).chain = "nat"
    BY <1>4, <2>1, <2>2
  <2>3. CASE Head(todo).chain = "own" /\ Head(todo).tag = "mitmwall-custom"
    <3>1. listed \in 1..Len(chains.own) /\ chains.own[listed].tag = "mitmwall-custom"
      BY <2>1, <2>3 DEF Inv, LInv
    <3>2. DropRule # chains.own[listed]
      BY <3>1, RuleFields
    <3>3. DropRule \in ToSet(RemoveAt(chains.own, listed))
      BY <1>2, <1>3, <3>1, <3>2, ToSetRemoveAt
    <3> QED
      BY <1>5, <2>1, <2>3, <3>3
  <2> QED
    BY <2>1, <2>2, <2>3, CommentKinds
<1>8. CASE InsertFirst
  <2>1. /\ Head(todo).op = "insert"
        /\ chains' = [chains EXCEPT ![Head(todo).chain] =
                          InsertRule(chains[Head(todo).chain], 1, Head(todo).rule)]
    BY <1>8 DEF InsertFirst, Running, SetChain
  <2>2. Head(todo).rule \notin ToSet(chains[Head(todo).chain])
    BY <1>1, <2>1 DEF KInv, InsertsAbsent
  <2>3. Head(todo).chain = "nat"
    BY <1>1, <1>2, <2>1, <2>2, StartCommandKinds
  <2> QED
    BY <1>4, <2>1, <2>3
<1>9. CASE AppendToOwn
  <2>1. /\ Head(todo).op = "append"
        /\ chains' = [chains EXCEPT !["own"] = Append(chains.own, Head(todo).rule)]
    BY <1>9 DEF AppendToOwn, Running, SetChain, AppendRule
  <2>2. Head(todo).rule \in Rules
    <3>1. Head(todo).rule \in Managed(b, a)
      BY <1>1, <2>1, StartCommandKinds
    <3>2. \A r \in Managed(b, a) : r \in Rules
      BY <1>1, RuleSets DEF Managed, AcceptRules
    <3> QED
      BY <3>1, <3>2
  <2>3. DropRule \in ToSet(Append(chains.own, Head(todo).rule))
    BY <1>2, <1>3, <2>2, ToSetAppend
  <2> QED
    BY <1>5, <2>1, <2>3
<1>10. CASE CreateOwn
  <2>1. chains' = chains
    BY <1>3, <1>10 DEF CreateOwn
  <2> QED
    BY <2>1
<1>11. CASE FlushOwn
  <2>1. Head(todo).op = "flush_chain"
    BY <1>11 DEF FlushOwn, Running
  <2> QED
    BY <1>1, <2>1, StartCommandKinds
<1>12. CASE AddCustomRule
  <2> DEFINE x == Head(todo).rule
             line == FindDropLineNumber(chains.own)
             w == IF line # 0 THEN InsertRule(chains.own, line, x) ELSE AppendRule(chains.own, x)
  <2>1. Head(todo).op = "add_rule" /\ chains' = [chains EXCEPT !["own"] = w]
    BY <1>12 DEF AddCustomRule, Running, SetChain
  <2>2. x \in Rules
    BY <1>1, <2>1, StartCommandKinds, RuleSets
  <2> HIDE DEF x
  <2>3. PICK k \in 1..(Len(chains.own) + 1) : w = InsertAt(chains.own, k, x)
    BY <1>3, <2>2, AddRuleLine
  <2> HIDE DEF w
  <2>4. ToSet(w) = ToSet(chains.own) \cup {x}
    <3> HIDE DEF line
    <3> QED
      BY <1>3, <2>2, <2>3, ToSetInsertAt
  <2>5. DropRule \in ToSet(w)
    BY <1>2, <2>4
  <2> QED
    BY <1>5, <2>1, <2>5
<1> QED
  BY <1>6, <1>7, <1>8, <1>9, <1>10, <1>11, <1>12

(* Once the policy is closed, a start opens it again for an ordinary       *)
(* account only between the flush of the managed chain and its DROP rule,  *)
(* and between the removal of the jump and its insertion.                  *)
THEOREM StartsOpenOnlyInRebuild == Spec => OpensOnlyInRebuild
<1> DEFINE Opens == /\ running = "start" /\ running' = "start" /\ chains' # chains /\ todo # <<>>
                    /\ Head(todo) \notin {FlushChain, RemoveAll("out", JumpRule)}
                    /\ admin'.out = admin.out
                    /\ Open'
<1>1. Inv => (Open <=> Ordinary # {} /\ ~Shut(chains))
  BY OpenIs
<1>2. Inv' => (Open' <=> Ordinary # {} /\ ~Shut(chains'))
  <2> HIDE DEF Inv, Open, Shut
  <2>1. (Inv => (Open <=> Ordinary # {} /\ ~Shut(chains)))'
    BY <1>1, PTL
  <2> QED
    BY <2>1
<1>3. ASSUME Inv, Inv', Next, Opens PROVE Open
  <2>1. CASE AdminInserts
    <3>1. PICK c \in {"nat", "out"} :
              /\ chains' = [chains EXCEPT ![c] = InsertAt(chains[c], 1, AdminRule("ACCEPT"))]
              /\ admin' = [admin EXCEPT ![c] = InsertAt(admin[c], 1, AdminRule("ACCEPT"))]
      BY <2>1 DEF AdminInserts, SetChain, InsertRule
    <3>2. /\ chains \in Chains /\ admin.out \in Seq(Rules) /\ AdminRule("ACCEPT") \in Rules
          /\ admin \in [nat : Seq(Rules), out : Seq(Rules)]
      BY <1>3, AppliedTyped, RulesTyped DEF Inv, TInv, TypeOK
    <3>3. InsertAt(admin.out, 1, AdminRule("ACCEPT")) # admin.out
      BY <3>2, InsertionChanges
    <3>4. c = "nat"
      BY <1>3, <3>1, <3>2, <3>3
    <3>5. chains'.out = chains.out /\ chains'.own = chains.own
      BY <3>1, <3>2, <3>4 DEF Chains
    <3> QED
      BY <1>1, <1>2, <1>3, <3>5 DEF Shut
  <2>2. CASE ~AdminInserts
    <3>1. DeleteCopy \/ DeleteListed \/ InsertFirst \/ AppendToOwn \/ CreateOwn
              \/ FlushOwn \/ AddCustomRule
      <4>1. ~(CommandFails \/ HookEnds \/ Reboot)
        BY <1>3 DEF CommandFails, HookEnds, Exit, Reboot
      <4>2. ~(AllDeleted \/ ListTagged \/ NothingTagged \/ Forward)
        BY <1>3 DEF AllDeleted, ListTagged, NothingTagged, Forward
      <4>3. ~(Start \/ Deactivate \/ Stop \/ EditConfig \/ AccountChanges)
        BY <1>3 DEF Start, Deactivate, Stop, EditConfig, AccountChanges
      <4> QED
        BY <1>3, <2>2, <4>1, <4>2, <4>3 DEF Next, Command
    <3>2. Ordinary # {} /\ ~Shut(chains')
      BY <1>2, <1>3
    <3>3. ~Shut(chains)
      <4> HIDE DEF Shut
      <4> QED
        BY <1>3, <3>1, <3>2, StaysShut
    <3> QED
      BY <1>1, <1>3, <3>2, <3>3
  <2> QED
    BY <2>1, <2>2
<1>4. Inv /\ Inv' /\ [Next]_vars => [Opens => Open]_vars
  <2> HIDE DEF Inv, Next, Opens, Open
  <2> QED
    BY <1>3
<1>5. Spec => [][Opens => Open]_vars
  <2> HIDE DEF Inv, Next, Opens, Open
  <2> QED
    BY <1>4, ProgramsKeepTheChains, PTL DEF Spec
<1> QED
  BY <1>5 DEF OpensOnlyInRebuild
=============================================================================
