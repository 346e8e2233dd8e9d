# A TLA+ verification of mitmwall

mitmwall is a transparent, fail-closed proxy firewall for one Linux host. A
systemd unit runs a root hook before and after mitmproxy; the hook redirects
outgoing HTTP(S) and DNS to mitmproxy's listeners and drops the rest; a
mitmproxy addon decides which requests and names are allowed. This directory
models the hook, the addon, the rules and the life of the installation in TLA+,
checks the models with TLC and proves the most important properties with TLAPS.
`src/` below is the repository's root and `src/src/` its Python code.

## The system

| component | state | operations | what makes it correct |
|---|---|---|---|
| forwarding (`hook.py`) | three sysctls, the DROP guard at the head of FORWARD per family, the snapshot `/run/mitmwall/forwarding-state.json` | `enable_forwarding`, `restore_forwarding` | the administrator's values are never lost and come back exactly; turning forwarding on never opens transit traffic |
| resolver (`resolv_conf.py`, `migrations.py`) | `/etc/resolv.conf`, its snapshot, an older release's snapshot | `configure_system_resolver`, `restore_system_resolver`, `migrate_legacy_resolver_state` | no configuration of another program is lost; a stale snapshot is never restored |
| iptables client (`iptables.py`) | the kernel's chains | append, insert, delete, `remove_all`, `ensure_first`, `remove_by_comment`, chains | only rules that are meant are changed |
| firewall policy (`hook.py`, `migrations.py`) | nat OUTPUT, filter OUTPUT, MITMWALL_OUTPUT; the configuration | `add_rules`, `clear_rules`, rule migrations | a completed start enforces the policy, whatever was there; a completed stop leaves nothing |
| hook entry point (`hook.py` `main`) | the three parts above | start, stop | a failed start serves nothing; a failed stop returns whatever did not itself fail, and can be repeated |
| unit and systemd-resolved (`install.sh`) | the unit's state, resolved and the jobs systemd runs for them | start, stop, automatic restart; stop, restart, death of resolved | no deadlock of jobs; upstream servers are not lost |
| scripts (`install.sh`, `uninstall.sh`) | hook, package, unit, binaries | install, upgrade, remove | what runs is one release; removal leaves nothing behind |
| addon (`addon.py`) | the loaded rules, the options, the web rules file | `load`, `running`, `configure`, `request`, `responseheaders`, `dns_request` | the rules in force are those of the files; the web option never breaks them |
| flow history (`addon.py`) | the request counter, mitmproxy's view | count, trim, clear | memory stays bounded, the newest flows stay |
| rules (`rules.py`) | none | parse a table, match a request | a domain means whole labels; a key narrows a rule |
| pathname patterns (`pathname_pattern.py`) | none | tokenize, compile, flatten | a pattern matches the paths its segments name, no others |
| addon configuration and logging (`addon_config.py`, `addon_logging.py`) | the configuration | load | one invalid value means every default |

The parts interact in four ways. `main` calls the migration, the resolver, the
web rules, forwarding and the firewall, and on a failure restores forwarding and
then the resolver. systemd runs `hook.py start` before and `hook.py stop` after
the service, also when the start failed, and may kill either. The unit is bound
to systemd-resolved, which restarts when it does. The addon and the hook share
only the rules directory.

What is hard here is failure: the hook changes kernel and file system state in
some sixty steps, each of which may raise or be the last before a kill, and the
next start or stop has to cope with every prefix. Concurrency is limited to
systemd's jobs, the scripts, other programs that write `/etc/resolv.conf` or
firewall rules and administrators who edit files. PROJECT.json lists these
hazards, each at its line.

## Modules

| module | models | state |
|---|---|---|
| `SysctlLoan` | the abstract promise of forwarding: settings are lent, used, and given back only with their owner's values | `value`, `owned`, `lent` |
| `Forwarding` | `enable_forwarding`, `restore_forwarding`, and `main` and systemd around them | `sysctl`, `guard`, `snap`; `unit`; the hook process: `pc`, `k`, `state`, `failures`, `caller`; history `orig`, `faults` |
| `Resolver` | `resolv_conf.py`, the resolver migration, `main` and systemd around them | `conf`, `saved`, `legacy`; `manage`; `unit`, `pc`, `found`; history `theirs`, `faults` |
| `Iptables` | chains as sequences of rules and the client's operations on them | (operators) |
| `Firewall` | `add_rules` and `clear_rules` in one address family, and what the chains do to packets | `chains`; `unit`, `running`, `todo`; the configuration; the line `listed` for a deletion; history `applied`, `admin`, `disturbed`, `shifted`, `faults` |
| `Service` | the abstract promise of the hook as a whole: take, serve, give back | `mode`, `held` |
| `Hook` | `main` as a sequence of calls over the three parts, and the unit around it; implements `Service` | `unit`, `pc`, `machine`, `failed`, `restart`; history `faults` |
| `Lifecycle` | extends `Hook` with systemd-resolved and the scripts | `resolved`, `knows`, `job`, `resume`, `stopJob`; `step`, `artifacts`, `wasActive`; history `torn`, `startedBy`, `mixed` |
| `FlowHistory` | the request counter and the trim of mitmproxy's view | `phase`, `interval`, `keep`, `counter`, `view`; history `stored`, `uncounted`, `missed`, `faults` |
| `Addon` | the addon's handlers, the web rules file and a flow; composes `FlowHistory`, whose actions are conjuncts of its own | `files`, `rules`, `option`, `allowAll`, `blockDns`, `pending`, `flow`; history `edited`; those of `FlowHistory` |
| `PathnamePattern` | the pattern language: tokens, expression, matching, flattening | (operators) |
| `Patterns` | what a pattern written segment by segment means; extends `PathnamePattern` | `segments`, `pattern` |
| `Rules` | what a rule table is accepted as, and the requests it matches | `table` |
| `MC...` | each instantiates one module for TLC | |
| `...Proofs` | theorems about one module; `LifecycleProofs` about `Hook` as well, `ChainProofs` about `Iptables` and its sequences | |

`Forwarding`: an action is one effect on the machine - one sysctl write, one
iptables command that changes something, one file created or removed. `k` is
the position in the loop the code is in; `caller` remembers which of the two
nested handlers, or stop, called `restore_forwarding`. The snapshot is written
under another name and linked, so its creation is one step.

`Resolver`: an entry is a kind (file or symlink), what it says and who owns it.
A replacement is one `os.replace`, hence one step; the owner of a restored
symlink is set afterwards and is a step of its own. Whether a text names an
external nameserver is a set of texts. A symlink's content does not change
under it.

`Firewall`: a start or stop is a *program*, the list of iptables commands the
code runs, in its order, computed by operators that mirror the functions of
`hook.py` (`AddOutputFilter`, `AddCustomRules`, ...). The actions are the kinds
of command. `remove_by_comment` lists a chain and deletes by line number in two
commands (`ListTagged`, `DeleteListed`), between which, as between any others,
other firewall management may insert a rule of its own at the head of a built-in
chain (`AdminInserts`); what is deleted is the rule that has the number by then.
`admin` is what other management has inserted, less a rule that went that way
(`shifted`); `disturbed` says that it inserted one while the hook ran. A rule
records which users, services, places and connection states
it matches, its verdict and its comment tag; `Outcome` evaluates the chains as
netfilter does, the nat table for new connections, then the filter table with
the rewritten destination. The two families use disjoint chains, so one
instance per family suffices; `IsIpv6` selects it.

`Hook`: each of the three parts of the machine is reduced to whose it is, and
each call of `main` to what it makes of its part. `After` is the effect of a
call that returns; `Within` is what a call that raises, or in which the process
is killed, may leave: its part as it was, as the call makes it, or in between.
`Forwarding`, `Resolver` and `Firewall` justify these. An exception leads to the
next call as in the code's `try` and `finally`: a stop whose
`restore_forwarding` raises skips `clear_rules` but restores the resolver. The
migrations of an older release's state, which `Resolver` and `Firewall` have in
detail, are here only a call that may fail.
One hook runs at a time: an operator stops by hand only a unit that is down.

`Lifecycle`: `job` is what systemd has been asked to do with resolved. The unit
has `BindsTo`, `After` and `PartOf` resolved; that a stop of resolved waits for
the unit's stop job, a start of the unit for resolved, and a restart of resolved
starts the unit again, is systemd's behaviour as the comments of `install.sh`
use it, hence external. resolved reads a `resolv.conf` that is not its own stub
whenever it changes and keeps the servers in memory (`knows`); `torn` remembers
that a stop or crash left the stub in place. The scripts are `step`, the next
thing to do; replacing the package is one step, and daemon-reload comes with the
unit file. Any command of an installation may fail, and nothing is put back.
A boot or an administrator may start what a failed or interrupted
upgrade has left; `mixed` remembers that the last start by such was of two
releases, or made while a script was at work. `Careful` is an assumption on
administrators which neither systemd nor the scripts check: an upgrade begins
only while the unit runs or is down, and nobody starts the unit between an
upgrade's or removal's first step and the end of its cleaning. Without it
finding 4 appears.

`Addon`: handlers are atomic, as in mitmproxy's event loop, except that a
process may die, or the disk be full, inside `write_text`. A write therefore
begins with the truncated file (`Configure`), may reach the file in part
(`WritePart`: a part that does not parse, or one that is other rules, from
`Parts`), and then completes, raises or ends with the process (`FinishWrite`,
`WriteFails`, `Exit`); no handler runs meanwhile, but administrators do.
`request` has three branches: everything is allowed, the URL is one that
`urlsplit` refuses (`NoPathname`), or the rules decide. In the second the
handler raises before it decides, kills or counts, and mitmproxy goes on
(`Raise`, with `ProxyUncounted` of `FlowHistory`). Hosts, methods and pathnames
of a rule are sets: what matters is which of several overlapping rules decides.
One flow stands for all. A broken file is one the parser rejects; that a file
which is not even text has no default option, while one that is text but not
TOML has, is the choice in `Load`.

`Rules`: texts are sequences of characters. An administrator writes a table key
by key; `ParseRule` is the parser's verdict on it and `Matches` what the rule
then matches. What Python's `re` and `compile_pathname_pattern` make of a text,
and what the result matches, are constant operators (`ReCompile`, `ReSearch`,
`CompilePattern`, ...): `MCRules` gives them those of `PathnamePattern`, the
proofs know nothing of them.

`PathnamePattern` and `Patterns`: an administrator writes a pattern segment by
segment (a segment carries the paths it is meant to name, which is the reference
definition) and then slips. The tokenizer and the translation are recursive over
the text that is left; the regular expression is a sequence of parts, and
`FullMatch` is Python's `re` on those parts. The pattern model was compared with
the Python code itself on 52,740 pattern texts; it accepts and refuses the same
ones and produces the same expressions.

## What the runs check

| run | result | what it shows |
|---|---|---|
| `ForwardingSafety` | holds | snapshot original; nothing outlives it; a running proxy is guarded; only re-guarding exposes; the hook implements `SysctlLoan`; repeated stops give everything back |
| `ResolverSafety` | holds | `Recoverable`, `OnlyStubAndBack`, `NoHairpin` through failures, kills, upgrades and reboots; repeated stops settle the snapshot |
| `FirewallSafety` | holds | `PolicyEnforced`, `AdminRulesKept`, `NothingAccumulates`, `OpensOnlyInRebuild`; a complete stop is clean, an incomplete one is completed by retries (IPv6, accounts that come and go, rules of other management at any time) |
| `FirewallAccounts` | violated | finding 2 |
| `FirewallForeign` | violated | finding 1 |
| `LifecycleSafety` | holds | `StopReturnsTheRest`: an incomplete stop keeps only what its failures explain; the hook implements `Service`; `UpstreamKept`, `RunsOneRelease`, `RemovalSurvivesOneFault`; restarts of resolved complete and repeated stops give everything back |
| `LifecycleMixture` | violated | finding 4 |
| `FlowHistory` | holds | bounded, newest kept, enough kept; with trims that fail and handlers that raise |
| `AddonSafety` | holds | names resolve, files that parse cease to only by an edit or during a write of a valid option, a start leaves files alone, every flow whose handler returns is counted, a saved option is applied; with writes cut short after any part |
| `AddonClosed` | violated | finding 3 |
| `AddonHeaders` | violated | finding 5 |
| `RulesSafety` | holds | an accepted rule has a host and a method; `HostsMatchByLabel`: a domain matches by whole labels in any spelling; `KeysNarrow`: a key that is added lets more through only where it is documented to; beside the tables, patterns: `PatternsMeanTheirSegments`, `ParametersStayInTheirSegment`, `FlatSequencesCoverThePattern` |

Each property of a passing run has a mutant in PROJECT.json, a plausible bug in
one definition that makes TLC report the property as violated.

### Findings

1. `remove_by_comment` deletes by a line number that it listed in an earlier
   command. If another program inserts a rule above in between, a rule without
   the comment goes, against `iptables.py:157`. (`AdminRulesKept` therefore
   speaks of the other cases.)
2. The DNS bypass of an account that is removed while mitmwall is active stays
   in the nat table. (`StopCleans` therefore speaks of the accounts that exist.)
3. Rules stay in force when a file becomes invalid; `README.md:75` says mitmwall
   then blocks everything, which is true of a new process only.
4. `install.sh` stops a unit that is active, not one that is activating
   (starting, or waiting for its automatic restart). If the upgrade then fails
   after it replaced the hook, the start that the old hook had begun completes:
   the old package runs, and the new hook on disk is what will stop it, which
   `install.sh:351` rules out. (What a boot or an administrator starts after a
   failed upgrade is a mixture too; the finding does not count those starts.)
5. `inject_headers` comes from the first matching rule, not from the first that
   defines it (`example-rules.toml:70`).

Limitations met while modelling, which contradict no statement of the
repository: the snapshot writer stores any integer sysctl while the reader
accepts 0 and 1, so a host with `send_redirects = 2` cannot be restored
(`RetryRestores` of `Forwarding` asks for a readable snapshot); another
manager's resolver entry written between a check and the replacement is
overwritten; `write_text` truncates the web rules file, so that a process that
ends in it, or a full disk, loses the earlier rules too, and may leave a part of
the new ones that does not parse or that means more; the option and later edits
of the web rules file overwrite each other; `request` raises for a URL that
`urlsplit` refuses, and that flow is neither decided nor counted; a guard that
`ensure_first` removes to insert it again is away in between, and stays away if
the hook is killed there until the next start or stop (`OnlyReguardExposes`
names this step).

### Bounds, and why they are enough

* Forwarding: two families and `send_redirects`, as in the code; values 0 and
  1, and 2 for any value the snapshot reader rejects; five faults, enough for a
  start that fails, both of its nested restorations and the following stop to
  fail, and one more.
* Resolver: a file and a symlink that name an upstream server, a loopback file,
  two owners; four faults. Other managers write only between hook runs.
* Firewall: one account of each kind (proxy, resolver, time synchronization,
  bypass, ordinary), custom rules on a redirected and on another port, one rule
  of other management, one fault, which may be that the rule comes while a hook
  runs. One rule is enough to shift the lines of a listing. Rules match by sets
  of these, so a second account of a kind adds nothing but copies. One fault is
  a start or stop cut at any of its commands; as the next start or stop follows
  without bound, any number of completed operations lies on either side.
* Lifecycle: three faults (exceptions, kills, reboots), so that a start, its
  handler and the stop after it, or three stops in a row, can all fail; a
  removal that leaves something behind takes two. Everything else is finite.
  537,000 states; deadlock is checked. `LifecycleMixture` needs no more than one
  fault.
* FlowHistory: intervals and sizes from 1 to 3 and the defaults, ten flows:
  every ratio of interval and size, and several trims; two faults, the trim and
  its fallback. Any of the flows may raise.
* Addon: two hosts, methods and pathnames, and rules that overlap in each; two
  flows. `AddonSafety` has fewer rule lists since writes may fail in it; each
  leaves nothing, text that does not parse, or broader rules when cut short.
* Rules: three keys of a table (every interaction in the parser is of two) and
  hosts of up to three labels.
* Patterns: up to three segments, among them every modifier, and up to two
  slips; paths of up to four characters after the slash.

One run has both, side by side: an administrator writes a table or a pattern. It
is finished when the bounds are reached, so `RulesSafety` does not check for
deadlock.

### Fairness

`Forwarding`, `Resolver` and `Firewall` assume that a hook that is running takes
another step (weak fairness of its steps; faults are finitely many), that
systemd starts ExecStopPost of a unit that is stopping, and that an operator
repeats a stop that left something behind. The last is the meaning of "the
operator can repair and retry" in `restore_forwarding`. It is strong fairness
in `Resolver`, `Firewall` and `Lifecycle`, since other steps can disable a stop
in between; the retry properties let a start take over instead. `Lifecycle`
assumes besides that systemd carries out the jobs of resolved and that a script
goes on while it can (both weak). No fairness is assumed of administrators who
start, stop or upgrade; what `Careful` assumes of them is above, under Modules.

## What is proved

`ForwardingProofs`, for all families, values and numbers of faults: `TypeOK`,
`SnapshotIsOriginal`, `UnmanagedIsOriginal`, `RunningIsGuarded`,
`OnlyReguardExposes` and the refinement `ImplementsLoan`. The snapshot is
original only because the sysctls are when it is taken, which depends on how
far the previous restoration came when it removed the old one. The inductive
invariant therefore says, besides the properties, which steps belong to which
state of the unit (`ControlInv`), that the hook works on the snapshot on disk
(`LoadedInv`), that guards exist only for families the administrator had off
(`GuardInv`), and how far a start and a restoration have come at each loop
position (`StartInv`, `RestoreInv`). Assumptions: the order lists each family
once, and 0 and 1 are among the values.

`ResolverProofs`, for all texts, owners and entries: types (`TypeOK`),
`Recoverable`, `OnlyStubAndBack` and `NoHairpin`, provided that other managers
neither link the stub nor write during the hook (`QuietManagers`): the hook
cannot tell a link to the stub that another manager made from its own, and an
entry written during the hook may be overwritten. The invariant adds which
entries at `/etc/resolv.conf` are theirs (`EntryInv`), and what a start and a
restoration know at each step.

`LifecycleProofs` is first about `Hook`, for every number of faults:
`StopReturnsTheRest` and the refinement `ImplementsService`. The invariant ties
the hook's call to the unit's state (`CallOfUnit`) and says what a stop has
returned, or failed to return, when it comes to its next call (`StopProgress`);
the refinement follows from what `After` and `Within` do to what is held.

Then about `Lifecycle`, for every number of faults, under the assumption
`Careful` (an upgrade begins only while the unit runs or is down, without which
finding 4 refutes `RunsOneRelease`, and nobody starts the unit until a script
has cleaned up). A boot or a start by hand of whatever a failed or interrupted
upgrade has left is not excluded: what runs then may be a mixture (`mixed`), but
the hook on disk is still the one that made the start. Proved are that the steps
of `Lifecycle` are steps of `Hook` (`LifecycleRefines`), so that what holds of
`Hook` holds there too; `UpstreamKept`, `RunsOneRelease` and
`RemovalSurvivesOneFault`. The invariant says what is installed at each step of
the scripts (`Installed`), that the unit is down and no job will start it until
they have cleaned up (`UnitStopped`), that what is not down is of one release or
was started as a mixture and has its own hook on disk (`Released`), that
resolved is up and stays up while the unit serves (`Upstream`), and which faults
explain what a stop has left behind (`Explained`: one after a stop, two when a
removal has stopped twice). Steps that start the unit and steps that do not are
treated apart, as only the former take anything over (`NoStart`).

`FlowHistoryProofs`, for all intervals, sizes and bounds: type correctness,
`HistoryBounded`, `NewestKept` and `TrimKeepsEnough`, from lemmas on what
`values[-n:]` returns. The bound counts the flows whose handler raised since the
last trim apart (`uncounted`).

`AddonProofs`, for all hosts, methods, paths and rule lists: `TypeOK`,
`NamesResolve`, `AppliedImmediately`, `OnlyEditsBreakRules`, `StartKeepsFiles`
and `ImplementsHistory`, which makes the theorems on `FlowHistory` theorems
about the addon; `CountsEveryFlow` draws the conclusion, the bound on the view.
Writes may be cut short after any part, which may be any rules or none that
parse: `OnlyEditsBreakRules` says that this, of an option that parses, and an
edit are all that breaks files, and that the rules in force do not change with a
cut write. The invariant says that a write is under way only in a running addon
and writes the option (`WriteInv`), and that rules and option are those of the
files unless they were edited since (`RulesCurrent`, `OptionCurrent`).
Assumptions (`AddonAssumption`): the constants that stand for broken and missing
files are no lists of rules, an empty list is one, and the parts of a text are
texts.

`FirewallProofs`, for all accounts, configurations, custom rules and numbers of
faults and of the administrator's rules: `PolicyEnforced`, `OpensOnlyInRebuild`,
`StopCleans`, `NothingAccumulates`, `AdminRulesKept` and `TypeOK`, all the
safety properties of `FirewallSafety`. Other management may insert rules between
any two commands; `PolicyEnforced` asks that it has not while the hook ran, and
`AdminRulesKept` excepts a rule that a shifted line number removes (finding 1).
The invariant `Inv` is about a program of
which part has run. Its parts:

* what any chain may hold at any time, also while no hook runs (`ChainsKept`):
  only rules of a known kind in the nat chain, none of them twice but those of
  older releases and of the administrator; the jump at most once and only to a
  chain that exists; in the managed chain the DROP rule and rules that let no
  ordinary account through to a remote host (`Harmless`);
* where a start's program has come: its commands are in phases (`Phase`,
  `Reached`), and each insertion directly follows the removal of the same rule
  (`Paired`), so that what is inserted is absent (`InsertsAbsent`);
* of each command of a start, that it has yet to run or that what it establishes
  holds (`Established`): legacy rules are gone, tagged redirects are those of
  the configuration, and each rule is in its chain with only rules above it that
  the configuration puts there (`Above`). Under `NamesOnce` besides, no rule is
  in the managed chain twice, or is there and still to be appended (`OwnOnce`);
* the same for a stop (`Cleared`).

`StartProgramShape` and `StopProgramShape` show that the programs have this
form for every configuration; one lemma per action shows that a step keeps the
invariant. When the program has run out, everything it establishes holds, and
the first match in a chain is determined by what is above what (`JudgeAbove`):
the nat chain redirects exactly what belongs to the proxy (`NatDecides`), the
filter drops exactly what the policy blocks (`FilterDecides`). While it runs,
the policy is open to ordinary accounts if and only if the jump is not first or
the DROP rule is not in the managed chain (`OpenIs`), which gives
`OpensOnlyInRebuild`.

Assumptions (`FirewallAssumption`): the time synchronization accounts are a list
without repetitions, as in `hook.py`; the proxy, systemd-resolved and those
accounts differ; the proxy is not in `bypass_users`, which `parse_bypass_users`
ensures; ordinary accounts are those of no other kind; bypass users are finitely
many; the absent chain is no chain. `NothingAccumulates` is about
the managed chain only if the configuration names no custom rule twice and does
not list systemd-resolve as a bypass user (`NamesOnce`): then `hook.py` itself
appends two equal rules, which is harmless.

`ChainProofs` holds the lemmas about `Iptables` and the sequence operators:
lines of a chain after a deletion or an insertion, flattening, order and copies
of rules. Its induction is `SeqInduction`, over a set of sequences instead of an
operator.

`RulesProofs`, for every alphabet, all texts, tables, keys, labels, methods and
paths, and whatever the compilers and matchers do: `TypeOK`, `HostsMatchByLabel`
and `KeysNarrow`. The steps of this model are an administrator's, so the
inductive invariant is only that a table has values that may be written and no
more keys than it may; the work is in the operators, which is why the lemmas
are about them:

* normalization: every spelling of a host is normalized to the host
  (`SpellingsNormalize`, from what stripping keeps: `StripClean`,
  `RStripKeeps`). A domain is normalized twice, when it is parsed and when it is
  matched; this is not the same as once (`b. .` becomes `b. ` and then `b`), and
  the theorem says that the second result is what counts (`HostOf`);
* labels: a host ends with a dot and a domain exactly if the labels from some
  label on are the domain's (`LabelBoundary`, `LabelSuffix`, `HostOrSubdomain`),
  since a dot in a host is where a label begins and a domain that ends a host
  has no dot at its own end;
* parsing: when a table with one more key is accepted, so was each part of the
  rule, and a part whose key was not added is the same (`RuleIs`, `SetKeyTable`,
  `FiltersAre`); from this what each key does to the requests (`WiderMatches`,
  `MethodsAllowed`, `KeyNarrows`).

Assumptions: a letter has two cases and neither is the dot or white space;
labels are words in lower case without a dot (`LabelsAssumption`); values are of
the types TOML has (`ValuesAssumption`).

Every safety and action property of the passing runs is thus a theorem, except
the three about patterns. Only model-checked:

* the liveness properties `RetryRestores` (of `Forwarding` and `Resolver`),
  `RetryCleans`, `RetryReturnsAll` and `RestartCompletes`: liveness under
  fairness and ENABLED are out of the prover's reach;
* `PatternsMeanTheirSegments`, `ParametersStayInTheirSegment` and
  `FlatSequencesCoverThePattern`: they are about what a tokenizer and a
  translation compute that are recursive over the text. `PathnamePattern`
  declares recursive operators, and in a module that does the prover has no
  arithmetic, sets or sequences; nor could it do the induction over texts;
* the properties of the runs that expect a violation, which do not hold.

## Plan

Done: the four parts of the hook and the addon, each alone; then `Hook` and
`Service`; `Rules` and `Patterns`; `Lifecycle`; the proofs above.

Left, in order: `Addon` over the matching of `Rules` instead of sets; a
refinement from `Forwarding` and `Resolver` to the calls of `Hook`, which are
related by the reading of `After` and `Within` only; two hooks at once (an
operator's `hook.py stop` beside the unit's own); both address families in one
`Firewall`.

## What is not modelled

The syntax of TOML and JSON (external libraries; the tables they return are
modelled); Python's `re` beyond alternatives of literal text; the limit of 256
flat sequences of a pattern; the permission checks of state files beyond that
they may fail; the lock iptables waits for, beyond a command that fails; UDP
hairpins and other behaviour of the network; TLS; accounts, certificates,
permissions and `/etc/environment` in `install.sh`, which nothing else modelled
reads; the scripts that download and call `install.sh`; `addon/main.py`, which
holds one list; log levels and the web UI's address; the repository's tests.
