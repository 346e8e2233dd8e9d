----------------------------- MODULE Forwarding -----------------------------
(***************************************************************************)
(* The forwarding side of the systemd hook (src/src/systemd/hook.py):      *)
(*                                                                         *)
(*   - the sysctls mitmwall borrows while it runs, one forwarding switch   *)
(*     per address family and the send_redirects switch;                   *)
(*   - the snapshot of their original values, /run/mitmwall/               *)
(*     forwarding-state.json, created once and removed on full restore;    *)
(*   - the DROP guard at the head of FORWARD, for the families mitmwall    *)
(*     itself turned on;                                                   *)
(*   - enable_forwarding and restore_forwarding, one action per effect on  *)
(*     the machine, and the calls main makes to them on start and stop;    *)
(*   - systemd running the hook, killing it at any step, and reboots.      *)
(*                                                                         *)
(* Every subprocess the hook runs may fail; MaxFaults bounds how many of   *)
(* them fail or are killed in one behaviour.                               *)
(***************************************************************************)
EXTENDS Naturals, Sequences

CONSTANTS
    Families,       \* address families: one sysctl and one FORWARD chain each
    FamilyOrder,    \* the order in which hook.py visits them
    SendRedirects,  \* the remaining sysctl, which has no guard
    SysctlValues,   \* what "sysctl -n" may print for one of the settings
    NoSnapshot,     \* the snapshot file does not exist
    MaxFaults       \* bound: commands that fail and hooks that are killed

ASSUME FamilyAssumption ==
    /\ FamilyOrder \in Seq(Families)
    /\ FamilyOrder # <<>>
    /\ \A f \in Families : \E i \in 1..Len(FamilyOrder) : FamilyOrder[i] = f
    /\ \A i, j \in 1..Len(FamilyOrder) : FamilyOrder[i] = FamilyOrder[j] => i = j
    /\ SendRedirects \notin Families

ASSUME ValueAssumption ==
    /\ {0, 1} \subseteq SysctlValues
    /\ NoSnapshot \notin [Families \cup {SendRedirects} -> SysctlValues]

ASSUME FaultAssumption == MaxFaults \in Nat

Settings == Families \cup {SendRedirects}
Snapshots == [Settings -> SysctlValues]

(* The order of the sysctl writes, when enabling and when restoring.       *)
Order == Append(FamilyOrder, SendRedirects)

(* The value mitmwall needs while it runs. *)
Target(s) == IF s = SendRedirects THEN 0 ELSE 1

(* read_forwarding_state accepts only booleans; write_forwarding_state     *)
(* stores whatever the sysctls held.                                       *)
Readable(saved) == \A s \in Settings : saved[s] \in {0, 1}

VARIABLES
    sysctl,   \* the kernel's value of every setting
    guard,    \* the families whose FORWARD starts with the managed DROP
    snap,     \* the snapshot file, or NoSnapshot
    unit,     \* the systemd unit
    pc,       \* the step the running hook process has reached
    k,        \* its position in the loop it is in
    state,    \* the ForwardingState it holds
    failures, \* the settings whose restoration has failed
    caller,   \* who called restore_forwarding
    orig,     \* history: the administrator's values of the settings
    faults    \* history: faults so far

(* The snapshot file exists. *)
Managed == snap # NoSnapshot

kernel == <<sysctl, guard, snap>>
hook   == <<pc, k, state, failures, caller>>
vars   == <<kernel, unit, hook, orig, faults>>

Units   == {"inactive", "starting", "active", "stopping"}
Labels  == {"idle", "prepare", "load", "drop", "insert", "enable", "policy",
            "restore", "write", "unguard", "unlink"}
Callers == {"none", "enable", "main", "stop"}

TypeOK ==
    /\ sysctl \in Snapshots
    /\ guard \subseteq Families
    /\ snap \in Snapshots \cup {NoSnapshot}
    /\ unit \in Units
    /\ pc \in Labels
    /\ k \in 1..Len(Order)
    /\ pc \in {"drop", "insert", "unguard"} => k \in 1..Len(FamilyOrder)
    /\ state \in Snapshots \cup {NoSnapshot}
    /\ failures \subseteq Settings
    /\ caller \in Callers
    /\ orig \in Snapshots
    /\ faults \in 0..MaxFaults

Init ==
    /\ sysctl \in Snapshots
    /\ orig = sysctl
    /\ guard = {}
    /\ snap = NoSnapshot
    /\ unit = "inactive"
    /\ pc = "idle"
    /\ k = 1
    /\ state = NoSnapshot
    /\ failures = {}
    /\ caller = "none"
    /\ faults = 0

-----------------------------------------------------------------------------
(* Control of the hook process.                                            *)

Goto(label, index) == pc' = label /\ k' = index

Fault == faults < MaxFaults /\ faults' = faults + 1

(* The process is gone; systemd moves on. A start that did not succeed is  *)
(* followed by ExecStopPost, a stop leaves the unit inactive.              *)
Exit(ok) ==
    /\ Goto("idle", 1)
    /\ state' = NoSnapshot
    /\ failures' = {}
    /\ caller' = "none"
    /\ unit' = IF unit # "starting" THEN "inactive"
               ELSE IF ok THEN "active" ELSE "stopping"

(* restore_forwarding is called; what the caller held no longer matters.   *)
CallRestore(who) ==
    /\ Goto("restore", 1)
    /\ caller' = who
    /\ state' = NoSnapshot
    /\ failures' = {}

(* restore_forwarding returned or raised. Whichever it was, the handler in *)
(* enable_forwarding raises and main's own handler restores once more; the *)
(* other two callers are about to exit.                                    *)
RestoreEnds ==
    IF caller = "enable"
    THEN CallRestore("main") /\ UNCHANGED unit
    ELSE Exit(FALSE)

(* Mutation: the loop over the families runs one step too far.             *)
NextFamilyTooFar(label, after) ==
    IF k > Len(FamilyOrder) THEN Goto(after, 1) ELSE Goto(label, k + 1)

(* After the guard of one family comes the next one, then the loop's end.  *)
NextFamily(label, after) ==
    IF k = Len(FamilyOrder) THEN Goto(after, 1) ELSE Goto(label, k + 1)

-----------------------------------------------------------------------------
(* main: start                                                             *)

(* systemd runs ExecStartPre. *)
Start ==
    /\ unit = "inactive" /\ pc = "idle"
    /\ unit' = "starting"
    /\ Goto("prepare", 1)
    /\ UNCHANGED <<kernel, state, failures, caller, orig, faults>>

(* parse_custom_rules and parse_bypass_users, the migrations, the resolver *)
(* and the web rules file come before add_rules; none of them touches this *)
(* module's state.                                                         *)
Prepared ==
    /\ pc = "prepare"
    /\ Goto("load", 1)
    /\ UNCHANGED <<kernel, unit, state, failures, caller, orig, faults>>

(* A configuration error is raised outside main's try: nothing is restored.*)
ConfigurationInvalid ==
    /\ pc = "prepare"
    /\ Fault
    /\ Exit(FALSE)
    /\ UNCHANGED <<kernel, orig>>

PrepareFails ==
    /\ pc = "prepare"
    /\ Fault
    /\ CallRestore("main")
    /\ UNCHANGED <<kernel, unit, orig>>

-----------------------------------------------------------------------------
(* enable_forwarding                                                       *)

(* Mutation: every start takes a new snapshot.                             *)
LoadAlwaysCreates ==
    /\ pc = "load"
    /\ snap' = sysctl
    /\ state' = snap'
    /\ Goto("drop", 1)
    /\ UNCHANGED <<sysctl, guard, unit, failures, caller, orig, faults>>

(* load_or_create_forwarding_state: an existing snapshot is never replaced.*)
LoadOrCreate ==
    /\ pc = "load"
    /\ Managed => Readable(snap)
    /\ snap' = IF Managed THEN snap ELSE sysctl
    /\ state' = snap'
    /\ Goto("drop", 1)
    /\ UNCHANGED <<sysctl, guard, unit, failures, caller, orig, faults>>

(* Raised outside enable_forwarding's try: only main's handler restores.   *)
SnapshotUnreadable ==
    /\ pc = "load"
    /\ Managed /\ ~Readable(snap)
    /\ CallRestore("main")
    /\ UNCHANGED <<kernel, unit, orig, faults>>

LoadFails ==
    /\ pc = "load"
    /\ Fault
    /\ CallRestore("main")
    /\ UNCHANGED <<kernel, unit, orig>>

(* add_forwarding_guards leaves a family the administrator had enabled     *)
(* alone. For the others Iptables.ensure_first first removes the rule...   *)
SkipGuard ==
    /\ pc = "drop"
    /\ state[FamilyOrder[k]] # 0
    /\ NextFamily("drop", "enable")
    /\ UNCHANGED <<kernel, unit, state, failures, caller, orig, faults>>

DropGuard ==
    /\ pc = "drop"
    /\ state[FamilyOrder[k]] = 0
    /\ guard' = guard \ {FamilyOrder[k]}
    /\ Goto("insert", k)
    /\ UNCHANGED <<sysctl, snap, unit, state, failures, caller, orig, faults>>

(* ... and then inserts it at the head.                                    *)
InsertGuard ==
    /\ pc = "insert"
    /\ guard' = guard \cup {FamilyOrder[k]}
    /\ NextFamily("drop", "enable")
    /\ UNCHANGED <<sysctl, snap, unit, state, failures, caller, orig, faults>>

EnableSetting ==
    /\ pc = "enable"
    /\ sysctl' = [sysctl EXCEPT ![Order[k]] = Target(Order[k])]
    /\ IF k = Len(Order) THEN Goto("policy", 1) ELSE Goto("enable", k + 1)
    /\ UNCHANGED <<guard, snap, unit, state, failures, caller, orig, faults>>

(* Mutation: a failed write is logged and start goes on.                   *)
EnableFailureIgnored ==
    /\ pc \in {"drop", "insert", "enable"}
    /\ Fault
    /\ Goto("policy", 1)
    /\ UNCHANGED <<kernel, unit, state, failures, caller, orig>>

EnableFails ==
    /\ pc \in {"drop", "insert", "enable"}
    /\ Fault
    /\ CallRestore("enable")
    /\ UNCHANGED <<kernel, unit, orig>>

(* The rest of add_rules works on the OUTPUT chains only.                  *)
PolicyInstalled ==
    /\ pc = "policy"
    /\ Exit(TRUE)
    /\ UNCHANGED <<kernel, orig, faults>>

PolicyFails ==
    /\ pc = "policy"
    /\ Fault
    /\ CallRestore("main")
    /\ UNCHANGED <<kernel, unit, orig>>

-----------------------------------------------------------------------------
(* restore_forwarding                                                      *)

NothingToRestore ==
    /\ pc = "restore"
    /\ ~Managed
    /\ RestoreEnds
    /\ UNCHANGED <<kernel, orig, faults>>

(* Mutation: the guards go before the sysctls are restored.                *)
RestoreUnguardsFirst ==
    /\ pc = "restore"
    /\ Managed /\ Readable(snap)
    /\ state' = snap
    /\ Goto("unguard", 1)
    /\ UNCHANGED <<kernel, unit, failures, caller, orig, faults>>

RestoreReads ==
    /\ pc = "restore"
    /\ Managed /\ Readable(snap)
    /\ state' = snap
    /\ Goto("write", 1)
    /\ UNCHANGED <<kernel, unit, failures, caller, orig, faults>>

RestoreRefuses ==
    /\ pc = "restore"
    /\ Managed /\ ~Readable(snap)
    /\ RestoreEnds
    /\ UNCHANGED <<kernel, orig, faults>>

(* Mutation: collected failures do not stop the restoration.               *)
NextWriteForgets(collected) ==
    IF k < Len(Order)
    THEN Goto("write", k + 1) /\ UNCHANGED <<failures, state, caller, unit>>
    ELSE Goto("unguard", 1) /\ UNCHANGED <<state, failures, caller, unit>>

(* Every write is attempted; a failure only shows after the last of them.  *)
NextWrite(collected) ==
    IF k < Len(Order)
    THEN /\ Goto("write", k + 1)
         /\ failures' = collected
         /\ UNCHANGED <<state, caller, unit>>
    ELSE IF collected # {}
         THEN RestoreEnds
         ELSE Goto("unguard", 1) /\ UNCHANGED <<state, failures, caller, unit>>

RestoreSetting ==
    /\ pc = "write"
    /\ sysctl' = [sysctl EXCEPT ![Order[k]] = state[Order[k]]]
    /\ NextWrite(failures)
    /\ UNCHANGED <<guard, snap, orig, faults>>

RestoreSettingFails ==
    /\ pc = "write"
    /\ Fault
    /\ NextWrite(failures \cup {Order[k]})
    /\ UNCHANGED <<kernel, orig>>

RemoveGuard ==
    /\ pc = "unguard"
    /\ guard' = IF state[FamilyOrder[k]] = 0
                THEN guard \ {FamilyOrder[k]}
                ELSE guard
    /\ NextFamily("unguard", "unlink")
    /\ UNCHANGED <<sysctl, snap, unit, state, failures, caller, orig, faults>>

(* Mutation: the snapshot stays behind after a full restoration.           *)
ForgetNothing ==
    /\ pc = "unlink"
    /\ RestoreEnds
    /\ UNCHANGED <<kernel, orig, faults>>

ForgetSnapshot ==
    /\ pc = "unlink"
    /\ snap' = NoSnapshot
    /\ RestoreEnds
    /\ UNCHANGED <<sysctl, guard, orig, faults>>

(* Mutation: the snapshot is removed when the restoration failed.          *)
RestoreFailureForgets ==
    /\ pc \in {"restore", "unguard", "unlink"}
    /\ Managed
    /\ Fault
    /\ snap' = NoSnapshot
    /\ RestoreEnds
    /\ UNCHANGED <<sysctl, guard, orig>>

(* Reading the snapshot, removing a guard or unlinking the file raises.    *)
RestoreFails ==
    /\ pc \in {"restore", "unguard", "unlink"}
    /\ Managed
    /\ Fault
    /\ RestoreEnds
    /\ UNCHANGED <<kernel, orig>>

-----------------------------------------------------------------------------
(* systemd, the operator, the machine                                      *)

(* "systemctl stop", or start.sh ended. *)
Deactivate ==
    /\ unit = "active" /\ pc = "idle"
    /\ unit' = "stopping"
    /\ UNCHANGED <<kernel, hook, orig, faults>>

(* ExecStopPost; or install.sh and uninstall.sh running "hook.py stop"     *)
(* while the unit is down.                                                 *)
Stop ==
    /\ unit \in {"stopping", "inactive"} /\ pc = "idle"
    /\ CallRestore("stop")
    /\ UNCHANGED <<kernel, unit, orig, faults>>

(* The hook dies between two of its steps: a timeout, the OOM killer.      *)
Killed ==
    /\ pc # "idle"
    /\ Fault
    /\ Exit(FALSE)
    /\ UNCHANGED <<kernel, orig>>

(* /run, the firewall and the sysctls are lost; what the administrator     *)
(* configured for boot applies.                                            *)
Reboot ==
    /\ Fault
    /\ sysctl' \in Snapshots
    /\ orig' = sysctl'
    /\ guard' = {}
    /\ snap' = NoSnapshot
    /\ unit' = "inactive"
    /\ Goto("idle", 1)
    /\ state' = NoSnapshot
    /\ failures' = {}
    /\ caller' = "none"

(* The administrator changes a setting while mitmwall does not hold it.    *)
AdminSets ==
    /\ ~Managed /\ pc = "idle"
    /\ \E s \in Settings, v \in SysctlValues : sysctl' = [sysctl EXCEPT ![s] = v]
    /\ orig' = sysctl'
    /\ UNCHANGED <<guard, snap, unit, hook, faults>>

StartSteps ==
    \/ Prepared \/ ConfigurationInvalid \/ PrepareFails
    \/ LoadOrCreate \/ SnapshotUnreadable \/ LoadFails
    \/ SkipGuard \/ DropGuard \/ InsertGuard
    \/ EnableSetting \/ EnableFails
    \/ PolicyInstalled \/ PolicyFails

RestoreSteps ==
    \/ NothingToRestore \/ RestoreReads \/ RestoreRefuses
    \/ RestoreSetting \/ RestoreSettingFails
    \/ RemoveGuard \/ ForgetSnapshot \/ RestoreFails

Next ==
    \/ Start \/ StartSteps \/ RestoreSteps
    \/ Deactivate \/ Stop \/ Killed \/ Reboot \/ AdminSets

Spec == Init /\ [][Next]_vars

(* A hook that runs goes on running; systemd starts the ExecStopPost of a  *)
(* unit that is stopping; a stop that left the snapshot behind is retried. *)
HookRuns == StartSteps \/ RestoreSteps
RetryStop == Managed /\ Stop

Fairness == WF_vars(HookRuns) /\ WF_vars(unit = "stopping" /\ Stop) /\ WF_vars(RetryStop)

FairSpec == Spec /\ Fairness

-----------------------------------------------------------------------------
(* Properties                                                              *)

(* Transit traffic that the administrator did not allow is forwarded.      *)
Exposed(f) == sysctl[f] # 0 /\ orig[f] = 0 /\ f \notin guard

(* The snapshot, whenever it exists, holds the administrator's values: no  *)
(* retry, crash or repeated start saves a value mitmwall itself wrote.     *)
SnapshotIsOriginal == Managed => snap = orig

(* Nothing of mitmwall outlives the snapshot: once it is gone the sysctls  *)
(* are the administrator's and no guard blocks transit traffic.            *)
UnmanagedIsOriginal ==
    ~Managed => sysctl = orig /\ guard = {}

(* While the proxy runs the sysctls have the values it needs, and no       *)
(* family that the hook turned on forwards transit traffic.                *)
RunningIsGuarded ==
    unit = "active" =>
        /\ \A s \in Settings : sysctl[s] = Target(s)
        /\ \A f \in Families : ~Exposed(f)

(* What the hook promises about exposure: a family's transit traffic is    *)
(* opened by no step, whatever fails or dies, except when a start finds    *)
(* the setting still on from a run that was not restored and ensure_first  *)
(* takes the old guard away before it inserts the new one.                 *)
OnlyReguardExposes ==
    [][\A f \in Families :
         ~Exposed(f) /\ Exposed(f)' => pc = "drop" /\ FamilyOrder[k] = f]_vars

(* A failed restoration stays retryable: with the unit down and a snapshot *)
(* left behind that the hook can read, repeated stops restore it, or a     *)
(* start takes over. Of a sysctl that was neither 0 nor 1 the hook writes  *)
(* a snapshot that it rejects ever after (read_forwarding_state).          *)
RetryRestores ==
    (unit \in {"inactive", "stopping"} /\ Managed /\ Readable(snap))
        ~> (~Managed \/ unit = "starting")

(* The sysctls are on loan: every behaviour of the hook is one of the      *)
(* abstract specification, in which settings are given back only with the  *)
(* values their owner left in them.                                        *)
Loan == INSTANCE SysctlLoan WITH
    value <- sysctl, owned <- orig, lent <- Managed

ImplementsLoan == Loan!Spec
=============================================================================
