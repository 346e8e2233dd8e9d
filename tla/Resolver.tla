------------------------------ MODULE Resolver ------------------------------
(***************************************************************************)
(* The resolver side of the systemd hook: src/src/systemd/resolv_conf.py   *)
(* and the resolver migration of src/src/systemd/migrations.py.            *)
(*                                                                         *)
(*   - /etc/resolv.conf, which belongs to the administrator or another     *)
(*     manager and which mitmwall replaces by a symlink to resolved's      *)
(*     stub while it runs;                                                 *)
(*   - the saved original, in /var/lib/mitmwall, and the one an older      *)
(*     release kept in /run/mitmwall, which does not survive a reboot;     *)
(*   - the hook's start and stop, one action per file it replaces or       *)
(*     removes, any of which may fail or be the last before a kill.        *)
(***************************************************************************)
EXTENDS Naturals

CONSTANTS
    Texts,              \* contents of regular files and targets of symlinks
    External,           \* those that name a non-loopback nameserver
    StubTarget,         \* /run/systemd/resolve/stub-resolv.conf
    Owners, Root,       \* owners of the path; the hook creates it as Root
    Absent,             \* nothing is there
    ManagerEntries,     \* what other programs put at /etc/resolv.conf
    ManagerInterleaves, \* whether they do so while the hook runs
    MaxFaults           \* bound: operations that fail and hooks that are killed

ASSUME TextAssumption ==
    /\ External \subseteq Texts
    /\ StubTarget \in Texts \ External
    /\ Root \in Owners

Entries == [kind : {"file", "symlink"}, body : Texts, owner : Owners]

ASSUME EntryAssumption ==
    /\ ManagerEntries \subseteq Entries
    /\ Absent \notin Entries
    /\ ManagerInterleaves \in BOOLEAN
    /\ MaxFaults \in Nat

(* What replace_with_symlink leaves at /etc/resolv.conf.                   *)
Symlink(target) == [kind |-> "symlink", body |-> target, owner |-> Root]

VARIABLES
    conf,     \* /etc/resolv.conf
    saved,    \* /var/lib/mitmwall/resolv-conf-state.json
    legacy,   \* /run/mitmwall/resolv-conf-state.json
    manage,   \* manage_resolv_conf in config.toml
    unit,     \* the systemd unit
    pc,       \* the step the running hook has reached
    found,    \* restore_system_resolver's state_file
    theirs,   \* history: the entry other programs last put there
    faults    \* history: faults so far

files == <<conf, saved, legacy>>
vars  == <<files, manage, unit, pc, found, theirs, faults>>

Units  == {"inactive", "starting", "active", "stopping"}
Labels == {"idle", "migrate", "migrated", "configure", "forget", "save", "switch",
           "rules", "recover", "restore", "replace", "chown", "drop"}

TypeOK ==
    /\ conf \in Entries \cup {Absent}
    /\ saved \in Entries \cup {Absent}
    /\ legacy \in Entries \cup {Absent}
    /\ manage \in BOOLEAN
    /\ unit \in Units
    /\ pc \in Labels
    /\ found \in {"none", "saved", "legacy"}
    /\ theirs \in Entries \cup {Absent}
    /\ faults \in 0..MaxFaults

(* find_resolver_state_file: the current file first.                       *)
StateFile == IF saved # Absent THEN "saved" ELSE IF legacy # Absent THEN "legacy" ELSE "none"

Contents(file) == IF file = "saved" THEN saved ELSE legacy

IsStub(entry) == entry # Absent /\ entry.kind = "symlink" /\ entry.body = StubTarget

UsesExternal(entry) == entry # Absent /\ entry.body \in External

(* A fresh installation, or an upgrade: an older release was killed while  *)
(* it held resolv.conf, and left its snapshot in /run; a snapshot of the   *)
(* current format may be there as well and then is the valid one.          *)
Init ==
    /\ theirs \in ManagerEntries
    /\ \/ conf = theirs /\ saved = Absent /\ legacy = Absent
       \/ /\ conf = Symlink(StubTarget)
          /\ \/ saved = Absent /\ legacy = theirs
             \/ saved = theirs /\ legacy \in ManagerEntries
    /\ manage \in BOOLEAN
    /\ unit = "inactive"
    /\ pc = "idle"
    /\ found = "none"
    /\ faults = 0

-----------------------------------------------------------------------------
Fault == faults < MaxFaults /\ faults' = faults + 1

(* The hook is gone: a start that did not succeed is followed by           *)
(* ExecStopPost.                                                           *)
Exit(ok) ==
    /\ pc' = "idle"
    /\ found' = "none"
    /\ unit' = IF unit # "starting" THEN "inactive"
               ELSE IF ok THEN "active" ELSE "stopping"

RemoveState(file) ==
    IF file = "saved" THEN saved' = Absent /\ UNCHANGED legacy
                      ELSE legacy' = Absent /\ UNCHANGED saved

-----------------------------------------------------------------------------
(* main: start, and migrate_legacy_resolver_state                          *)

Start ==
    /\ unit = "inactive" /\ pc = "idle"
    /\ unit' = "starting"
    /\ pc' = "migrate"
    /\ UNCHANGED <<files, manage, found, theirs, faults>>

MigrateNothing ==
    /\ pc = "migrate" /\ legacy = Absent
    /\ pc' = "configure"
    /\ UNCHANGED <<files, manage, unit, found, theirs, faults>>

(* The copy is complete before it takes its final name.                    *)
MigrateCopies ==
    /\ pc = "migrate" /\ legacy # Absent /\ saved = Absent
    /\ saved' = legacy
    /\ pc' = "migrated"
    /\ UNCHANGED <<conf, legacy, manage, unit, found, theirs, faults>>

(* A current snapshot wins: the old one is only removed.                   *)
MigrateRemoves ==
    /\ \/ pc = "migrated"
       \/ pc = "migrate" /\ legacy # Absent /\ saved # Absent
    /\ legacy' = Absent
    /\ pc' = "configure"
    /\ UNCHANGED <<conf, saved, manage, unit, found, theirs, faults>>

-----------------------------------------------------------------------------
(* configure_system_resolver                                               *)

(* Mutation: an existing snapshot is taken to mean "already switched".     *)
LeaveUnchangedIfSaved ==
    /\ pc = "configure"
    /\ manage /\ UsesExternal(conf) => StateFile # "none"
    /\ pc' = "rules"
    /\ UNCHANGED <<files, manage, unit, found, theirs, faults>>

LeaveUnchanged ==
    /\ pc = "configure"
    /\ manage => ~UsesExternal(conf)
    /\ pc' = "rules"
    /\ UNCHANGED <<files, manage, unit, found, theirs, faults>>

(* resolved is inactive, or its stub is missing or not on loopback.        *)
StubUnusable ==
    /\ pc = "configure"
    /\ manage /\ UsesExternal(conf)
    /\ pc' = "recover"
    /\ UNCHANGED <<files, manage, unit, found, theirs, faults>>

(* Mutation: an existing snapshot is trusted and kept.                     *)
StubUsableKeepsSnapshot ==
    /\ pc = "configure"
    /\ manage /\ UsesExternal(conf)
    /\ pc' = IF StateFile = "none" THEN "save" ELSE "switch"
    /\ UNCHANGED <<files, manage, unit, found, theirs, faults>>

StubUsable ==
    /\ pc = "configure"
    /\ manage /\ UsesExternal(conf)
    /\ pc' = "forget"
    /\ UNCHANGED <<files, manage, unit, found, theirs, faults>>

(* What an earlier run saved is out of date: resolv.conf is not the stub.  *)
ForgetPrevious ==
    /\ pc = "forget"
    /\ IF StateFile = "none" THEN UNCHANGED <<saved, legacy>> ELSE RemoveState(StateFile)
    /\ pc' = "save"
    /\ UNCHANGED <<conf, manage, unit, found, theirs, faults>>

SaveState ==
    /\ pc = "save"
    /\ StateFile = "none" => conf # Absent
    /\ saved' = IF StateFile = "none" THEN conf ELSE saved
    /\ pc' = "switch"
    /\ UNCHANGED <<conf, legacy, manage, unit, found, theirs, faults>>

SwitchToStub ==
    /\ pc = "switch"
    /\ conf' = Symlink(StubTarget)
    /\ pc' = "rules"
    /\ UNCHANGED <<saved, legacy, manage, unit, found, theirs, faults>>

(* ensure_web_rules_file and add_rules come last in main's try.            *)
RulesInstalled ==
    /\ pc = "rules"
    /\ Exit(TRUE)
    /\ UNCHANGED <<files, manage, theirs, faults>>

StartFails ==
    /\ pc \in {"migrate", "migrated", "configure", "forget", "save", "switch", "rules"}
    /\ Fault
    /\ pc' = "recover"
    /\ UNCHANGED <<files, manage, unit, found, theirs>>

(* Custom rules and bypass users are parsed before main's try.             *)
ConfigurationInvalid ==
    /\ pc = "migrate"
    /\ Fault
    /\ Exit(FALSE)
    /\ UNCHANGED <<files, manage, theirs>>

(* main's handler restores the forwarding first; if that raises, the       *)
(* resolver is left as it is.                                              *)
RecoverResolver ==
    /\ pc = "recover"
    /\ pc' = "restore"
    /\ UNCHANGED <<files, manage, unit, found, theirs, faults>>

RecoverSkipsResolver ==
    /\ pc = "recover"
    /\ Fault
    /\ Exit(FALSE)
    /\ UNCHANGED <<files, manage, theirs>>

-----------------------------------------------------------------------------
(* restore_system_resolver                                                 *)

NothingToRestore ==
    /\ pc = "restore" /\ StateFile = "none"
    /\ Exit(FALSE)
    /\ UNCHANGED <<files, manage, theirs, faults>>

(* Mutation: the entry is kept, and so is the stale snapshot.              *)
KeepCurrentAndSnapshot ==
    /\ pc = "restore" /\ StateFile # "none"
    /\ conf # Absent /\ ~IsStub(conf)
    /\ Exit(FALSE)
    /\ UNCHANGED <<files, manage, theirs, faults>>

(* Another manager replaced resolv.conf: its entry stays.                  *)
KeepCurrent ==
    /\ pc = "restore" /\ StateFile # "none"
    /\ conf # Absent /\ ~IsStub(conf)
    /\ found' = StateFile
    /\ pc' = "drop"
    /\ UNCHANGED <<files, manage, unit, theirs, faults>>

(* Mutation: the snapshot is restored over whatever is there.              *)
RestoreReadsAlways ==
    /\ pc = "restore" /\ StateFile # "none"
    /\ found' = StateFile
    /\ pc' = "replace"
    /\ UNCHANGED <<files, manage, unit, theirs, faults>>

RestoreReads ==
    /\ pc = "restore" /\ StateFile # "none"
    /\ conf # Absent => IsStub(conf)
    /\ found' = StateFile
    /\ pc' = "replace"
    /\ UNCHANGED <<files, manage, unit, theirs, faults>>

(* A file gets its owner before it gets its name...                        *)
ReplaceWithFile ==
    /\ pc = "replace" /\ Contents(found).kind = "file"
    /\ conf' = Contents(found)
    /\ pc' = "drop"
    /\ UNCHANGED <<saved, legacy, manage, unit, found, theirs, faults>>

(* ... a symlink afterwards. *)
ReplaceWithSymlink ==
    /\ pc = "replace" /\ Contents(found).kind = "symlink"
    /\ conf' = Symlink(Contents(found).body)
    /\ pc' = "chown"
    /\ UNCHANGED <<saved, legacy, manage, unit, found, theirs, faults>>

ChownSymlink ==
    /\ pc = "chown"
    /\ conf' = [conf EXCEPT !.owner = Contents(found).owner]
    /\ pc' = "drop"
    /\ UNCHANGED <<saved, legacy, manage, unit, found, theirs, faults>>

DropState ==
    /\ pc = "drop"
    /\ RemoveState(found)
    /\ Exit(FALSE)
    /\ UNCHANGED <<conf, manage, theirs, faults>>

RestoreFails ==
    /\ pc \in {"restore", "replace", "chown", "drop"}
    /\ Fault
    /\ Exit(FALSE)
    /\ UNCHANGED <<files, manage, theirs>>

-----------------------------------------------------------------------------
(* systemd, the operator, other managers, the machine                      *)

Deactivate ==
    /\ unit = "active" /\ pc = "idle"
    /\ unit' = "stopping"
    /\ UNCHANGED <<files, manage, pc, found, theirs, faults>>

(* "hook.py stop": the resolver comes last, whatever happened before.      *)
Stop ==
    /\ unit \in {"stopping", "inactive"} /\ pc = "idle"
    /\ pc' = "restore"
    /\ UNCHANGED <<files, manage, unit, found, theirs, faults>>

Killed ==
    /\ pc # "idle"
    /\ Fault
    /\ Exit(FALSE)
    /\ UNCHANGED <<files, manage, theirs>>

(* An administrator, PVE or a DHCP client replaces resolv.conf.            *)
ManagerReplaces ==
    /\ pc = "idle" \/ ManagerInterleaves
    /\ conf' \in ManagerEntries
    /\ theirs' = conf'
    /\ UNCHANGED <<saved, legacy, manage, unit, pc, found, faults>>

ManagerRemoves ==
    /\ pc = "idle"
    /\ conf' = Absent
    /\ theirs' = Absent
    /\ UNCHANGED <<saved, legacy, manage, unit, pc, found, faults>>

EditConfig ==
    /\ pc = "idle"
    /\ manage' = ~manage
    /\ UNCHANGED <<files, unit, pc, found, theirs, faults>>

(* /run is lost. An original that only the older release's snapshot held   *)
(* is lost with it: nobody can tell any more that the stub is not theirs.  *)
Reboot ==
    /\ Fault
    /\ legacy' = Absent
    /\ theirs' = IF saved = Absent /\ legacy # Absent /\ IsStub(conf) THEN conf ELSE theirs
    /\ unit' = "inactive"
    /\ pc' = "idle"
    /\ found' = "none"
    /\ UNCHANGED <<conf, saved, manage>>

StartSteps ==
    \/ MigrateNothing \/ MigrateCopies \/ MigrateRemoves
    \/ LeaveUnchanged \/ StubUnusable \/ StubUsable
    \/ ForgetPrevious \/ SaveState \/ SwitchToStub
    \/ RulesInstalled \/ StartFails \/ ConfigurationInvalid
    \/ RecoverResolver \/ RecoverSkipsResolver

RestoreSteps ==
    \/ NothingToRestore \/ KeepCurrent \/ RestoreReads
    \/ ReplaceWithFile \/ ReplaceWithSymlink \/ ChownSymlink
    \/ DropState \/ RestoreFails

Next ==
    \/ Start \/ StartSteps \/ RestoreSteps \/ Deactivate \/ Stop \/ Killed
    \/ ManagerReplaces \/ ManagerRemoves \/ EditConfig \/ Reboot

Spec == Init /\ [][Next]_vars

(* A hook that runs goes on running, systemd starts ExecStopPost, and the  *)
(* operator repeats a stop that left a snapshot behind.                    *)
HookRuns == StartSteps \/ RestoreSteps
RetryStop == StateFile # "none" /\ Stop

Fairness ==
    WF_vars(HookRuns) /\ WF_vars(unit = "stopping" /\ Stop) /\ SF_vars(RetryStop)

FairSpec == Spec /\ Fairness

-----------------------------------------------------------------------------
(* Properties                                                              *)

(* The same configuration, whoever owns the path.                          *)
Same(a, b) == a # Absent /\ b # Absent /\ a.kind = b.kind /\ a.body = b.body

(* What other programs configured is never lost: it is at /etc/resolv.conf *)
(* or in the snapshot that the next stop will restore, whatever failed.    *)
Recoverable ==
    theirs # Absent => Same(conf, theirs) \/ Same(Contents(StateFile), theirs)

(* The hook changes /etc/resolv.conf only from what others put there to    *)
(* the stub, and from the stub or a missing file to what others put there. *)
OnlyStubAndBack ==
    [][conf' # conf =>
         \/ theirs' = conf'
         \/ Same(conf, theirs) /\ UsesExternal(conf) /\ conf' = Symlink(StubTarget)
         \/ (IsStub(conf) \/ Same(conf, conf')) /\ Same(conf', theirs)
         \/ theirs = Absent]_vars

(* The hairpin the module exists for never happens: no start succeeds with *)
(* resolv.conf naming an upstream server, unless the operator opted out.   *)
NoHairpin ==
    [][unit = "starting" /\ unit' = "active" /\ manage => ~UsesExternal(conf)]_vars

(* A restoration that failed stays retryable.                              *)
RetryRestores ==
    (unit \in {"inactive", "stopping"} /\ StateFile # "none")
        ~> (StateFile = "none" \/ unit = "starting")
=============================================================================
