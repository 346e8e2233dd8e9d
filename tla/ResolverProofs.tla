--------------------------- MODULE ResolverProofs ---------------------------
(***************************************************************************)
(* Proofs about Resolver: what other programs configured is never lost,    *)
(* and the hook moves /etc/resolv.conf only between their entry and the    *)
(* stub. Both hold for all contents, owners and entries, provided that     *)
(* other programs do not link the stub themselves and do not write while   *)
(* the hook runs. A link to the stub that others made is taken for         *)
(* mitmwall's own, and a write between the hook's check and its rename is  *)
(* overwritten.                                                            *)
(***************************************************************************)
EXTENDS Resolver, TLAPS

(* The two conditions on other programs.                                   *)
QuietManagers ==
    /\ ManagerInterleaves = FALSE
    /\ \A e \in ManagerEntries : ~IsStub(e)

(* An entry that is neither missing nor the stub is theirs, and a missing  *)
(* one was removed by them.                                                *)
EntryInv ==
    /\ conf = Absent => theirs = Absent
    /\ conf # Absent /\ ~IsStub(conf) /\ theirs # Absent => Same(conf, theirs)
    /\ IsStub(theirs) => StateFile = "none"

(* How far a start has got.                                                *)
StartInv ==
    /\ pc = "migrated" => saved # Absent /\ legacy # Absent
    /\ pc \in {"configure", "forget", "save", "switch", "rules"} => legacy = Absent
    /\ pc \in {"forget", "save", "switch"} => UsesExternal(conf)
    /\ pc = "save" => saved = Absent
    /\ pc = "switch" => saved = conf
    /\ pc = "rules" /\ manage => ~UsesExternal(conf)

(* How far a restoration has got.                                          *)
RestoreInv ==
    /\ pc \in {"replace", "chown", "drop"} => found = StateFile /\ found # "none"
    /\ pc = "replace" => conf = Absent \/ IsStub(conf)
    /\ pc = "chown" => conf # Absent
    /\ pc \in {"chown", "drop"} => conf # Absent /\ (theirs # Absent => Same(conf, theirs))

IInv == TypeOK /\ Recoverable /\ EntryInv /\ StartInv /\ RestoreInv
-----------------------------------------------------------------------------
(* Two entries that are the same configuration agree on being the stub.    *)
LEMMA SameFacts ==
    /\ ~IsStub(Absent) /\ ~UsesExternal(Absent)
    /\ \A a, b : Same(a, b) => a # Absent /\ b # Absent /\ (IsStub(a) <=> IsStub(b))
    /\ \A a : a # Absent => Same(a, a)
    /\ \A a, b : Same(a, b) => Same(b, a)
    /\ \A a, b, c : Same(a, b) /\ Same(b, c) => Same(a, c)
    /\ \A a : a # Absent /\ a.kind = "symlink" /\ Symlink(a.body) # Absent
           => Same(Symlink(a.body), a)
  BY DEF Same, IsStub, UsesExternal, Symlink

(* The stub is an entry, and not one that names an upstream server.        *)
LEMMA EntryFacts ==
    /\ Absent \notin Entries
    /\ \A text \in Texts : Symlink(text) \in Entries
    /\ IsStub(Symlink(StubTarget))
    /\ \A e \in Entries : UsesExternal(e) => ~IsStub(e)
    /\ \A e \in Entries : e.kind \in {"file", "symlink"} /\ e.body \in Texts /\ e.owner \in Owners
    /\ \A e \in Entries, o \in Owners :
         /\ [e EXCEPT !.owner = o] \in Entries
         /\ Same(e, [e EXCEPT !.owner = o])
  BY TextAssumption, EntryAssumption
  DEF Entries, Symlink, IsStub, UsesExternal, Same

LEMMA InitInv == ASSUME QuietManagers PROVE Init => IInv
  BY EntryFacts, TextAssumption, EntryAssumption
  DEF QuietManagers, Init, IInv, TypeOK, Recoverable, EntryInv, StartInv, RestoreInv,
      Same, IsStub, Contents, StateFile, Units, Labels, Symlink

LEMMA StepInv == ASSUME QuietManagers PROVE IInv /\ [Next]_vars => IInv'
<1> SUFFICES ASSUME IInv, [Next]_vars PROVE IInv'
  OBVIOUS
<1> USE EntryFacts, SameFacts, TextAssumption, EntryAssumption
    DEF QuietManagers, IInv, TypeOK, Recoverable, EntryInv, StartInv, RestoreInv,
      StateFile, Contents, Units, Labels, Fault, Exit, RemoveState, files
<1>1. CASE Start
  BY <1>1 DEF Start
<1>2. CASE MigrateNothing
  BY <1>2 DEF MigrateNothing
<1>3. CASE MigrateCopies
  BY <1>3 DEF MigrateCopies
<1>4. CASE MigrateRemoves
  BY <1>4 DEF MigrateRemoves
<1>5. CASE LeaveUnchanged
  BY <1>5 DEF LeaveUnchanged
<1>6. CASE StubUnusable
  BY <1>6 DEF StubUnusable
<1>7. CASE StubUsable
  BY <1>7 DEF StubUsable
<1>8. CASE ForgetPrevious
  BY <1>8 DEF ForgetPrevious
<1>9. CASE SaveState
  BY <1>9 DEF SaveState
<1>10. CASE SwitchToStub
  BY <1>10 DEF SwitchToStub
<1>11. CASE RulesInstalled
  BY <1>11 DEF RulesInstalled
<1>12. CASE StartFails
  BY <1>12 DEF StartFails
<1>13. CASE ConfigurationInvalid
  BY <1>13 DEF ConfigurationInvalid
<1>14. CASE RecoverResolver
  BY <1>14 DEF RecoverResolver
<1>15. CASE RecoverSkipsResolver
  BY <1>15 DEF RecoverSkipsResolver
<1>16. CASE NothingToRestore
  BY <1>16 DEF NothingToRestore
<1>17. CASE KeepCurrent
  BY <1>17 DEF KeepCurrent
<1>18. CASE RestoreReads
  BY <1>18 DEF RestoreReads
<1>19. CASE ReplaceWithFile
  BY <1>19 DEF ReplaceWithFile
<1>20. CASE ReplaceWithSymlink
  BY <1>20 DEF ReplaceWithSymlink
<1>21. CASE ChownSymlink
  <2>1. Contents(found) \in Entries /\ conf \in Entries
    BY <1>21 DEF ChownSymlink
  <2>2. conf' \in Entries /\ Same(conf, conf')
    BY <1>21, <2>1 DEF ChownSymlink
  <2>3. theirs # Absent => Same(conf', theirs)
    BY <1>21, <2>2 DEF ChownSymlink
  <2>4. UNCHANGED <<saved, legacy, theirs, found, manage, unit, faults>> /\ pc' = "drop"
    BY <1>21 DEF ChownSymlink
  <2> QED BY <1>21, <2>2, <2>3, <2>4 DEF ChownSymlink
<1>22. CASE DropState
  BY <1>22 DEF DropState
<1>23. CASE RestoreFails
  BY <1>23 DEF RestoreFails
<1>24. CASE Deactivate
  BY <1>24 DEF Deactivate
<1>25. CASE Stop
  BY <1>25 DEF Stop
<1>26. CASE Killed
  BY <1>26 DEF Killed
<1>27. CASE ManagerReplaces
  BY <1>27 DEF ManagerReplaces
<1>28. CASE ManagerRemoves
  BY <1>28 DEF ManagerRemoves
<1>29. CASE EditConfig
  BY <1>29 DEF EditConfig
<1>30. CASE Reboot
  BY <1>30 DEF Reboot
<1>31. CASE UNCHANGED vars
  BY <1>31 DEF vars
<1> QED BY <1>1, <1>2, <1>3, <1>4, <1>5, <1>6, <1>7, <1>8, <1>9, <1>10, <1>11, <1>12, <1>13, <1>14, <1>15, <1>16, <1>17, <1>18, <1>19, <1>20, <1>21, <1>22, <1>23, <1>24, <1>25, <1>26, <1>27, <1>28, <1>29, <1>30, <1>31 DEF Next, StartSteps, RestoreSteps

-----------------------------------------------------------------------------
(* The strengthened invariant holds in every reachable state.              *)
THEOREM Inductive == ASSUME QuietManagers PROVE Spec => []IInv
<1>1. Init => IInv
  BY InitInv
<1>2. IInv /\ [Next]_vars => IInv'
  BY StepInv
<1> QED BY <1>1, <1>2, PTL DEF Spec

(* Entries, owners and snapshots stay what they are, labels included       *)
(* (resolv_conf.py, migrations.py).                                        *)
THEOREM TypeCorrect == ASSUME QuietManagers PROVE Spec => []TypeOK
<1>1. IInv => TypeOK
  BY DEF IInv
<1> QED BY <1>1, Inductive, PTL

(* Whatever fails or dies in configure_system_resolver, in the migration   *)
(* or in restore_system_resolver, the entry it replaced can be restored.   *)
THEOREM NeverLost == ASSUME QuietManagers PROVE Spec => []Recoverable
<1>1. IInv => Recoverable
  BY DEF IInv
<1> QED BY <1>1, Inductive, PTL

(* The hook itself never installs anything but the stub or their entry.    *)
THEOREM StubAndBack == ASSUME QuietManagers PROVE Spec => OnlyStubAndBack
<1> DEFINE Moves ==
      conf' # conf =>
        \/ theirs' = conf'
        \/ Same(conf, theirs) /\ UsesExternal(conf) /\ conf' = Symlink(StubTarget)
        \/ (IsStub(conf) \/ Same(conf, conf')) /\ Same(conf', theirs)
        \/ theirs = Absent
<1>1. ASSUME IInv, [Next]_vars PROVE Moves
  <2>1. CASE SwitchToStub
    <3>1. UsesExternal(conf) /\ conf \in Entries
      BY <1>1, <2>1, SameFacts DEF SwitchToStub, IInv, TypeOK, StartInv
    <3>2. theirs # Absent => Same(conf, theirs)
      BY <1>1, <3>1, EntryFacts DEF IInv, EntryInv
    <3> QED BY <2>1, <3>1, <3>2 DEF SwitchToStub
  <2>2. CASE ReplaceWithFile \/ ReplaceWithSymlink
    <3>1. found = StateFile /\ Contents(found) \in Entries
      BY <1>1, <2>2 DEF ReplaceWithFile, ReplaceWithSymlink, IInv, TypeOK, RestoreInv,
                        StateFile, Contents
    <3>2. theirs # Absent => IsStub(conf) /\ Same(Contents(found), theirs)
      \* Their entry is not at conf, so the invariant finds it in the snapshot.
      <4>1. conf = Absent \/ IsStub(conf)
        BY <1>1, <2>2 DEF ReplaceWithFile, ReplaceWithSymlink, IInv, RestoreInv
      <4>2. ~IsStub(theirs)
        BY <1>1, <2>2 DEF ReplaceWithFile, ReplaceWithSymlink, IInv, EntryInv, RestoreInv
      <4> QED BY <1>1, <3>1, <4>1, <4>2, SameFacts DEF IInv, Recoverable, EntryInv
    <3>3. Same(conf', Contents(found))
      BY <2>2, <3>1, SameFacts, EntryFacts DEF ReplaceWithFile, ReplaceWithSymlink
    <3> QED BY <3>2, <3>3, SameFacts
  <2>3. CASE ChownSymlink
    <3>1. conf \in Entries /\ Contents(found) \in Entries
      BY <1>1, <2>3 DEF ChownSymlink, IInv, TypeOK, RestoreInv, StateFile, Contents
    <3>2. Same(conf, conf')
      BY <2>3, <3>1, EntryFacts DEF ChownSymlink
    <3>3. theirs # Absent => Same(conf, theirs)
      BY <1>1, <2>3 DEF ChownSymlink, IInv, RestoreInv
    <3> QED BY <3>2, <3>3, SameFacts
  <2>4. CASE ManagerReplaces \/ ManagerRemoves
    BY <2>4 DEF ManagerReplaces, ManagerRemoves
  <2>5. ASSUME conf' = conf PROVE Moves
    BY <2>5
  <2> QED
    BY <1>1, <2>1, <2>2, <2>3, <2>4, <2>5
    DEF Next, StartSteps, RestoreSteps, vars, files, Start, MigrateNothing, MigrateCopies,
        MigrateRemoves, LeaveUnchanged, StubUnusable, StubUsable, ForgetPrevious, SaveState,
        RulesInstalled, StartFails, ConfigurationInvalid, RecoverResolver,
        RecoverSkipsResolver, NothingToRestore, KeepCurrent, RestoreReads, DropState,
        RestoreFails, Deactivate, Stop, Killed, EditConfig, Reboot
<1>2. IInv /\ [Next]_vars => [Moves]_vars
  BY <1>1
<1> QED BY <1>2, Inductive, PTL DEF Spec, OnlyStubAndBack

(* A start that ends well has left no upstream resolver in place, unless   *)
(* the operator opted out (configure_system_resolver, main).               *)
THEOREM Unhairpinned == ASSUME QuietManagers PROVE Spec => NoHairpin
<1>1. IInv /\ [Next]_vars =>
        [unit = "starting" /\ unit' = "active" /\ manage => ~UsesExternal(conf)]_vars
  <2> SUFFICES ASSUME IInv, Next, unit = "starting", unit' = "active", manage
               PROVE  ~UsesExternal(conf)
    BY DEF vars
  <2>1. CASE RulesInstalled
    BY <2>1 DEF RulesInstalled, IInv, StartInv
  <2>2. CASE Start \/ MigrateNothing \/ MigrateCopies \/ MigrateRemoves \/ LeaveUnchanged
             \/ StubUnusable \/ StubUsable \/ ForgetPrevious \/ SaveState \/ SwitchToStub
             \/ StartFails \/ RecoverResolver
    BY <2>2 DEF Start, MigrateNothing, MigrateCopies, MigrateRemoves, LeaveUnchanged,
       StubUnusable, StubUsable, ForgetPrevious, SaveState, SwitchToStub, StartFails,
       RecoverResolver
  <2>3. CASE ConfigurationInvalid \/ RecoverSkipsResolver \/ NothingToRestore \/ KeepCurrent
             \/ RestoreReads \/ ReplaceWithFile \/ ReplaceWithSymlink \/ ChownSymlink
             \/ DropState \/ RestoreFails
    BY <2>3 DEF ConfigurationInvalid, RecoverSkipsResolver, NothingToRestore, KeepCurrent,
       RestoreReads, ReplaceWithFile, ReplaceWithSymlink, ChownSymlink, DropState,
       RestoreFails, Exit
  <2>4. CASE Deactivate \/ Stop \/ Killed \/ EditConfig \/ Reboot \/ ManagerReplaces
             \/ ManagerRemoves
    BY <2>4 DEF Deactivate, Stop, Killed, EditConfig, Reboot, ManagerReplaces, ManagerRemoves, Exit
  <2> QED
    BY <2>1, <2>2, <2>3, <2>4 DEF Next, StartSteps, RestoreSteps
<1> QED
  BY <1>1, Inductive, PTL DEF Spec, NoHairpin
=============================================================================
