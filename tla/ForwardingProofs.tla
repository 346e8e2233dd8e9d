-------------------------- MODULE ForwardingProofs --------------------------
(***************************************************************************)
(* Proofs about Forwarding, for every list of families, every set of       *)
(* sysctl values and every number of faults.                               *)
(*                                                                         *)
(* None of the properties is inductive by itself: that the snapshot holds  *)
(* the original values depends on the sysctls being original before it is  *)
(* taken, and that in turn on what a restoration has already written when  *)
(* it unlinks the snapshot. IInv says what holds at every step of the hook.*)
(***************************************************************************)
EXTENDS Forwarding, TLAPS

(* Which steps belong to which state of the unit.                          *)
ControlInv ==
    /\ pc \in {"prepare", "load", "drop", "insert", "enable", "policy"}
         => unit = "starting"
    /\ pc \in {"restore", "write", "unguard", "unlink"}
         => \/ unit = "starting" /\ caller \in {"enable", "main"}
            \/ unit \in {"stopping", "inactive"} /\ caller = "stop"
    /\ pc = "idle" => unit # "starting"

(* The state the hook holds is the snapshot on disk.                       *)
LoadedInv ==
    pc \in {"drop", "insert", "enable", "policy", "write", "unguard", "unlink"}
        => Managed /\ state = snap

(* A guard blocks only families the administrator had switched off.        *)
GuardInv == \A f \in Families : f \in guard => orig[f] = 0

Guarded(f) == orig[f] = 0 => f \in guard

(* How far a start has got.                                                *)
StartInv ==
    /\ pc \in {"drop", "insert"} => \A i \in 1..(k - 1) : Guarded(FamilyOrder[i])
    /\ pc \in {"enable", "policy"} => \A f \in Families : Guarded(f)
    /\ pc = "insert" => orig[FamilyOrder[k]] = 0
    /\ pc = "enable" => \A i \in 1..(k - 1) : sysctl[Order[i]] = Target(Order[i])
    /\ pc = "policy" => \A s \in Settings : sysctl[s] = Target(s)
    /\ unit = "active" => /\ Managed
                          /\ \A f \in Families : Guarded(f)
                          /\ \A s \in Settings : sysctl[s] = Target(s)

(* How far a restoration has got.                                          *)
RestoreInv ==
    /\ pc = "write" /\ failures = {} => \A i \in 1..(k - 1) : sysctl[Order[i]] = orig[Order[i]]
    /\ pc \in {"unguard", "unlink"} => sysctl = orig
    /\ pc = "unguard" => \A i \in 1..(k - 1) : FamilyOrder[i] \notin guard
    /\ pc = "unlink" => guard = {}

IInv ==
    /\ TypeOK
    /\ SnapshotIsOriginal
    /\ UnmanagedIsOriginal
    /\ ControlInv
    /\ LoadedInv
    /\ GuardInv
    /\ StartInv
    /\ RestoreInv
-----------------------------------------------------------------------------
(* The order of the writes: every family in the order of the list, then    *)
(* send_redirects, and every setting is written.                           *)
LEMMA OrderFacts ==
    /\ Len(FamilyOrder) \in Nat \ {0}
    /\ Len(Order) = Len(FamilyOrder) + 1
    /\ \A i \in 1..Len(FamilyOrder) :
         FamilyOrder[i] \in Families /\ Order[i] = FamilyOrder[i]
    /\ \A i, j \in 1..Len(FamilyOrder) : FamilyOrder[i] = FamilyOrder[j] => i = j
    /\ \A f \in Families : \E i \in 1..Len(FamilyOrder) : FamilyOrder[i] = f
    /\ Order[Len(Order)] = SendRedirects
    /\ \A i \in 1..Len(Order) : Order[i] \in Settings
    /\ \A s \in Settings : \E i \in 1..Len(Order) : Order[i] = s
<1>1. /\ Len(FamilyOrder) \in Nat \ {0}
      /\ Len(Order) = Len(FamilyOrder) + 1
      /\ \A i \in 1..Len(FamilyOrder) :
           FamilyOrder[i] \in Families /\ Order[i] = FamilyOrder[i]
      /\ Order[Len(Order)] = SendRedirects
  BY FamilyAssumption DEF Order
<1>2. \A i \in 1..Len(Order) : Order[i] \in Settings
  BY <1>1 DEF Settings
<1>3. \A s \in Settings : \E i \in 1..Len(Order) : Order[i] = s
  BY <1>1, FamilyAssumption DEF Settings
<1> QED BY <1>1, <1>2, <1>3, FamilyAssumption

(* The target values are values, and a missing snapshot is not a snapshot. *)
LEMMA ValueFacts ==
    /\ \A s \in Settings : Target(s) \in SysctlValues
    /\ NoSnapshot \notin Snapshots
  BY ValueAssumption DEF Target, Settings, Snapshots

LEMMA InitInv == Init => IInv
  BY OrderFacts, FaultAssumption
  DEF Init, IInv, TypeOK, SnapshotIsOriginal, UnmanagedIsOriginal, Managed, Snapshots,
      ControlInv, LoadedInv, GuardInv, Guarded, StartInv, RestoreInv, Units, Labels, Callers

LEMMA StepInv == IInv /\ [Next]_vars => IInv'
<1> SUFFICES ASSUME IInv, [Next]_vars PROVE IInv'
  OBVIOUS
<1> USE OrderFacts, FaultAssumption, ValueFacts
    DEF IInv, TypeOK, SnapshotIsOriginal, UnmanagedIsOriginal, Managed,
      ControlInv, LoadedInv, GuardInv, Guarded, StartInv, RestoreInv, Units, Labels, Callers,
      Goto, Fault, Exit, CallRestore, RestoreEnds, NextFamily, NextWrite, kernel, hook
<1>1. CASE Start
  BY <1>1 DEF Start
<1>2. CASE Prepared
  BY <1>2 DEF Prepared
<1>3. CASE ConfigurationInvalid
  BY <1>3 DEF ConfigurationInvalid
<1>4. CASE PrepareFails
  BY <1>4 DEF PrepareFails
<1>5. CASE LoadOrCreate
  <2>1. TypeOK'
    BY <1>5 DEF LoadOrCreate
  <2>2. SnapshotIsOriginal'
    BY <1>5 DEF LoadOrCreate
  <2>3. UnmanagedIsOriginal'
    BY <1>5 DEF LoadOrCreate
  <2>4. ControlInv'
    BY <1>5 DEF LoadOrCreate
  <2>5. LoadedInv'
    BY <1>5 DEF LoadOrCreate
  <2>6. GuardInv'
    BY <1>5 DEF LoadOrCreate
  <2>7. StartInv'
    BY <1>5 DEF LoadOrCreate
  <2>8. RestoreInv'
    BY <1>5 DEF LoadOrCreate
  <2> QED BY <2>1, <2>2, <2>3, <2>4, <2>5, <2>6, <2>7, <2>8
<1>6. CASE SnapshotUnreadable
  BY <1>6 DEF SnapshotUnreadable
<1>7. CASE LoadFails
  BY <1>7 DEF LoadFails
<1>8. CASE SkipGuard
  <2>1. TypeOK'
    BY <1>8 DEF SkipGuard
  <2>2. SnapshotIsOriginal'
    BY <1>8 DEF SkipGuard
  <2>3. UnmanagedIsOriginal'
    BY <1>8 DEF SkipGuard
  <2>4. ControlInv'
    BY <1>8 DEF SkipGuard
  <2>5. LoadedInv'
    BY <1>8 DEF SkipGuard
  <2>6. GuardInv'
    BY <1>8 DEF SkipGuard
  <2>7. StartInv'
    BY <1>8 DEF SkipGuard
  <2>8. RestoreInv'
    BY <1>8 DEF SkipGuard
  <2> QED BY <2>1, <2>2, <2>3, <2>4, <2>5, <2>6, <2>7, <2>8
<1>9. CASE DropGuard
  <2>1. TypeOK'
    BY <1>9 DEF DropGuard
  <2>2. SnapshotIsOriginal'
    BY <1>9 DEF DropGuard
  <2>3. UnmanagedIsOriginal'
    BY <1>9 DEF DropGuard
  <2>4. ControlInv'
    BY <1>9 DEF DropGuard
  <2>5. LoadedInv'
    BY <1>9 DEF DropGuard
  <2>6. GuardInv'
    BY <1>9 DEF DropGuard
  <2>7. StartInv'
    BY <1>9 DEF DropGuard
  <2>8. RestoreInv'
    BY <1>9 DEF DropGuard
  <2> QED BY <2>1, <2>2, <2>3, <2>4, <2>5, <2>6, <2>7, <2>8
<1>10. CASE InsertGuard
  <2>1. TypeOK'
    BY <1>10 DEF InsertGuard
  <2>2. SnapshotIsOriginal'
    BY <1>10 DEF InsertGuard
  <2>3. UnmanagedIsOriginal'
    BY <1>10 DEF InsertGuard
  <2>4. ControlInv'
    BY <1>10 DEF InsertGuard
  <2>5. LoadedInv'
    BY <1>10 DEF InsertGuard
  <2>6. GuardInv'
    BY <1>10 DEF InsertGuard
  <2>7. StartInv'
    BY <1>10 DEF InsertGuard
  <2>8. RestoreInv'
    BY <1>10 DEF InsertGuard
  <2> QED BY <2>1, <2>2, <2>3, <2>4, <2>5, <2>6, <2>7, <2>8
<1>11. CASE EnableSetting
  <2>1. TypeOK'
    BY <1>11 DEF EnableSetting, Snapshots
  <2>2. SnapshotIsOriginal'
    BY <1>11 DEF EnableSetting, Snapshots
  <2>3. UnmanagedIsOriginal'
    BY <1>11 DEF EnableSetting, Snapshots
  <2>4. ControlInv'
    BY <1>11 DEF EnableSetting, Snapshots
  <2>5. LoadedInv'
    BY <1>11 DEF EnableSetting, Snapshots
  <2>6. GuardInv'
    BY <1>11 DEF EnableSetting, Snapshots
  <2>7. StartInv'
    BY <1>11 DEF EnableSetting, Snapshots
  <2>8. RestoreInv'
    BY <1>11 DEF EnableSetting, Snapshots
  <2> QED BY <2>1, <2>2, <2>3, <2>4, <2>5, <2>6, <2>7, <2>8
<1>12. CASE EnableFails
  BY <1>12 DEF EnableFails
<1>13. CASE PolicyInstalled
  BY <1>13 DEF PolicyInstalled
<1>14. CASE PolicyFails
  BY <1>14 DEF PolicyFails
<1>15. CASE NothingToRestore
  BY <1>15 DEF NothingToRestore
<1>16. CASE RestoreReads
  BY <1>16 DEF RestoreReads
<1>17. CASE RestoreRefuses
  BY <1>17 DEF RestoreRefuses
<1>18. CASE RestoreSetting
  BY <1>18 DEF RestoreSetting, Snapshots
<1>19. CASE RestoreSettingFails
  <2>1. TypeOK'
    BY <1>19 DEF RestoreSettingFails
  <2>2. SnapshotIsOriginal'
    BY <1>19 DEF RestoreSettingFails
  <2>3. UnmanagedIsOriginal'
    BY <1>19 DEF RestoreSettingFails
  <2>4. ControlInv'
    BY <1>19 DEF RestoreSettingFails
  <2>5. LoadedInv'
    BY <1>19 DEF RestoreSettingFails
  <2>6. GuardInv'
    BY <1>19 DEF RestoreSettingFails
  <2>7. StartInv'
    BY <1>19 DEF RestoreSettingFails
  <2>8. RestoreInv'
    BY <1>19 DEF RestoreSettingFails
  <2> QED BY <2>1, <2>2, <2>3, <2>4, <2>5, <2>6, <2>7, <2>8
<1>20. CASE RemoveGuard
  <2>1. TypeOK'
    BY <1>20 DEF RemoveGuard
  <2>2. SnapshotIsOriginal'
    BY <1>20 DEF RemoveGuard
  <2>3. UnmanagedIsOriginal'
    BY <1>20 DEF RemoveGuard
  <2>4. ControlInv'
    BY <1>20 DEF RemoveGuard
  <2>5. LoadedInv'
    BY <1>20 DEF RemoveGuard
  <2>6. GuardInv'
    BY <1>20 DEF RemoveGuard
  <2>7. StartInv'
    BY <1>20 DEF RemoveGuard
  <2>8. RestoreInv'
    BY <1>20 DEF RemoveGuard
  <2> QED BY <2>1, <2>2, <2>3, <2>4, <2>5, <2>6, <2>7, <2>8
<1>21. CASE ForgetSnapshot
  BY <1>21 DEF ForgetSnapshot
<1>22. CASE RestoreFails
  BY <1>22 DEF RestoreFails
<1>23. CASE Deactivate
  BY <1>23 DEF Deactivate
<1>24. CASE Stop
  BY <1>24 DEF Stop
<1>25. CASE Killed
  BY <1>25 DEF Killed
<1>26. CASE Reboot
  BY <1>26 DEF Reboot
<1>27. CASE AdminSets
  BY <1>27 DEF AdminSets, Snapshots
<1>28. CASE UNCHANGED vars
  BY <1>28 DEF vars
<1> QED BY <1>1, <1>2, <1>3, <1>4, <1>5, <1>6, <1>7, <1>8, <1>9, <1>10, <1>11, <1>12, <1>13, <1>14, <1>15, <1>16, <1>17, <1>18, <1>19, <1>20, <1>21, <1>22, <1>23, <1>24, <1>25, <1>26, <1>27, <1>28 DEF Next, StartSteps, RestoreSteps
-----------------------------------------------------------------------------
(* The strengthened invariant holds in every reachable state.              *)
THEOREM Inductive == Spec => []IInv
<1>1. Init => IInv
  BY InitInv
<1>2. IInv /\ [Next]_vars => IInv'
  BY StepInv
<1> QED BY <1>1, <1>2, PTL DEF Spec

(* Every variable keeps its type: main, enable_forwarding and              *)
(* restore_forwarding never leave their loops' bounds.                     *)
THEOREM TypeCorrect == Spec => []TypeOK
<1>1. IInv => TypeOK
  BY DEF IInv
<1> QED BY <1>1, Inductive, PTL

(* load_or_create_forwarding_state never records a value mitmwall wrote.   *)
THEOREM SnapshotOriginal == Spec => []SnapshotIsOriginal
<1>1. IInv => SnapshotIsOriginal
  BY DEF IInv
<1> QED BY <1>1, Inductive, PTL

(* restore_forwarding unlinks the snapshot only when nothing is left of    *)
(* mitmwall in the sysctls and in FORWARD.                                 *)
THEOREM UnmanagedOriginal == Spec => []UnmanagedIsOriginal
<1>1. IInv => UnmanagedIsOriginal
  BY DEF IInv
<1> QED BY <1>1, Inductive, PTL

(* A unit that systemd shows as active has its sysctls and its guards.     *)
THEOREM RunningGuarded == Spec => []RunningIsGuarded
<1>1. IInv => RunningIsGuarded
  BY DEF IInv, StartInv, RunningIsGuarded, Guarded, Exposed
<1> QED BY <1>1, Inductive, PTL

-----------------------------------------------------------------------------
(* No step but ensure_first's removal of a guard opens transit traffic.    *)
THEOREM ExposureOnlyByReguard == Spec => OnlyReguardExposes
<1> DEFINE Quiet == \A f \in Families :
              ~Exposed(f) /\ Exposed(f)' => pc = "drop" /\ FamilyOrder[k] = f
<1>1. ASSUME IInv, [Next]_vars PROVE Quiet
  <2> SUFFICES ASSUME NEW f \in Families, ~Exposed(f), Exposed(f)'
               PROVE  pc = "drop" /\ FamilyOrder[k] = f
    OBVIOUS
  <2>1. sysctl[f] # 0 /\ orig[f] = 0 => f \in guard
    BY DEF Exposed
  <2>2. sysctl'[f] # 0 /\ orig'[f] = 0 /\ f \notin guard'
    BY DEF Exposed
  <2>3. ~UNCHANGED <<sysctl, guard, orig>>
    BY <2>1, <2>2
  <2>4. CASE DropGuard
    BY <2>1, <2>2, <2>4 DEF DropGuard
  <2>5. CASE EnableSetting
    \* Every family with orig[f] = 0 is guarded before the first write.
    BY <1>1, <2>2, <2>5 DEF EnableSetting, IInv, StartInv, Guarded
  <2>6. CASE RestoreSetting
    \* The value written is the original one.
    <3>1. state = orig /\ sysctl \in Snapshots /\ orig' = orig /\ guard' = guard
      BY <1>1, <2>6 DEF RestoreSetting, IInv, TypeOK, LoadedInv, SnapshotIsOriginal
    <3>2. sysctl'[f] = sysctl[f] \/ sysctl'[f] = orig[f]
      BY <3>1, <2>6 DEF RestoreSetting, Snapshots, Settings
    <3> QED BY <3>1, <3>2, <2>1, <2>2
  <2>7. CASE RemoveGuard
    \* All settings are restored before the first guard goes.
    BY <1>1, <2>2, <2>7 DEF RemoveGuard, IInv, RestoreInv
  <2>8. CASE AdminSets \/ Reboot
    BY <2>2, <2>8 DEF AdminSets, Reboot
  <2>9. CASE InsertGuard
    BY <2>1, <2>2, <2>9 DEF InsertGuard
  <2>10. CASE UNCHANGED vars
    BY <2>3, <2>10 DEF vars, kernel
  <2> QED
    BY <1>1, <2>3, <2>4, <2>5, <2>6, <2>7, <2>8, <2>9, <2>10
    DEF Next, StartSteps, RestoreSteps, Start, Prepared, ConfigurationInvalid,
        PrepareFails, LoadOrCreate, SnapshotUnreadable, LoadFails, SkipGuard,
        EnableFails, PolicyInstalled, PolicyFails, NothingToRestore, RestoreReads,
        RestoreRefuses, RestoreSettingFails, ForgetSnapshot, RestoreFails,
        Deactivate, Stop, Killed, kernel
<1>2. IInv /\ [Next]_vars => [Quiet]_vars
  BY <1>1
<1> QED BY <1>2, Inductive, PTL DEF Spec, OnlyReguardExposes

-----------------------------------------------------------------------------
(* The hook implements the loan: the snapshot's creation lends the         *)
(* settings, its removal gives them back, and every write lies between.    *)
THEOREM HookImplementsLoan == Spec => ImplementsLoan
<1>1. Init => Loan!Init
  BY DEF Init, Managed, Snapshots, Loan!Init, Loan!Values
<1>2. ASSUME IInv, [Next]_vars PROVE [Loan!Next]_(Loan!vars)
  <2> USE DEF Loan!Next, Loan!vars
  <2>1. CASE LoadOrCreate
    <3>1. CASE Managed
      BY <2>1, <3>1 DEF LoadOrCreate, Managed
    <3>2. CASE ~Managed
      <4>1. Managed' /\ UNCHANGED <<sysctl, orig>>
        BY <1>2, <2>1, <3>2, ValueFacts DEF LoadOrCreate, Managed, IInv, TypeOK
      <4> QED BY <3>2, <4>1 DEF Loan!Lend
    <3> QED BY <3>1, <3>2
  <2>2. CASE EnableSetting
    <3>1. Managed /\ Managed' /\ orig' = orig
      BY <1>2, <2>2 DEF EnableSetting, IInv, LoadedInv, Managed
    <3>2. Order[k] \in Settings /\ Target(Order[k]) \in SysctlValues
      BY <1>2, OrderFacts, ValueFacts DEF IInv, TypeOK
    <3>3. Loan!Use(Order[k], Target(Order[k]))
      BY <2>2, <3>1 DEF EnableSetting, Loan!Use
    <3> QED BY <3>2, <3>3
  <2>3. CASE RestoreSetting
    <3>1. Managed /\ Managed' /\ orig' = orig
      BY <1>2, <2>3 DEF RestoreSetting, IInv, LoadedInv, Managed
    <3>2. Order[k] \in Settings /\ state \in Snapshots
      BY <1>2, <2>3, OrderFacts DEF RestoreSetting, IInv, TypeOK, LoadedInv, SnapshotIsOriginal
    <3>3. state[Order[k]] \in SysctlValues
      BY <3>2 DEF Snapshots
    <3>4. Loan!Use(Order[k], state[Order[k]])
      BY <2>3, <3>1 DEF RestoreSetting, Loan!Use
    <3> QED BY <3>2, <3>3, <3>4
  <2>4. CASE ForgetSnapshot
    BY <1>2, <2>4 DEF ForgetSnapshot, IInv, LoadedInv, RestoreInv, Managed, Loan!GiveBack
  <2>5. CASE Reboot
    BY <2>5 DEF Reboot, Managed, Snapshots, Loan!Reboot, Loan!Values
  <2>6. CASE AdminSets
    <3>1. PICK s \in Settings, v \in SysctlValues : sysctl' = [sysctl EXCEPT ![s] = v]
      BY <2>6 DEF AdminSets
    <3>2. Loan!OwnerSets(s, v)
      BY <2>6, <3>1 DEF AdminSets, Managed, Loan!OwnerSets
    <3> QED BY <3>2
  <2>7. CASE UNCHANGED vars
    BY <2>7 DEF vars, kernel, Managed
  <2>8. ASSUME UNCHANGED <<sysctl, snap, orig>> PROVE UNCHANGED Loan!vars
    BY <2>8 DEF Managed
  <2> QED
    BY <1>2, <2>1, <2>2, <2>3, <2>4, <2>5, <2>6, <2>7, <2>8
    DEF Next, StartSteps, RestoreSteps, Start, Prepared, ConfigurationInvalid,
        PrepareFails, SnapshotUnreadable, LoadFails, SkipGuard, DropGuard, InsertGuard,
        EnableFails, PolicyInstalled, PolicyFails, NothingToRestore, RestoreReads,
        RestoreRefuses, RestoreSettingFails, RemoveGuard, RestoreFails,
        Deactivate, Stop, Killed, kernel
<1>3. IInv /\ [Next]_vars => [Loan!Next]_(Loan!vars)
  BY <1>2
<1> QED BY <1>1, <1>3, Inductive, PTL DEF Spec, ImplementsLoan, Loan!Spec
=============================================================================
