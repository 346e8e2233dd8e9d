----------------------------- MODULE SysctlLoan -----------------------------
(***************************************************************************)
(* What restoring sysctls "exactly" promises, without the hook's steps: a  *)
(* group of settings is lent, used while it is lent, and given back only   *)
(* with the values its owner left in it. Only a reboot ends a loan in any  *)
(* other way, and then the owner's boot values apply.                      *)
(***************************************************************************)
CONSTANTS Settings, SysctlValues

VARIABLES
    value,  \* the current values
    owned,  \* the values the owner wants
    lent    \* whether the settings are on loan

vars == <<value, owned, lent>>

Values == [Settings -> SysctlValues]

Init == value \in Values /\ owned = value /\ lent = FALSE

Lend == ~lent /\ lent' = TRUE /\ UNCHANGED <<value, owned>>

Use(s, v) ==
    /\ lent
    /\ value' = [value EXCEPT ![s] = v]
    /\ UNCHANGED <<owned, lent>>

GiveBack ==
    /\ lent /\ value = owned
    /\ lent' = FALSE
    /\ UNCHANGED <<value, owned>>

OwnerSets(s, v) ==
    /\ ~lent
    /\ value' = [value EXCEPT ![s] = v]
    /\ owned' = value'
    /\ UNCHANGED lent

Reboot ==
    /\ value' \in Values
    /\ owned' = value'
    /\ lent' = FALSE

Next ==
    \/ Lend \/ GiveBack \/ Reboot
    \/ \E s \in Settings, v \in SysctlValues : Use(s, v) \/ OwnerSets(s, v)

Spec == Init /\ [][Next]_vars
=============================================================================
