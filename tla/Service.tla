------------------------------ MODULE Service ------------------------------
(***************************************************************************)
(* What the hook promises of the machine as a whole: it takes parts of it  *)
(* over, serves only while it holds those the policy needs, and gives      *)
(* parts back. What an incomplete stop still holds, the next one returns.  *)
(* Hook.tla is shown to implement it.                                      *)
(***************************************************************************)
CONSTANTS
    Parts,      \* of the machine that are taken over
    Needed      \* the parts without which nothing is served

VARIABLES mode, held

vars == <<mode, held>>

Init == mode = "off" /\ held = {}

Begin == mode = "off" /\ mode' = "taking" /\ UNCHANGED held
Take == mode = "taking" /\ held \subseteq held' /\ held' \subseteq Parts /\ UNCHANGED mode
Serve ==
    /\ mode = "taking" /\ mode' = "serving"
    /\ held \subseteq held' /\ Needed \subseteq held' /\ held' \subseteq Parts

(* An attempt that fails may leave anything behind.                        *)
Fail == mode = "taking" /\ mode' = "returning" /\ held' \subseteq Parts
End == mode = "serving" /\ mode' = "returning" /\ UNCHANGED held
Retry == mode = "off" /\ mode' = "returning" /\ UNCHANGED held
Return == mode = "returning" /\ held' \subseteq held /\ mode' \in {"returning", "off"}

(* The machine loses power.                                                *)
Lose == mode' = "off" /\ held' \subseteq held

Next == Begin \/ Take \/ Serve \/ Fail \/ End \/ Retry \/ Return \/ Lose

Spec == Init /\ [][Next]_vars
=============================================================================
