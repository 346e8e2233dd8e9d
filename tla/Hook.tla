-------------------------------- MODULE Hook --------------------------------
(***************************************************************************)
(* main of src/src/systemd/hook.py as a whole, and the unit around it      *)
(* (src/install.sh): one start or stop is a sequence of calls over three   *)
(* parts of the machine, and an exception in one call decides which of the *)
(* others are still made.                                                  *)
(*                                                                         *)
(* The parts are those of Forwarding, Resolver and Firewall, each reduced  *)
(* to whose it is. A call that raises, or in which the process is killed,  *)
(* leaves its part as it was, as the call makes it, or in between.         *)
(***************************************************************************)
EXTENDS Integers

CONSTANT MaxFaults

VARIABLES
    unit,      \* the systemd unit; "waiting" for its automatic restart
    pc,        \* the call the hook is at
    machine,   \* the three parts
    failed,    \* the calls of the last stop that raised, or "killed"
    restart,   \* Restart=on-failure applies when the stop is over
    faults

vars == <<unit, pc, machine, failed, restart, faults>>

ASSUME HookAssumption == MaxFaults \in Nat

-----------------------------------------------------------------------------
(* Calls and their effects                                                 *)

StartCalls == {"parse", "migrate", "resolver", "web rules", "redirects", "forwarding",
               "policy"}
UndoCalls == {"undo forwarding", "undo resolver"}
StopCalls == {"restore forwarding", "clear rules", "restore resolver"}

Following == [call \in StartCalls |->
    CASE call = "parse" -> "migrate"
      [] call = "migrate" -> "resolver"
      [] call = "resolver" -> "web rules"
      [] call = "web rules" -> "redirects"
      [] call = "redirects" -> "forwarding"
      [] call = "forwarding" -> "policy"
      [] OTHER -> "idle"]

Machines == [forwarding : {"original", "lent"}, conf : {"theirs", "stub"},
             rules : {"none", "some", "policy"}]
Untouched == [forwarding |-> "original", conf |-> "theirs", rules |-> "none"]

(* What a call makes of the machine if it returns. The resolver's stub is  *)
(* used only where the option is on and resolv.conf names an external      *)
(* server.                                                                 *)
After(call) ==
    CASE call = "resolver" -> {machine, [machine EXCEPT !.conf = "stub"]}
      [] call = "redirects" ->
           {[machine EXCEPT !.rules = IF @ = "none" THEN "none" ELSE "some"]}
      [] call = "forwarding" -> {[machine EXCEPT !.forwarding = "lent"]}
      [] call = "policy" -> {[machine EXCEPT !.rules = "policy"]}
      [] call \in {"undo forwarding", "restore forwarding"} ->
           {[machine EXCEPT !.forwarding = "original"]}
      [] call \in {"undo resolver", "restore resolver"} -> {[machine EXCEPT !.conf = "theirs"]}
      [] call = "clear rules" -> {[machine EXCEPT !.rules = "none"]}
      [] OTHER -> {machine}

(* What a call that does not return may make of it: enable_forwarding      *)
(* restores by itself before it raises.                                    *)
Within(call) ==
    {m \in Machines :
       /\ \/ m.forwarding = machine.forwarding
          \/ call = "forwarding"
          \/ call \in {"undo forwarding", "restore forwarding"} /\ m.forwarding = "original"
       /\ \/ m.conf = machine.conf
          \/ call = "resolver" /\ m.conf = "stub"
          \/ call \in {"undo resolver", "restore resolver"} /\ m.conf = "theirs"
       /\ \/ m.rules = machine.rules
          \/ /\ call \in {"redirects", "clear rules"}
             /\ machine.rules # "none" /\ m.rules # "policy"
          \/ call = "policy" /\ m.rules # "none"}

-----------------------------------------------------------------------------
Init ==
    /\ unit = "inactive" /\ pc = "idle" /\ machine = Untouched
    /\ failed = {} /\ restart = FALSE /\ faults = 0

Fault == faults < MaxFaults /\ faults' = faults + 1

(* ExecStartPre                                                            *)
BeginStart ==
    /\ unit \in {"inactive", "waiting"} /\ pc = "idle"
    /\ unit' = "starting" /\ pc' = "parse"
    /\ UNCHANGED <<machine, failed, restart, faults>>

Succeed ==
    /\ pc \in StartCalls
    /\ machine' \in After(pc)
    /\ pc' = Following[pc]
    /\ unit' = IF pc = "policy" THEN "running" ELSE unit
    /\ UNCHANGED <<failed, restart, faults>>

(* The unit is left: ExecStopPost runs, after which it restarts or not.    *)
ExecStopPost(restarts) ==
    /\ unit' = "stopping" /\ pc' = "restore forwarding" /\ failed' = {}
    /\ restart' = restarts

(* An invalid configuration is found before there is anything to undo.     *)
Raise ==
    /\ pc \in StartCalls /\ Fault
    /\ machine' \in Within(pc)
    /\ IF pc = "parse" THEN ExecStopPost(TRUE)
       ELSE pc' = "undo forwarding" /\ UNCHANGED <<unit, failed, restart>>

(* The handler of a start that failed.                                     *)
UndoForwarding ==
    /\ pc = "undo forwarding"
    /\ machine' \in After(pc) /\ pc' = "undo resolver"
    /\ UNCHANGED <<unit, failed, restart, faults>>
(* Mutant: the handler does not raise again.                               *)
UndoSwallows ==
    /\ pc = "undo resolver"
    /\ machine' \in After(pc) /\ pc' = "idle" /\ unit' = "running"
    /\ UNCHANGED <<failed, restart, faults>>
UndoResolver ==
    /\ pc = "undo resolver"
    /\ machine' \in After(pc) /\ ExecStopPost(TRUE)
    /\ UNCHANGED faults
UndoRaises ==
    /\ pc \in UndoCalls /\ Fault
    /\ machine' \in Within(pc) /\ ExecStopPost(TRUE)

(* A stop is over, of the unit or of one that is down anyway.              *)
StopEnds ==
    /\ pc' = "idle" /\ restart' = FALSE
    /\ unit' = IF unit = "stopping" THEN IF restart THEN "waiting" ELSE "inactive" ELSE unit

(* Mutant: without a snapshot there is nothing else to clear.              *)
RestoreForwardingOnly ==
    /\ pc = "restore forwarding"
    /\ machine' \in After(pc)
    /\ pc' = IF machine.forwarding = "lent" THEN "clear rules" ELSE "restore resolver"
    /\ UNCHANGED <<unit, failed, restart, faults>>
RestoreForwarding ==
    /\ pc = "restore forwarding"
    /\ machine' \in After(pc) /\ pc' = "clear rules"
    /\ UNCHANGED <<unit, failed, restart, faults>>
RestoreForwardingRaises ==
    /\ pc = "restore forwarding" /\ Fault
    /\ machine' = machine
    /\ failed' = failed \cup {pc} /\ pc' = "restore resolver"
    /\ UNCHANGED <<unit, restart>>
(* Mutant: an exception in clear_rules ends the stop.                      *)
ClearRulesEnds ==
    /\ pc = "clear rules"
    /\ \/ /\ machine' \in After(pc)
          /\ pc' = "restore resolver" /\ UNCHANGED <<unit, failed, restart, faults>>
       \/ Fault /\ machine' \in Within(pc) /\ failed' = failed \cup {pc} /\ StopEnds
ClearRules ==
    /\ pc = "clear rules" /\ pc' = "restore resolver"
    /\ \/ machine' \in After(pc) /\ UNCHANGED <<failed, faults>>
       \/ Fault /\ machine' \in Within(pc) /\ failed' = failed \cup {pc}
    /\ UNCHANGED <<unit, restart>>
RestoreResolver ==
    /\ pc = "restore resolver"
    /\ \/ machine' \in After(pc) /\ UNCHANGED <<failed, faults>>
       \/ Fault /\ machine' \in Within(pc) /\ failed' = failed \cup {pc}
    /\ StopEnds

Kill ==
    /\ pc # "idle" /\ Fault
    /\ machine' \in Within(pc)
    /\ IF unit = "starting" THEN ExecStopPost(TRUE)
       ELSE failed' = failed \cup {"killed"} /\ StopEnds

-----------------------------------------------------------------------------
(* systemd and operators                                                   *)

(* The process of a start is terminated with it.                           *)
RequestStop ==
    \/ /\ unit \in {"starting", "running"}
       /\ machine' \in Within(pc) /\ ExecStopPost(FALSE)
       /\ UNCHANGED faults
    \/ /\ unit \in {"stopping", "waiting"}
       /\ unit' = IF unit = "waiting" THEN "inactive" ELSE unit
       /\ restart' = FALSE
       /\ UNCHANGED <<pc, machine, failed, faults>>

ProxyExits ==
    /\ unit = "running"
    /\ \E failure \in BOOLEAN : ExecStopPost(failure)
    /\ UNCHANGED <<machine, faults>>

(* systemd has restarted it too often.                                     *)
StartLimit ==
    /\ unit = "waiting" /\ pc = "idle" /\ unit' = "inactive"
    /\ UNCHANGED <<pc, machine, failed, restart, faults>>

(* hook.py stop, by hand; an operator does so while the unit is down.      *)
HookStop ==
    /\ pc = "idle" /\ pc' = "restore forwarding" /\ failed' = {}
    /\ UNCHANGED <<unit, machine, restart, faults>>
RetryStop == unit \in {"inactive", "waiting"} /\ HookStop

(* Firewall rules, sysctls and /run are lost, /etc and /var/lib are not.   *)
Reboot ==
    /\ Fault
    /\ machine' = [Untouched EXCEPT !.conf = machine.conf]
    /\ unit' = "inactive" /\ pc' = "idle" /\ failed' = {"killed"} /\ restart' = FALSE

HookRuns ==
    \/ Succeed \/ Raise \/ UndoForwarding \/ UndoResolver \/ UndoRaises
    \/ RestoreForwarding \/ RestoreForwardingRaises \/ ClearRules \/ RestoreResolver

Next ==
    \/ HookRuns \/ Kill \/ Reboot
    \/ BeginStart \/ RequestStop \/ ProxyExits \/ StartLimit \/ RetryStop

Spec == Init /\ [][Next]_vars

-----------------------------------------------------------------------------
TypeOK ==
    /\ unit \in {"inactive", "starting", "running", "stopping", "waiting"}
    /\ pc \in {"idle"} \cup StartCalls \cup UndoCalls \cup StopCalls
    /\ machine \in Machines
    /\ failed \subseteq StopCalls \cup {"killed"}
    /\ restart \in BOOLEAN /\ faults \in 0..MaxFaults

(* Once a stop is over, a part that is not the administrator's again is    *)
(* one whose own call raised, or was killed. Only the rules depend on      *)
(* another part: they stay if forwarding cannot be restored. Names resolve *)
(* as before whatever happens to the other two (main's finally).           *)
StopReturnsTheRest ==
    unit \in {"inactive", "waiting"} /\ pc = "idle" /\ "killed" \notin failed =>
        /\ machine.conf = "theirs" \/ "restore resolver" \in failed
        /\ machine.forwarding = "original" \/ "restore forwarding" \in failed
        /\ \/ machine.rules = "none"
           \/ failed \cap {"restore forwarding", "clear rules"} # {}

(* The hook as a service                                                   *)
mode == CASE unit = "running" -> "serving"
          [] pc \in StartCalls -> "taking"
          [] pc \in UndoCalls \cup StopCalls -> "returning"
          [] OTHER -> "off"
held == {part \in {"forwarding", "conf", "rules"} : machine[part] # Untouched[part]}

S == INSTANCE Service WITH Parts <- {"forwarding", "conf", "rules"},
                           Needed <- {"forwarding", "rules"}

(* What is taken is taken by a start, what is served needs both parts that *)
(* enforce the policy, and a stop only gives back (main).                  *)
ImplementsService == S!Spec
=============================================================================
