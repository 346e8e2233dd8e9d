--------------------------- MODULE LifecycleProofs ---------------------------
(* Theorems about Hook and Lifecycle, for every number of faults: first    *)
(* the hook alone and the service it implements, then the hook in its      *)
(* surroundings, with upgrades that begin only while the unit runs or is   *)
(* down (Careful).                                                         *)
EXTENDS Lifecycle, TLAPS

USE HookAssumption DEF HookAssumption

Down == unit \in {"inactive", "waiting"}

(* Where the hook is tells what the unit is doing.                         *)
CallOfUnit ==
    /\ pc \in StartCalls \cup UndoCalls <=> unit = "starting"
    /\ unit = "running" => pc = "idle"
    /\ unit = "stopping" => pc \in StopCalls
    /\ pc = "policy" => machine.forwarding = "lent"

(* What a stop has returned when it gets to its next call: the rules are   *)
(* cleared only after forwarding is the administrator's again.             *)
ForwardingReturned == machine.forwarding = "original" \/ "restore forwarding" \in failed
RulesReturned ==
    machine.rules = "none" \/ failed \cap {"restore forwarding", "clear rules"} # {}
ConfReturned == machine.conf = "theirs" \/ "restore resolver" \in failed

StopProgress ==
    /\ pc = "clear rules" => ForwardingReturned
    /\ pc = "restore resolver" => ForwardingReturned /\ RulesReturned
    /\ Down /\ pc = "idle" /\ "killed" \notin failed =>
         ForwardingReturned /\ RulesReturned /\ ConfReturned

IInv == TypeOK /\ CallOfUnit /\ StopProgress

USE DEF StartCalls, UndoCalls, StopCalls, Machines

-----------------------------------------------------------------------------
(* Lemmas about calls                                                      *)

(* A call that returns leaves a machine, changes only its own part, and a  *)
(* call of a stop returns that part.                                       *)
LEMMA AfterCall ==
  ASSUME machine \in Machines, NEW call, NEW m \in After(call)
  PROVE  /\ m \in Machines
         /\ call = "forwarding" => m.forwarding = "lent"
         /\ call \in {"restore forwarding", "undo forwarding"} =>
              m.forwarding = "original"
         /\ call = "clear rules" => m.rules = "none" /\ m.forwarding = machine.forwarding
         /\ call = "restore resolver" =>
              /\ m.conf = "theirs" /\ m.forwarding = machine.forwarding
              /\ m.rules = machine.rules
<1>1. CASE call \in StartCalls
  BY <1>1 DEF After
<1>2. CASE call \in UndoCalls \cup StopCalls
  BY <1>2 DEF After
<1>3. CASE call \notin StartCalls \cup UndoCalls \cup StopCalls
  BY <1>3 DEF After
<1> QED
  BY <1>1, <1>2, <1>3

(* A call that does not return leaves the other parts as they were.        *)
LEMMA WithinCall ==
  ASSUME machine \in Machines, NEW call, NEW m \in Within(call)
  PROVE  /\ m \in Machines
         /\ call = "clear rules" =>
              m.forwarding = machine.forwarding /\ m.conf = machine.conf
         /\ call = "restore resolver" =>
              m.forwarding = machine.forwarding /\ m.rules = machine.rules
BY DEF Within

LEMMA FollowingCall ==
  ASSUME NEW call \in StartCalls
  PROVE  /\ Following[call] \in StartCalls \cup {"idle"}
         /\ Following[call] = "idle" <=> call = "policy"
         /\ Following[call] = "policy" => call = "forwarding"
BY DEF Following

-----------------------------------------------------------------------------
(* The invariant                                                           *)

LEMMA InitInv == Init => IInv
<1> SUFFICES ASSUME Init PROVE IInv
  OBVIOUS
<1>1. machine \in Machines /\ ForwardingReturned /\ RulesReturned /\ ConfReturned
  BY DEF Init, Untouched, ForwardingReturned, RulesReturned, ConfReturned
<1>2. faults \in 0..MaxFaults
  BY DEF Init
<1>3. TypeOK
  BY <1>1, <1>2 DEF Init, TypeOK
<1>4. CallOfUnit /\ StopProgress
  BY <1>1 DEF Init, CallOfUnit, StopProgress
<1> QED
  BY <1>3, <1>4 DEF IInv

(* From any state, entering ExecStopPost establishes it.                   *)
LEMMA StopPostInv ==
  ASSUME NEW restarts \in BOOLEAN, ExecStopPost(restarts),
         machine' \in Machines, faults' \in 0..MaxFaults
  PROVE  IInv'
BY DEF ExecStopPost, IInv, TypeOK, CallOfUnit, StopProgress, Down

LEMMA FaultCounts ==
  ASSUME IInv, Fault
  PROVE  faults' \in 0..MaxFaults
<1>1. faults \in 0..MaxFaults /\ MaxFaults \in Nat
  BY DEF IInv, TypeOK
<1>2. faults < MaxFaults /\ faults' = faults + 1
  BY DEF Fault
<1> QED
  BY <1>1, <1>2

LEMMA StartCallInv ==
  ASSUME IInv, Succeed \/ Raise \/ UndoForwarding \/ UndoResolver \/ UndoRaises
  PROVE  IInv'
<1> machine \in Machines /\ faults \in 0..MaxFaults
  BY DEF IInv, TypeOK
<1>1. CASE Succeed
  <2>1. machine' \in Machines
    BY <1>1, AfterCall DEF Succeed
  <2>2. /\ pc' \in StartCalls \cup {"idle"} /\ (pc' = "idle" <=> pc = "policy")
        /\ pc' = "policy" => machine'.forwarding = "lent"
        /\ unit = "starting"
    BY <1>1, AfterCall, FollowingCall DEF Succeed, IInv, CallOfUnit
  <2> QED
    BY <1>1, <2>1, <2>2 DEF Succeed, IInv, TypeOK, CallOfUnit, StopProgress, Down
<1>2. CASE Raise
  <2>1. machine' \in Machines /\ faults' \in 0..MaxFaults
    BY <1>2, WithinCall, FaultCounts DEF Raise
  <2>2. CASE pc = "parse"
    BY <1>2, <2>1, <2>2, StopPostInv DEF Raise
  <2>3. CASE pc # "parse"
    BY <1>2, <2>1, <2>3 DEF Raise, IInv, TypeOK, CallOfUnit, StopProgress, Down
  <2> QED
    BY <2>2, <2>3
<1>3. CASE UndoForwarding
  <2>1. machine' \in Machines
    BY <1>3, AfterCall DEF UndoForwarding
  <2> QED
    BY <1>3, <2>1 DEF UndoForwarding, IInv, TypeOK, CallOfUnit, StopProgress, Down
<1>4. CASE UndoResolver
  <2>1. machine' \in Machines /\ faults' \in 0..MaxFaults
    BY <1>4, AfterCall DEF UndoResolver
  <2> QED
    BY <1>4, <2>1, StopPostInv DEF UndoResolver
<1>5. CASE UndoRaises
  <2>1. machine' \in Machines /\ faults' \in 0..MaxFaults
    BY <1>5, WithinCall, FaultCounts DEF UndoRaises
  <2> QED
    BY <1>5, <2>1, StopPostInv DEF UndoRaises
<1> QED
  BY <1>1, <1>2, <1>3, <1>4, <1>5

(* A stop that is over leaves the unit down, with what it has returned.    *)
LEMMA StopEndsInv ==
  ASSUME IInv, StopEnds, pc \in StopCalls, machine' \in Machines, faults' \in 0..MaxFaults,
         failed' \subseteq StopCalls \cup {"killed"},
         "killed" \notin failed' => (ForwardingReturned /\ RulesReturned /\ ConfReturned)'
  PROVE  IInv'
<1>1. unit \in {"inactive", "waiting", "stopping"}
  BY DEF IInv, TypeOK, CallOfUnit
<1>2. /\ pc' = "idle" /\ unit' \in {"inactive", "waiting"} /\ restart' = FALSE
  BY <1>1 DEF StopEnds
<1> QED
  BY <1>2 DEF IInv, TypeOK, CallOfUnit, StopProgress, Down

LEMMA StopCallInv ==
  ASSUME IInv, RestoreForwarding \/ RestoreForwardingRaises \/ ClearRules \/ RestoreResolver
  PROVE  IInv'
<1> /\ machine \in Machines /\ faults \in 0..MaxFaults
    /\ failed \subseteq StopCalls \cup {"killed"}
  BY DEF IInv, TypeOK
<1>1. CASE RestoreForwarding
  <2>1. machine' \in Machines /\ machine'.forwarding = "original"
    BY <1>1, AfterCall DEF RestoreForwarding
  <2> QED
    BY <1>1, <2>1 DEF RestoreForwarding, IInv, TypeOK, CallOfUnit, StopProgress, Down,
                      ForwardingReturned
<1>2. CASE RestoreForwardingRaises
  <2>1. faults' \in 0..MaxFaults
    BY <1>2, FaultCounts DEF RestoreForwardingRaises
  <2> QED
    BY <1>2, <2>1 DEF RestoreForwardingRaises, IInv, TypeOK, CallOfUnit, StopProgress,
                      Down, ForwardingReturned, RulesReturned
<1>3. CASE ClearRules
  <2>1. ForwardingReturned
    BY <1>3 DEF ClearRules, IInv, StopProgress
  <2>2. /\ machine' \in Machines /\ machine'.forwarding = machine.forwarding
        /\ faults' \in 0..MaxFaults
        /\ \/ machine'.rules = "none" /\ failed' = failed
           \/ failed' = failed \cup {"clear rules"}
    BY <1>3, AfterCall, WithinCall, FaultCounts DEF ClearRules
  <2> QED
    BY <1>3, <2>1, <2>2 DEF ClearRules, IInv, TypeOK, CallOfUnit, StopProgress, Down,
                            ForwardingReturned, RulesReturned
<1>4. CASE RestoreResolver
  <2>1. ForwardingReturned /\ RulesReturned
    BY <1>4 DEF RestoreResolver, IInv, StopProgress
  <2>2. /\ machine' \in Machines /\ machine'.forwarding = machine.forwarding
        /\ machine'.rules = machine.rules /\ faults' \in 0..MaxFaults
        /\ \/ machine'.conf = "theirs" /\ failed' = failed
           \/ failed' = failed \cup {"restore resolver"}
    BY <1>4, AfterCall, WithinCall, FaultCounts DEF RestoreResolver
  <2>3. (ForwardingReturned /\ RulesReturned /\ ConfReturned)'
    BY <2>1, <2>2 DEF ForwardingReturned, RulesReturned, ConfReturned
  <2> QED
    BY <1>4, <2>2, <2>3, StopEndsInv DEF RestoreResolver
<1> QED
  BY <1>1, <1>2, <1>3, <1>4

LEMMA EnvironmentInv ==
  ASSUME IInv,
         \/ Kill \/ Reboot \/ BeginStart \/ RequestStop \/ ProxyExits \/ StartLimit
         \/ RetryStop \/ UNCHANGED vars
  PROVE  IInv'
<1> machine \in Machines /\ faults \in 0..MaxFaults /\ failed \subseteq StopCalls \cup {"killed"}
  BY DEF IInv, TypeOK
<1>1. CASE Kill
  <2>1. machine' \in Machines /\ faults' \in 0..MaxFaults
    BY <1>1, WithinCall, FaultCounts DEF Kill
  <2>2. CASE unit = "starting"
    BY <1>1, <2>1, <2>2, StopPostInv DEF Kill
  <2>3. CASE unit # "starting"
    BY <1>1, <2>1, <2>3, StopEndsInv DEF Kill, IInv, TypeOK, CallOfUnit
  <2> QED
    BY <2>2, <2>3
<1>2. CASE Reboot
  <2>1. machine' \in Machines /\ faults' \in 0..MaxFaults
    BY <1>2, FaultCounts DEF Reboot, Untouched
  <2> QED
    BY <1>2, <2>1 DEF Reboot, IInv, TypeOK, CallOfUnit, StopProgress, Down
<1>3. CASE BeginStart
  BY <1>3 DEF BeginStart, IInv, TypeOK, CallOfUnit, StopProgress, Down
<1>4. CASE RequestStop
  <2>1. CASE unit \in {"starting", "running"}
    <3>1. machine' \in Machines
      BY <1>4, <2>1, WithinCall DEF RequestStop
    <3> QED
      BY <1>4, <2>1, <3>1, StopPostInv DEF RequestStop
  <2>2. CASE unit \in {"stopping", "waiting"}
    BY <1>4, <2>2 DEF RequestStop, IInv, TypeOK, CallOfUnit, StopProgress, Down,
                      ForwardingReturned, RulesReturned, ConfReturned
  <2> QED
    BY <1>4, <2>1, <2>2 DEF RequestStop
<1>5. CASE ProxyExits
  BY <1>5, StopPostInv DEF ProxyExits
<1>6. CASE StartLimit
  BY <1>6 DEF StartLimit, IInv, TypeOK, CallOfUnit, StopProgress, Down,
              ForwardingReturned, RulesReturned, ConfReturned
<1>7. CASE RetryStop
  BY <1>7 DEF RetryStop, HookStop, IInv, TypeOK, CallOfUnit, StopProgress, Down
<1>8. CASE UNCHANGED vars
  BY <1>8 DEF vars, IInv, TypeOK, CallOfUnit, StopProgress, Down,
              ForwardingReturned, RulesReturned, ConfReturned
<1> QED
  BY <1>1, <1>2, <1>3, <1>4, <1>5, <1>6, <1>7, <1>8

LEMMA NextInv == IInv /\ [Next]_vars => IInv'
BY StartCallInv, StopCallInv, EnvironmentInv DEF Next, HookRuns

THEOREM Invariance == Spec => []IInv
<1> QED
  BY InitInv, NextInv, PTL DEF Spec

(* Types, faults within their bound included.                              *)
THEOREM TypeCorrect == Spec => []TypeOK
<1>1. IInv => TypeOK
  BY DEF IInv
<1> QED
  BY <1>1, Invariance, PTL

(* A stop returns every part whose call did not raise, in whatever state   *)
(* earlier starts, stops, kills and power losses have left the machine.    *)
THEOREM StopReturns == Spec => []StopReturnsTheRest
<1>1. IInv => StopReturnsTheRest
  BY DEF IInv, StopProgress, StopReturnsTheRest, Down, ForwardingReturned,
         RulesReturned, ConfReturned
<1> QED
  BY <1>1, Invariance, PTL

-----------------------------------------------------------------------------
(* The refinement                                                          *)

HeldFacts ==
  /\ "forwarding" \in held <=> machine.forwarding # "original"
  /\ "conf" \in held <=> machine.conf # "theirs"
  /\ "rules" \in held <=> machine.rules # "none"
  /\ held \subseteq {"forwarding", "conf", "rules"}

ModeFacts ==
  mode = IF unit = "running" THEN "serving"
         ELSE IF pc \in StartCalls THEN "taking"
         ELSE IF pc = "idle" THEN "off" ELSE "returning"

LEMMA HeldIs == HeldFacts /\ HeldFacts'
BY DEF HeldFacts, held, Untouched

LEMMA ModeIs == (IInv => ModeFacts) /\ (IInv' => ModeFacts')
BY DEF ModeFacts, mode, IInv, TypeOK, CallOfUnit

(* What calls do to what is held.                                          *)
LEMMA AfterHolds ==
  ASSUME machine \in Machines, NEW call, machine' \in After(call)
  PROVE  /\ call \in StartCalls => held \subseteq held'
         /\ call = "policy" => "rules" \in held'
         /\ call \in UndoCalls \cup StopCalls => held' \subseteq held
<1>1. CASE call \in StartCalls
  <2>1. /\ machine'.forwarding \in {machine.forwarding, "lent"}
        /\ machine'.conf \in {machine.conf, "stub"}
        /\ machine.rules # "none" => machine'.rules # "none"
        /\ call = "policy" => machine'.rules = "policy"
    BY <1>1 DEF After
  <2> QED
    BY <1>1, <2>1, HeldIs DEF HeldFacts
<1>2. CASE call \in UndoCalls \cup StopCalls
  <2>1. /\ machine'.forwarding \in {machine.forwarding, "original"}
        /\ machine'.conf \in {machine.conf, "theirs"}
        /\ machine'.rules \in {machine.rules, "none"}
    BY <1>2 DEF After
  <2> QED
    BY <1>2, <2>1, HeldIs DEF HeldFacts
<1>3. CASE call \notin StartCalls \cup UndoCalls \cup StopCalls
  BY <1>3
<1> QED
  BY <1>1, <1>2, <1>3

LEMMA WithinHolds ==
  ASSUME machine \in Machines, NEW call, call \notin StartCalls, machine' \in Within(call)
  PROVE  held' \subseteq held /\ (call = "idle" => held' = held)
<1>1. /\ machine'.forwarding \in {machine.forwarding, "original"}
      /\ machine'.conf \in {machine.conf, "theirs"}
      /\ machine.rules = "none" => machine'.rules = "none"
      /\ call = "idle" => /\ machine'.forwarding = machine.forwarding
                          /\ machine'.conf = machine.conf /\ machine'.rules = machine.rules
  BY DEF Within
<1>2. held' \subseteq held
  BY <1>1, HeldIs DEF HeldFacts
<1>3. call = "idle" => held \subseteq held'
  BY <1>1, HeldIs DEF HeldFacts
<1> QED
  BY <1>2, <1>3

(* Leaving for ExecStopPost is a failure, the end of service or one more   *)
(* return.                                                                 *)
LEMMA StopPostSimulates ==
  ASSUME IInv, IInv', NEW restarts, ExecStopPost(restarts), machine' \in Within(pc),
         unit \in {"starting", "running"}
  PROVE  S!Next
<1>1. machine \in Machines /\ ModeFacts /\ mode' = "returning"
  BY ModeIs DEF IInv, TypeOK, ModeFacts, ExecStopPost
<1>2. CASE pc \in StartCalls
  BY <1>1, <1>2, HeldIs DEF HeldFacts, ModeFacts, IInv, CallOfUnit, S!Next, S!Fail
<1>3. CASE pc \in UndoCalls
  BY <1>1, <1>3, WithinHolds DEF ModeFacts, IInv, CallOfUnit, S!Next, S!Return
<1>4. CASE pc = "idle"
  <2>1. unit = "running"
    BY <1>4 DEF IInv, CallOfUnit
  <2>2. mode = "serving" /\ held' = held
    BY <1>1, <1>4, <2>1, WithinHolds DEF ModeFacts
  <2> QED
    BY <1>1, <2>2 DEF S!Next, S!End
<1> QED
  BY <1>2, <1>3, <1>4 DEF IInv, CallOfUnit

LEMMA StepSimulates ==
  ASSUME IInv, IInv', Next
  PROVE  S!Next \/ UNCHANGED <<mode, held>>
<1> machine \in Machines /\ ModeFacts /\ ModeFacts' /\ HeldFacts /\ HeldFacts'
  BY ModeIs, HeldIs DEF IInv, TypeOK
<1>1. CASE Succeed
  <2>1. /\ mode = "taking" /\ held \subseteq held'
        /\ held' \subseteq {"forwarding", "conf", "rules"}
    BY <1>1, AfterHolds DEF Succeed, ModeFacts, HeldFacts, IInv, CallOfUnit
  <2>2. CASE pc = "policy"
    <3>1. "forwarding" \in held /\ "rules" \in held' /\ mode' = "serving"
      BY <1>1, <2>2, AfterHolds DEF Succeed, ModeFacts, HeldFacts, IInv, CallOfUnit
    <3> QED
      BY <2>1, <3>1 DEF S!Next, S!Serve
  <2>3. CASE pc # "policy"
    <3>1. mode' = "taking"
      BY <1>1, <2>3, FollowingCall DEF Succeed, ModeFacts, IInv, CallOfUnit
    <3> QED
      BY <2>1, <3>1 DEF S!Next, S!Take
  <2> QED
    BY <2>2, <2>3
<1>2. CASE Raise
  <2>1. mode = "taking" /\ mode' = "returning"
    BY <1>2 DEF Raise, ExecStopPost, ModeFacts, IInv, CallOfUnit
  <2> QED
    BY <2>1 DEF HeldFacts, S!Next, S!Fail
<1>3. CASE \/ UndoForwarding \/ UndoResolver \/ RestoreForwarding \/ ClearRules
           \/ RestoreResolver \/ UndoRaises \/ RestoreForwardingRaises
  <2>1. held' \subseteq held
    <3>1. CASE RestoreForwardingRaises
      BY <3>1 DEF RestoreForwardingRaises, held
    <3>2. CASE ~RestoreForwardingRaises
      <4>1. /\ pc \in UndoCalls \cup StopCalls
            /\ machine' \in After(pc) \/ machine' \in Within(pc)
        BY <1>3, <3>2 DEF UndoForwarding, UndoResolver, RestoreForwarding, ClearRules,
                          RestoreResolver, UndoRaises
      <4> QED
        BY <4>1, AfterHolds, WithinHolds
    <3> QED
      BY <3>1, <3>2
  <2>2. mode = "returning"
    BY <1>3 DEF UndoForwarding, UndoResolver, RestoreForwarding, ClearRules, RestoreResolver,
                UndoRaises, RestoreForwardingRaises, ModeFacts, IInv, CallOfUnit
  <2>3. /\ pc' \in UndoCalls \cup StopCalls \cup {"idle"}
        /\ unit' = "running" => unit = "running"
    BY <1>3 DEF UndoForwarding, UndoResolver, RestoreForwarding, ClearRules, RestoreResolver,
                UndoRaises, RestoreForwardingRaises, ExecStopPost, StopEnds
  <2>4. mode' \in {"returning", "off"}
    BY <2>2, <2>3 DEF ModeFacts
  <2> QED
    BY <2>1, <2>2, <2>4 DEF S!Next, S!Return
<1>4. CASE Kill
  <2>1. CASE unit = "starting"
    BY <1>4, <2>1, StopPostSimulates DEF Kill
  <2>2. CASE unit # "starting"
    <3>1. /\ pc \in StopCalls /\ mode = "returning"
          /\ unit \in {"inactive", "waiting", "stopping"}
      BY <1>4, <2>2 DEF Kill, ModeFacts, IInv, TypeOK, CallOfUnit
    <3>2. mode' = "off"
      BY <1>4, <2>2, <3>1 DEF Kill, StopEnds, ModeFacts
    <3>3. held' \subseteq held
      BY <1>4, <3>1, WithinHolds DEF Kill
    <3> QED
      BY <3>1, <3>2, <3>3 DEF S!Next, S!Return
  <2> QED
    BY <2>1, <2>2
<1>5. CASE Reboot
  BY <1>5 DEF Reboot, Untouched, ModeFacts, HeldFacts, S!Next, S!Lose
<1>6. CASE BeginStart
  <2>1. held' = held
    BY <1>6 DEF BeginStart, held
  <2> QED
    BY <1>6, <2>1 DEF BeginStart, ModeFacts, S!Next, S!Begin
<1>7. CASE RequestStop
  <2>1. CASE unit \in {"starting", "running"}
    BY <1>7, <2>1, StopPostSimulates DEF RequestStop
  <2>2. CASE unit \notin {"starting", "running"}
    <3>1. held' = held
      BY <1>7, <2>2 DEF RequestStop, held
    <3>2. mode' = mode
      BY <1>7, <2>2 DEF RequestStop, ModeFacts
    <3> QED
      BY <3>1, <3>2
  <2> QED
    BY <2>1, <2>2
<1>8. CASE ProxyExits
  <2>1. held' = held
    BY <1>8 DEF ProxyExits, held
  <2>2. mode = "serving" /\ mode' = "returning"
    BY <1>8 DEF ProxyExits, ExecStopPost, ModeFacts
  <2> QED
    BY <2>1, <2>2 DEF S!Next, S!End
<1>9. CASE StartLimit
  <2>1. held' = held
    BY <1>9 DEF StartLimit, held
  <2>2. mode' = mode
    BY <1>9 DEF StartLimit, ModeFacts
  <2> QED
    BY <2>1, <2>2
<1>10. CASE RetryStop
  <2>1. held' = held
    BY <1>10 DEF RetryStop, HookStop, held
  <2>2. mode = "off" /\ mode' = "returning"
    BY <1>10 DEF RetryStop, HookStop, ModeFacts
  <2> QED
    BY <2>1, <2>2 DEF S!Next, S!Retry
<1> QED
  BY <1>1, <1>2, <1>3, <1>4, <1>5, <1>6, <1>7, <1>8, <1>9, <1>10 DEF Next, HookRuns

(* The hook takes, serves and returns as Service.tla promises: mitmproxy   *)
(* is let to run only while the firewall rules and forwarding are held,    *)
(* and nothing is taken by a stop.                                         *)
THEOREM Refinement == Spec => ImplementsService
<1>1. Init => S!Init
  <2> SUFFICES ASSUME Init PROVE S!Init
    OBVIOUS
  <2>1. ModeFacts /\ HeldFacts
    BY InitInv, ModeIs, HeldIs
  <2> QED
    BY <2>1 DEF Init, Untouched, ModeFacts, HeldFacts, S!Init
<1>2. IInv /\ IInv' /\ [Next]_vars => [S!Next]_S!vars
  <2>1. ASSUME UNCHANGED vars PROVE UNCHANGED S!vars
    BY <2>1 DEF vars, S!vars, mode, held
  <2> QED
    BY <2>1, StepSimulates DEF S!vars
<1> QED
  BY <1>1, <1>2, Invariance, PTL DEF Spec, ImplementsService, S!Spec

-----------------------------------------------------------------------------
(* The hook in its surroundings                                            *)

HIDE DEF Machines

Serving == unit \in {"starting", "running"}
Resuming == resume /\ job # "none"

TypesOK ==
    /\ resolved \in {"active", "inactive"}
    /\ knows \in BOOLEAN /\ torn \in BOOLEAN /\ resume \in BOOLEAN /\ stopJob \in BOOLEAN
    /\ mixed \in BOOLEAN
    /\ job \in {"none", "stop", "restart", "resume"}
    /\ step \in {"none", "stopping", "clean", "cleaning", "start", "clear", "clearing"}
                \cup Artifacts
    /\ artifacts \in [Artifacts -> {"none", "old", "new"}]
    /\ job = "resume" => resume

(* While a script replaces or removes files the unit is down and stays so, *)
(* until an upgrade has cleaned up.                                        *)
Replacing == step \in {"hook", "package", "clean", "cleaning", "clearing"}
Restored == step \in {"unit", "binaries", "start"}
UnitStopped ==
    /\ restart => unit = "stopping"
    /\ Replacing => unit = "inactive" /\ ~Resuming
    /\ step \in {"stopping", "clear"} =>
         unit \in {"inactive", "stopping"} /\ ~restart /\ ~Resuming

(* What is installed by the installer's step.                              *)
Installed ==
    /\ step \in {"package", "clean", "cleaning", "unit", "binaries", "start"} =>
         artifacts["hook"] = "new"
    /\ step \in {"clean", "cleaning", "unit", "binaries", "start"} =>
         artifacts["package"] = "new"
    /\ step \in {"binaries", "start"} => artifacts["unit"] = "new"
    /\ step = "start" => artifacts["binaries"] = "new"

Released ==
    /\ unit # "inactive" \/ Resuming => OneRelease \/ mixed
    /\ unit \in {"starting", "running", "stopping"} => startedBy = artifacts["hook"]

(* resolved knows upstream servers while it can read them, and while a     *)
(* unit that has been started after it keeps its memory.                   *)
Upstream ==
    /\ resolved = "active" /\ machine.conf = "theirs" => knows
    /\ Down /\ machine.conf = "stub" => torn
    /\ Serving => resolved = "active" /\ job \notin {"stop", "restart"}
    /\ Serving /\ ~torn => knows

(* What is dirty is explained by faults; after two stops, by two.          *)
Explained ==
    /\ failed # {} => faults >= 1
    /\ Down /\ machine # Untouched => faults >= 1
    /\ step = "clearing" /\ machine # Untouched /\ (pc = "idle" \/ failed # {}) => faults >= 2
    /\ artifacts = Nothing /\ machine # Untouched => faults >= 2
    /\ artifacts = Nothing => unit = "inactive"
    /\ artifacts["hook"] = "none" => artifacts = Nothing
    /\ step \in {"clear", "clearing"} => artifacts["hook"] # "none"

LInv ==
    /\ TypesOK /\ UnitStopped /\ Installed /\ Released /\ Upstream /\ Explained

-----------------------------------------------------------------------------
(* What the hook's own steps do to unit and machine                        *)

(* All of the hook's steps but the start of the unit.                      *)
NoStart ==
    \/ HookRuns \/ Kill \/ ProxyExits \/ StartLimit \/ RetryStop \/ RequestStop \/ Reboot
    \/ UNCHANGED vars

LEMMA UntouchedIs ==
  ASSUME NEW m \in Machines
  PROVE  m = Untouched <=>
           m.forwarding = "original" /\ m.conf = "theirs" /\ m.rules = "none"
BY DEF Untouched, Machines

LEMMA RebootIs ==
  ASSUME IInv, Reboot
  PROVE  /\ unit' = "inactive" /\ pc' = "idle" /\ ~restart' /\ faults' = faults + 1
         /\ machine'.conf = machine.conf
         /\ machine = Untouched => machine' = Untouched
BY DEF Reboot, Fault, Untouched, IInv, TypeOK

(* The stops of the hook never take anything of the machine.               *)
Returns(m) ==
    /\ m.forwarding \in {machine.forwarding, "original"}
    /\ m.conf \in {machine.conf, "theirs"}
    /\ machine.rules = "none" => m.rules = "none"

LEMMA StopCallReturns ==
  ASSUME machine \in Machines, NEW call \in StopCalls \cup {"idle"},
         NEW m \in After(call) \cup Within(call)
  PROVE  m \in Machines /\ Returns(m)
<1>1. CASE m \in After(call)
  <2>1. CASE call = "idle"
    BY <1>1, <2>1 DEF After, Returns
  <2>2. CASE call = "restore forwarding"
    BY <1>1, <2>2 DEF After, Returns, Machines
  <2>3. CASE call = "clear rules"
    BY <1>1, <2>3 DEF After, Returns, Machines
  <2>4. CASE call = "restore resolver"
    BY <1>1, <2>4 DEF After, Returns, Machines
  <2> QED
    BY <2>1, <2>2, <2>3, <2>4
<1>2. CASE m \in Within(call)
  BY <1>2 DEF Within, Returns
<1> QED
  BY <1>1, <1>2

LEMMA ReturnsIs ==
  ASSUME machine \in Machines, NEW m \in Machines, Returns(m)
  PROVE  /\ m.conf = "stub" => machine.conf = "stub"
         /\ machine = Untouched => m = Untouched
BY UntouchedIs DEF Returns

(* It leaves a unit that is down, or about to be, down; nothing turns down *)
(* with a call under way.                                                  *)
LEMMA UnitKept ==
  ASSUME IInv, NoStart
  PROVE  /\ unit = "inactive" => unit' = "inactive"
         /\ unit \in {"inactive", "stopping"} /\ ~restart =>
              unit' \in {"inactive", "stopping"} /\ ~restart'
         /\ (restart => unit = "stopping") => (restart' => unit' = "stopping")
         /\ Serving' => Serving
         /\ Down' /\ pc' # "idle" => Down
         /\ unit' = "stopping" => unit # "inactive" /\ unit # "waiting"
<1>1. /\ unit \in {"inactive", "starting", "running", "stopping", "waiting"}
      /\ pc \in {"idle"} \cup StartCalls \cup UndoCalls \cup StopCalls
      /\ CallOfUnit
  BY DEF IInv, TypeOK
<1>2. CASE HookRuns
  <2>1. CASE Succeed
    BY <1>1, <2>1, FollowingCall DEF Succeed, CallOfUnit, Serving, Down
  <2>2. CASE Raise \/ UndoForwarding \/ UndoResolver \/ UndoRaises
    <3>1. \/ unit' = unit /\ restart' = restart
          \/ unit' = "stopping"
      BY <2>2 DEF Raise, UndoForwarding, UndoResolver, UndoRaises, ExecStopPost
    <3>2. unit = "starting"
      BY <1>1, <2>2 DEF Raise, UndoForwarding, UndoResolver, UndoRaises, CallOfUnit
    <3> QED
      BY <3>1, <3>2 DEF Serving, Down
  <2>3. CASE RestoreForwarding \/ RestoreForwardingRaises \/ ClearRules
    <3>1. unit' = unit /\ restart' = restart /\ pc \in StopCalls
      BY <2>3 DEF RestoreForwarding, RestoreForwardingRaises, ClearRules
    <3> QED
      BY <1>1, <3>1 DEF CallOfUnit, Serving, Down
  <2>4. CASE RestoreResolver
    <3>1. StopEnds /\ pc \in StopCalls
      BY <2>4 DEF RestoreResolver
    <3> QED
      BY <1>1, <3>1 DEF StopEnds, CallOfUnit, Serving, Down
  <2> QED
    BY <1>2, <2>1, <2>2, <2>3, <2>4 DEF HookRuns
<1>3. CASE Kill \/ ProxyExits \/ StartLimit \/ RequestStop
  <2>1. CASE Kill
    BY <1>1, <2>1 DEF Kill, ExecStopPost, StopEnds, CallOfUnit, Serving, Down
  <2>2. CASE ProxyExits
    <3>1. unit = "running" /\ unit' = "stopping"
      BY <2>2 DEF ProxyExits, ExecStopPost
    <3> QED
      BY <3>1 DEF Serving, Down
  <2>4. CASE StartLimit
    BY <2>4 DEF StartLimit, Serving, Down
  <2>3. CASE RequestStop
    BY <1>1, <2>3 DEF RequestStop, ExecStopPost, CallOfUnit, Serving, Down
  <2> QED
    BY <1>3, <2>1, <2>2, <2>3, <2>4
<1>4. CASE RetryStop \/ UNCHANGED vars
  <2>1. unit' = unit /\ (pc' = pc \/ Down) /\ restart' = restart
    BY <1>4 DEF RetryStop, HookStop, vars, Down
  <2> QED
    BY <1>1, <2>1 DEF Serving, Down
<1>5. CASE Reboot
  BY <1>5, RebootIs DEF Serving, Down
<1> QED
  BY <1>2, <1>3, <1>4, <1>5 DEF NoStart

(* While the unit is down, no step takes anything of the machine.          *)
LEMMA DownReturns ==
  ASSUME IInv, NoStart, Down
  PROVE  /\ machine'.conf = "stub" => machine.conf = "stub"
         /\ machine = Untouched => machine' = Untouched
<1>1. pc \in StopCalls \cup {"idle"} /\ machine \in Machines
  BY DEF IInv, TypeOK, CallOfUnit, Down
<1>2. CASE HookRuns
  <2>1. machine' \in After(pc) \cup Within(pc) \/ machine' = machine
    BY <1>1, <1>2 DEF HookRuns, Succeed, Raise, UndoForwarding, UndoResolver, UndoRaises,
       RestoreForwarding, RestoreForwardingRaises, ClearRules, RestoreResolver
  <2> QED
    BY <1>1, <2>1, StopCallReturns, ReturnsIs
<1>3. CASE Kill
  BY <1>1, <1>3, StopCallReturns, ReturnsIs DEF Kill
<1>4. CASE Reboot
  BY <1>4 DEF Reboot, Untouched
<1>5. CASE ProxyExits \/ StartLimit \/ RetryStop \/ RequestStop \/ UNCHANGED vars
  BY <1>5 DEF ProxyExits, StartLimit, RetryStop, HookStop, RequestStop, vars, Down
<1> QED
  BY <1>2, <1>3, <1>4, <1>5 DEF NoStart

(* A failure is recorded with the fault that caused it.                    *)
LEMMA FailuresCount ==
  ASSUME IInv, NoStart
  PROVE  /\ faults' \in Nat /\ faults' >= faults
         /\ failed' \subseteq failed \/ faults' >= faults + 1
<1>1. faults \in Nat
  <2>1. faults \in 0..MaxFaults
    BY DEF IInv, TypeOK
  <2> QED
    BY <2>1
<1>2. (faults' = faults /\ failed' \subseteq failed) \/ Fault
  <2>1. CASE HookRuns
    <3>1. CASE Succeed \/ UndoForwarding \/ RestoreForwarding
      BY <3>1 DEF Succeed, UndoForwarding, RestoreForwarding
    <3>2. CASE UndoResolver
      BY <3>2 DEF UndoResolver, ExecStopPost
    <3>3. CASE Raise \/ UndoRaises \/ RestoreForwardingRaises
      BY <3>3 DEF Raise, UndoRaises, RestoreForwardingRaises
    <3>4. CASE ClearRules \/ RestoreResolver
      BY <3>4 DEF ClearRules, RestoreResolver
    <3> QED
      BY <2>1, <3>1, <3>2, <3>3, <3>4 DEF HookRuns
  <2>2. CASE Kill \/ Reboot
    BY <2>2 DEF Kill, Reboot
  <2>3. CASE ProxyExits \/ RequestStop
    BY <2>3 DEF ProxyExits, RequestStop, ExecStopPost
  <2>4. CASE StartLimit \/ RetryStop \/ UNCHANGED vars
    BY <2>4 DEF StartLimit, RetryStop, HookStop, vars
  <2> QED
    BY <2>1, <2>2, <2>3, <2>4 DEF NoStart
<1> QED
  BY <1>1, <1>2 DEF Fault

(* What a stop that is over has not returned, it has failed to return.     *)
LEMMA DirtyHasFailed ==
  ASSUME IInv', Down', pc' = "idle", machine' # Untouched
  PROVE  failed' # {}
<1>1. machine' \in Machines
  BY DEF IInv, TypeOK
<1>2. CASE "killed" \in failed'
  BY <1>2
<1>3. CASE "killed" \notin failed'
  <2>1. (ForwardingReturned /\ RulesReturned /\ ConfReturned)'
    BY <1>3 DEF IInv, StopProgress, Down
  <2>2. machine'.forwarding # "original" \/ machine'.conf # "theirs" \/ machine'.rules # "none"
    BY <1>1, UntouchedIs
  <2> QED
    BY <2>1, <2>2 DEF ForwardingReturned, RulesReturned, ConfReturned
<1> QED
  BY <1>2, <1>3

-----------------------------------------------------------------------------
(* Steps that do not start the unit                                        *)

LEMMA UpstreamKeeps ==
  ASSUME IInv, NoStart, Remember, Upstream,
         Serving' => resolved' = "active" /\ job' \notin {"stop", "restart"}
  PROVE  Upstream'
<1>1. machine'.conf \in {"theirs", "stub"}
  <2>1. IInv'
    BY NextInv DEF NoStart, Next
  <2> QED
    BY <2>1 DEF IInv, TypeOK, Machines
<1>2. Down' /\ machine'.conf = "stub" => torn'
  <2> SUFFICES ASSUME Down', machine'.conf = "stub" PROVE torn'
    OBVIOUS
  <2>1. CASE pc' = "idle"
    BY <2>1 DEF Remember, Down
  <2>2. CASE pc' # "idle"
    BY <2>2, UnitKept, DownReturns DEF Remember, Upstream
  <2> QED
    BY <2>1, <2>2
<1>3. Serving' /\ ~torn' => knows'
  <2> SUFFICES ASSUME Serving', ~torn' PROVE knows'
    OBVIOUS
  <2>1. Serving /\ resolved' = "active"
    BY UnitKept
  <2>2. CASE machine'.conf = "theirs"
    BY <2>1, <2>2 DEF Remember
  <2>3. CASE machine'.conf = "stub"
    BY <2>1, <2>3 DEF Remember, Upstream
  <2> QED
    BY <1>1, <2>2, <2>3
<1>4. resolved' = "active" /\ machine'.conf = "theirs" => knows'
  BY DEF Remember
<1> QED
  BY <1>2, <1>3, <1>4 DEF Upstream

LEMMA ExplainedKeeps ==
  ASSUME IInv, NoStart, UnitStopped, Explained, artifacts' = artifacts,
         step' = "clearing" => step = "clearing" \/ (failed' = {} /\ pc' # "idle"),
         step' \in {"clear", "clearing"} => artifacts["hook"] # "none"
  PROVE  Explained'
<1>1. IInv'
  BY NextInv DEF NoStart, Next
<1>2. /\ faults \in Nat /\ faults' \in Nat /\ faults' >= faults
      /\ failed' \subseteq failed \/ faults' >= faults + 1
  <2>1. faults \in 0..MaxFaults
    BY DEF IInv, TypeOK
  <2> QED
    BY <2>1, FailuresCount
<1>3. failed' # {} => faults' >= 1
  BY <1>2 DEF Explained
<1>4. Down' /\ machine' # Untouched => faults' >= 1
  <2> SUFFICES ASSUME Down', machine' # Untouched PROVE faults' >= 1
    OBVIOUS
  <2>1. CASE Down
    BY <1>2, <2>1, DownReturns DEF Explained
  <2>2. CASE ~Down
    <3>1. pc' = "idle"
      BY <2>2, UnitKept
    <3>2. failed' # {}
      BY <1>1, <3>1, DirtyHasFailed
    <3> QED
      BY <1>3, <3>2
  <2> QED
    BY <2>1, <2>2
<1>5. step' = "clearing" /\ machine' # Untouched /\ (pc' = "idle" \/ failed' # {}) =>
        faults' >= 2
  <2> SUFFICES ASSUME step' = "clearing", machine' # Untouched, pc' = "idle" \/ failed' # {}
               PROVE  faults' >= 2
    OBVIOUS
  <2>1. step = "clearing" /\ unit = "inactive" /\ Down
    BY DEF UnitStopped, Replacing, Down
  <2>2. failed' # {}
    BY <1>1, <2>1, UnitKept, DirtyHasFailed DEF Down
  <2>3. machine # Untouched /\ faults >= 1
    BY <2>1, DownReturns DEF Explained
  <2>4. CASE faults' >= faults + 1
    BY <1>2, <2>3, <2>4
  <2>5. CASE failed' \subseteq failed
    BY <1>2, <2>1, <2>2, <2>3, <2>5 DEF Explained
  <2> QED
    BY <1>2, <2>4, <2>5
<1>6. artifacts = Nothing /\ machine' # Untouched => faults' >= 2
  BY <1>2, DownReturns DEF Explained, Down
<1>7. artifacts = Nothing => unit' = "inactive"
  BY UnitKept DEF Explained
<1>8. /\ artifacts'["hook"] = "none" => artifacts' = Nothing
      /\ step' \in {"clear", "clearing"} => artifacts'["hook"] # "none"
  BY DEF Explained, Nothing
<1> QED
  BY <1>3, <1>4, <1>5, <1>6, <1>7, <1>8 DEF Explained

LEMMA StoppedKeeps ==
  ASSUME IInv, NoStart, UnitStopped, step' = step,
         Resuming' => Resuming \/ unit \in {"starting", "running", "waiting"}
  PROVE  UnitStopped'
<1>1. Replacing' => unit' = "inactive" /\ ~Resuming'
  BY UnitKept DEF UnitStopped, Replacing
<1>2. step' \in {"stopping", "clear"} =>
        unit' \in {"inactive", "stopping"} /\ ~restart' /\ ~Resuming'
  BY UnitKept DEF UnitStopped
<1>3. restart' => unit' = "stopping"
  BY UnitKept DEF UnitStopped
<1> QED
  BY <1>1, <1>2, <1>3 DEF UnitStopped

LEMMA ReleasedKeeps ==
  ASSUME IInv, NoStart, Released, artifacts' = artifacts, startedBy' = startedBy,
         mixed' = mixed, Resuming' => Resuming \/ unit # "inactive"
  PROVE  Released'
<1>1. unit \in {"inactive", "starting", "running", "stopping", "waiting"}
      /\ unit' \in {"inactive", "starting", "running", "stopping", "waiting"}
  <2>1. IInv'
    BY NextInv DEF NoStart, Next
  <2> QED
    BY <2>1 DEF IInv, TypeOK
<1>2. OneRelease <=> OneRelease'
  BY DEF OneRelease
<1> QED
  BY <1>1, <1>2, UnitKept DEF Released, Serving

(* While the scripts wait.                                                 *)
LEMMA InstallationKept ==
  ASSUME IInv, LInv, NoStart, Remember, TypesOK', UNCHANGED installation,
         Resuming' => Resuming \/ unit \in {"starting", "running", "waiting"},
         Serving' => resolved' = "active" /\ job' \notin {"stop", "restart"}
  PROVE  LInv'
<1>1. step' = step /\ artifacts' = artifacts /\ startedBy' = startedBy /\ mixed' = mixed
  BY DEF installation
<1>2. UnitStopped' /\ Released'
  BY <1>1, StoppedKeeps, ReleasedKeeps DEF LInv
<1>3. Installed'
  BY <1>1 DEF LInv, Installed
<1>4. Upstream' /\ Explained'
  BY <1>1, UpstreamKeeps, ExplainedKeeps DEF LInv, Explained
<1> QED
  BY <1>2, <1>3, <1>4 DEF LInv

(* The variables whose values Remember and the others' steps leave alone.  *)
LEMMA TypesKept ==
  ASSUME TypesOK, Remember,
         resolved' \in {"active", "inactive"}, resume' \in BOOLEAN, stopJob' \in BOOLEAN,
         job' \in {"none", "stop", "restart", "resume"}, job' = "resume" => resume',
         step' = step, artifacts' = artifacts, mixed' = mixed
  PROVE  TypesOK'
<1>1. knows' \in BOOLEAN /\ torn' \in BOOLEAN
  BY DEF Remember
<1> QED
  BY <1>1 DEF TypesOK

LEMMA HookStepInv ==
  ASSUME IInv, LInv, Remember, HookSteps \/ UnitChanges \/ OperatorRetries \/ StopUnit
  PROVE  LInv' /\ [Next]_vars
<1>1. NoStart /\ UNCHANGED installation
  BY DEF HookSteps, UnitChanges, OperatorRetries, StopUnit, SystemctlStop, NoStart
<1>2. /\ resolved' = resolved
      /\ job' = job \/ job' = "none"
      /\ resume' = resume \/ (resume' = FALSE /\ job' # "resume")
      /\ stopJob' \in BOOLEAN
  BY DEF HookSteps, UnitChanges, OperatorRetries, StopUnit, SystemctlStop, resolver, LInv, TypesOK
<1>3. TypesOK'
  <2>1. /\ TypesOK /\ resolved \in {"active", "inactive"} /\ resume \in BOOLEAN
        /\ job \in {"none", "stop", "restart", "resume"} /\ (job = "resume" => resume)
    BY DEF LInv, TypesOK
  <2>2. step' = step /\ artifacts' = artifacts /\ mixed' = mixed
    BY <1>1 DEF installation
  <2>3. resume' \in BOOLEAN /\ (job' = "resume" => resume')
    BY <1>2, <2>1
  <2> QED
    BY <1>2, <2>1, <2>2, <2>3, TypesKept
<1>4. Resuming' => Resuming
  BY <1>2 DEF Resuming
<1>5. Serving' => resolved' = "active" /\ job' \notin {"stop", "restart"}
  BY <1>1, <1>2, UnitKept DEF LInv, Upstream
<1> QED
  BY <1>1, <1>3, <1>4, <1>5, InstallationKept DEF NoStart, Next

LEMMA BoundStops ==
  ASSUME IInv, Bound
  PROVE  NoStart /\ ~Serving' /\ stopJob' \in BOOLEAN \cup {stopJob}
BY DEF Bound, NoStart, RequestStop, ExecStopPost, IInv, TypeOK, vars, Serving

LEMMA ResolverInv ==
  ASSUME IInv, LInv, Remember,
         \/ StopResolved \/ RestartResolved \/ ResolvedDies
         \/ JobStopsResolved \/ JobStartsResolved \/ StartResolved
  PROVE  LInv' /\ [Next]_vars
<1>1. CASE StopResolved \/ RestartResolved \/ ResolvedDies
  <2>1. NoStart /\ ~Serving' /\ stopJob' \in BOOLEAN /\ UNCHANGED installation
    BY <1>1, BoundStops
    DEF StopResolved, RestartResolved, ResolvedDies, NoStart, RequestStop, Serving, LInv, TypesOK
  <2>2. /\ resolved' \in {"active", "inactive"} /\ resume' \in BOOLEAN
        /\ job' \in {"none", "stop", "restart"}
        /\ Resuming' => Resuming \/ unit \in {"starting", "running", "waiting"}
    <3> TypesOK
      BY DEF LInv
    <3>1. CASE StopResolved
      BY <3>1 DEF StopResolved, TypesOK, Resuming
    <3>2. CASE RestartResolved
      <4>1. resolved' = resolved /\ job' = "restart"
            /\ resume' = (unit \in {"starting", "running", "waiting"})
        BY <3>2 DEF RestartResolved
      <4> DEFINE up == unit \in {"starting", "running", "waiting"}
      <4>2. resume' \in BOOLEAN /\ (resume' <=> up)
        <5>1. up \in BOOLEAN /\ resume' = up
          BY <4>1
        <5> HIDE DEF up
        <5> QED
          BY <5>1, Zenon
      <4> QED
        BY <4>1, <4>2 DEF TypesOK, Resuming
    <3>3. CASE ResolvedDies
      <4>1. /\ resolved' \in {"active", "inactive"} /\ job' \in {"none", "stop", "restart"}
            /\ resume' \in BOOLEAN
        BY <3>3 DEF ResolvedDies, TypesOK
      <4>2. CASE job \in {"restart", "resume"}
        BY <3>3, <4>1, <4>2 DEF ResolvedDies, Resuming
      <4>3. CASE job \notin {"restart", "resume"}
        BY <3>3, <4>1, <4>3 DEF ResolvedDies, Resuming
      <4> QED
        BY <4>1, <4>2, <4>3
    <3> QED
      BY <1>1, <3>1, <3>2, <3>3
  <2>3. TypesOK'
    BY <2>1, <2>2, TypesKept DEF LInv, TypesOK, installation
  <2> QED
    BY <2>1, <2>2, <2>3, InstallationKept DEF NoStart, Next
<1>2. CASE JobStopsResolved \/ JobStartsResolved \/ StartResolved
  <2>1. NoStart /\ UNCHANGED installation /\ resume' = resume /\ stopJob' = stopJob
    BY <1>2 DEF JobStopsResolved, JobStartsResolved, StartResolved, NoStart
  <2>2. /\ resolved' \in {"active", "inactive"}
        /\ job' \in {"none", "stop", "restart", "resume"} /\ (job' = "resume" => resume)
        /\ Resuming' => Resuming
        /\ ~Serving
    BY <1>2 DEF JobStopsResolved, JobStartsResolved, StartResolved, LInv, TypesOK, Upstream,
       Resuming
  <2>3. TypesOK'
    BY <2>1, <2>2, TypesKept DEF LInv, TypesOK, installation
  <2> QED
    BY <2>1, <2>2, <2>3, UnitKept, InstallationKept DEF NoStart, Next
<1> QED
  BY <1>1, <1>2

-----------------------------------------------------------------------------
(* Steps that start the unit                                               *)

LEMMA StartInv ==
  ASSUME IInv, LInv, Remember, Begins, artifacts' = artifacts, artifacts # Nothing,
         mixed' \in BOOLEAN, OneRelease \/ mixed', resolved' = resolved, resume' \in BOOLEAN,
         job' \in {"none", "resume"}, job' = "resume" => resume',
         step' = "none" \/ (step' = step /\ Restored)
  PROVE  LInv'
<1>1. /\ unit \in {"inactive", "waiting"} /\ unit' = "starting" /\ pc' = "parse"
      /\ machine' = machine /\ failed' = failed /\ faults' = faults
      /\ restart' = restart /\ resolved = "active" /\ stopJob' = FALSE /\ startedBy' = artifacts.hook
  BY DEF Begins, BeginStart
<1>2. TypesOK'
  <2>1. knows' \in BOOLEAN /\ torn' \in BOOLEAN
    BY DEF Remember
  <2>2. resolved \in {"active", "inactive"}
        /\ artifacts \in [Artifacts -> {"none", "old", "new"}]
    BY DEF LInv, TypesOK
  <2> QED
    BY <1>1, <2>1, <2>2 DEF TypesOK, Restored, Artifacts
<1>3. UnitStopped' /\ Installed'
  BY <1>1 DEF LInv, UnitStopped, Replacing, Restored, Installed, Artifacts
<1>4. Released'
  <2>1. OneRelease <=> OneRelease'
    BY DEF OneRelease
  <2> QED
    BY <1>1, <2>1 DEF Released
<1>5. Upstream'
  <2>1. machine.conf \in {"theirs", "stub"}
    BY DEF IInv, TypeOK, Machines
  <2>2. machine'.conf = "theirs" => knows'
    BY <1>1 DEF Remember
  <2>3. machine.conf = "stub" => torn
    BY <1>1 DEF LInv, Upstream, Down
  <2>4. machine'.conf = "stub" => torn'
    BY <1>1, <2>3 DEF Remember
  <2> QED
    BY <1>1, <2>1, <2>2, <2>4 DEF Upstream, Serving, Down
<1>6. Explained'
  <2>1. artifacts["hook"] # "none"
    BY DEF LInv, Explained
  <2> QED
    BY <1>1, <2>1 DEF LInv, Explained, Down, Restored
<1> QED
  BY <1>2, <1>3, <1>4, <1>5, <1>6 DEF LInv

(* Steps of the scripts that leave the unit and the machine alone.         *)
LEMMA ScriptInv ==
  ASSUME IInv, LInv, Remember, UNCHANGED <<vars, resolver, startedBy, mixed>>,
         artifacts' = artifacts,
         step' \in {"none", "hook", "unit"},
         step' = "hook" => unit = "inactive" /\ ~Resuming,
         step' = "unit" => step = "cleaning"
  PROVE  LInv' /\ [Next]_vars
<1>1. NoStart /\ [Next]_vars
  BY DEF NoStart
<1>2. TypesOK'
  <2>1. knows' \in BOOLEAN /\ torn' \in BOOLEAN
    BY DEF Remember
  <2> QED
    BY <2>1 DEF LInv, TypesOK, resolver, Artifacts
<1>3. UnitStopped' /\ Installed'
  BY DEF LInv, UnitStopped, Replacing, Installed, Resuming, resolver, vars, Artifacts
<1>4. Released'
  BY ReleasedKeeps, <1>1 DEF LInv, Resuming, resolver
<1>5. Upstream'
  <2>1. Serving' => resolved' = "active" /\ job' \notin {"stop", "restart"}
    BY DEF LInv, Upstream, Serving, resolver, vars
  <2> QED
    BY <1>1, <2>1, UpstreamKeeps DEF LInv
<1>6. Explained'
  BY <1>1, ExplainedKeeps DEF LInv
<1> QED
  BY <1>1, <1>2, <1>3, <1>4, <1>5, <1>6 DEF LInv

(* Whoever starts the unit.                                                *)
LEMMA StartsInv ==
  ASSUME Careful, IInv, LInv, Remember, StartUnit \/ AutoRestart \/ ResumeUnit \/ FinishInstall
  PROVE  LInv' /\ [Next]_vars
<1>1. /\ resume \in BOOLEAN /\ (job = "resume" => resume) /\ mixed \in BOOLEAN
      /\ job \in {"none", "stop", "restart", "resume"}
      /\ step \in {"none", "stopping", "clean", "cleaning", "start", "clear", "clearing"}
                  \cup Artifacts
  BY DEF LInv, TypesOK
<1>2. Begins => job \in {"none", "resume"} /\ BeginStart
  BY <1>1 DEF Begins
<1>3. CASE StartUnit
  <2>1. /\ Begins /\ artifacts' = artifacts /\ resolved' = resolved /\ resume' = resume
        /\ job' = job /\ job = "none" /\ step' = step
        /\ step \in {"none", "unit", "binaries", "start"}
    BY <1>3 DEF StartUnit
  <2>2. artifacts # Nothing
    BY <1>3 DEF StartUnit, Nothing, Artifacts
  <2>3. mixed' \in BOOLEAN /\ (OneRelease \/ mixed')
    <3> DEFINE pieced == step # "none" \/ ~OneRelease
    <3>1. mixed' = pieced /\ pieced \in BOOLEAN
      BY <1>3 DEF StartUnit
    <3>2. ~OneRelease => pieced
      OBVIOUS
    <3> HIDE DEF pieced
    <3> QED
      BY <3>1, <3>2, Zenon
  <2>4. step' = "none" \/ (step' = step /\ Restored)
    BY <2>1 DEF Restored
  <2> QED
    BY <1>1, <1>2, <2>1, <2>2, <2>3, <2>4, StartInv DEF Next
<1>4. CASE AutoRestart
  <2>1. unit = "waiting" /\ Begins /\ step' = step /\ artifacts' = artifacts
        /\ resolved' = resolved /\ job' = job /\ resume' = resume /\ mixed' = mixed
    BY <1>4 DEF AutoRestart
  <2>2. step = "none" \/ Restored
    BY <1>1, <2>1 DEF LInv, UnitStopped, Replacing, Restored, Artifacts
  <2>3. (OneRelease \/ mixed) /\ artifacts # Nothing
    BY <2>1 DEF LInv, Released, Explained
  <2> QED
    BY <1>1, <1>2, <2>1, <2>2, <2>3, StartInv DEF Next
<1>5. CASE ResumeUnit
  <2>1. job = "resume" /\ job' = "none" /\ Resuming /\ step' = step /\ artifacts' = artifacts
        /\ resolved' = resolved /\ resume' = resume /\ mixed' = mixed
    BY <1>1, <1>5 DEF ResumeUnit, Resuming
  <2>2. CASE unit = "inactive" /\ artifacts.unit # "none"
    <3>1. Begins
      BY <1>5, <2>2 DEF ResumeUnit
    <3>2. step = "none" \/ Restored
      BY <1>1, <2>1 DEF LInv, UnitStopped, Replacing, Restored, Artifacts
    <3>3. OneRelease \/ mixed
      BY <2>1 DEF LInv, Released
    <3>4. artifacts # Nothing
      BY <2>2 DEF Nothing, Artifacts
    <3> QED
      BY <1>1, <1>2, <2>1, <3>1, <3>2, <3>3, <3>4, StartInv DEF Next
  <2>3. CASE ~(unit = "inactive" /\ artifacts.unit # "none")
    <3>1. UNCHANGED vars /\ UNCHANGED installation /\ stopJob' = stopJob
      BY <1>5, <2>3 DEF ResumeUnit, installation
    <3>2. TypesOK'
      BY <1>1, <2>1, <3>1, TypesKept DEF LInv, TypesOK, installation
    <3>3. Serving' => resolved' = "active"
      BY <2>1, <3>1 DEF LInv, Upstream, Serving, vars
    <3> QED
      BY <2>1, <3>1, <3>2, <3>3, InstallationKept DEF NoStart, Resuming
  <2> QED
    BY <2>2, <2>3
<1>6. CASE FinishInstall
  <2>1. step = "start" /\ step' = "none" /\ artifacts' = artifacts /\ UNCHANGED <<resolved, job, resume>>
    BY <1>6 DEF FinishInstall
  <2>2. CASE wasActive /\ unit = "inactive"
    <3>1. Begins /\ mixed' = FALSE
      BY <1>6, <2>2 DEF FinishInstall
    <3>2. OneRelease /\ artifacts # Nothing
      BY <2>1 DEF LInv, Installed, OneRelease, Artifacts, Nothing
    <3> QED
      BY <1>1, <1>2, <2>1, <3>1, <3>2, StartInv DEF Next
  <2>3. CASE ~(wasActive /\ unit = "inactive")
    <3>1. UNCHANGED <<vars, resolver, startedBy, mixed>>
      BY <1>6, <2>3, <2>1 DEF FinishInstall, resolver
    <3> QED
      BY <2>1, <3>1, ScriptInv
  <2> QED
    BY <2>2, <2>3
<1> QED
  BY <1>3, <1>4, <1>5, <1>6

-----------------------------------------------------------------------------
(* The scripts, and power loss                                             *)

LEMMA ScriptStops ==
  ASSUME IInv, LInv, NoStart, Remember, UNCHANGED <<artifacts, startedBy, mixed>>,
         TypesOK', UnitStopped', Installed', Resuming' => Resuming, ~Serving',
         step' = "clearing" => failed' = {} /\ pc' # "idle",
         step' \in {"clear", "clearing"} => artifacts["hook"] # "none"
  PROVE  LInv'
<1>1. Released'
  BY ReleasedKeeps DEF LInv
<1>2. Upstream'
  BY UpstreamKeeps DEF LInv
<1>3. Explained'
  BY ExplainedKeeps DEF LInv
<1> QED
  BY <1>1, <1>2, <1>3 DEF LInv

LEMMA BeginsStop ==
  ASSUME Careful, IInv, LInv, Remember, BeginInstall \/ BeginUninstall
  PROVE  LInv' /\ [Next]_vars
<1>1. CASE BeginInstall /\ unit # "running"
  <2>1. unit = "inactive" /\ step' = "hook" /\ artifacts' = artifacts
        /\ UNCHANGED <<vars, resolver, startedBy, mixed>>
    BY <1>1 DEF BeginInstall
  <2>2. ~Resuming
    BY <1>1 DEF BeginInstall, Resuming
  <2> QED
    BY <2>1, <2>2, ScriptInv
<1>2. CASE BeginUninstall \/ (BeginInstall /\ unit = "running")
  <2>1. /\ SystemctlStop /\ UNCHANGED <<artifacts, startedBy, mixed>>
        /\ step' \in {"stopping", "clear"}
        /\ step' = "clear" => artifacts # Nothing
    BY <1>2 DEF BeginInstall, BeginUninstall
  <2>2. UNCHANGED vars \/ RequestStop
    BY <2>1 DEF SystemctlStop
  <2>3. /\ resolved' = resolved /\ resume' = FALSE /\ job' \in {job, "none"}
        /\ job' # "resume" /\ stopJob' \in {stopJob, TRUE}
    BY <2>1 DEF SystemctlStop
  <2>4. unit' \in {"inactive", "stopping"} /\ ~restart'
    <3>1. CASE unit = "inactive"
      BY <2>1, <3>1 DEF SystemctlStop, vars, LInv, UnitStopped
    <3>2. CASE unit # "inactive"
      <4>1. RequestStop
        BY <2>1, <3>2 DEF SystemctlStop
      <4> QED
        BY <4>1 DEF RequestStop, ExecStopPost
    <3> QED
      BY <3>1, <3>2
  <2>5. TypesOK'
    <3>1. knows' \in BOOLEAN /\ torn' \in BOOLEAN
      BY DEF Remember
    <3> QED
      BY <2>1, <2>3, <3>1 DEF LInv, TypesOK
  <2>6. UnitStopped' /\ Installed' /\ ~Resuming'
    BY <2>1, <2>3, <2>4 DEF UnitStopped, Replacing, Installed, Resuming, Artifacts
  <2>7. artifacts # Nothing => artifacts["hook"] # "none"
    BY DEF LInv, Explained
  <2> QED
    BY <2>1, <2>2, <2>4, <2>5, <2>6, <2>7, ScriptStops DEF NoStart, Next, Serving
<1> QED
  BY <1>1, <1>2 DEF BeginInstall

(* One artifact after the other.                                           *)
LEMMA InstallInv ==
  ASSUME IInv, LInv, Remember, InstallArtifacts
  PROVE  LInv' /\ [Next]_vars
<1>1. PICK artifact \in Artifacts, next \in {"package", "clean", "binaries", "start"} :
        /\ Install(artifact, next)
        /\ artifact = "hook" => next = "package"
        /\ artifact = "package" => next = "clean"
        /\ artifact = "unit" => next = "binaries"
        /\ artifact = "binaries" => next = "start"
  BY DEF InstallArtifacts, Artifacts
<1>2. /\ step = artifact /\ step' = next /\ UNCHANGED <<vars, resolver, startedBy, mixed>>
      /\ artifacts' = [artifacts EXCEPT ![artifact] = "new"]
      /\ artifacts \in [Artifacts -> {"none", "old", "new"}]
  BY <1>1 DEF Install, LInv, TypesOK
<1>3. /\ unit' = unit /\ (Resuming' <=> Resuming) /\ (Serving' <=> Serving)
      /\ NoStart /\ [Next]_vars
  BY <1>2 DEF NoStart, Resuming, Serving, resolver, vars
<1>4. TypesOK'
  <2>1. knows' \in BOOLEAN /\ torn' \in BOOLEAN
    BY DEF Remember
  <2>2. artifacts' \in [Artifacts -> {"none", "old", "new"}]
    BY <1>2
  <2> QED
    BY <1>1, <1>2, <2>1, <2>2 DEF LInv, TypesOK, resolver, Artifacts
<1>5. UnitStopped'
  BY <1>1, <1>2, <1>3 DEF LInv, UnitStopped, Replacing, Artifacts, vars
<1>6. Installed'
  BY <1>1, <1>2 DEF LInv, Installed, Artifacts
<1>7. Released'
  <2>1. CASE artifact \in {"hook", "package"}
    BY <1>2, <1>3, <2>1 DEF LInv, UnitStopped, Replacing, Released
  <2>2. CASE artifact \in {"unit", "binaries"}
    <3>1. artifacts["hook"] = "new" /\ artifacts'["hook"] = "new"
      BY <1>2, <2>2 DEF LInv, Installed, Artifacts
    <3>2. OneRelease => OneRelease'
      BY <1>2, <3>1 DEF OneRelease, Artifacts
    <3> QED
      BY <1>2, <1>3, <3>1, <3>2 DEF LInv, Released
  <2> QED
    BY <2>1, <2>2 DEF Artifacts
<1>8. Upstream'
  BY <1>2, <1>3, UpstreamKeeps DEF LInv, Upstream, resolver
<1>9. Explained'
  <2>1. artifacts'["hook"] = "new" /\ artifacts' # Nothing
    BY <1>1, <1>2 DEF LInv, Installed, Nothing, Artifacts
  <2> QED
    BY <1>1, <1>2, <2>1 DEF LInv, Explained, vars, Down
<1> QED
  BY <1>3, <1>4, <1>5, <1>6, <1>7, <1>8, <1>9 DEF LInv

(* hook.py stop, by a script.                                              *)
LEMMA CleanInv ==
  ASSUME IInv, LInv, Remember, BeginCleaning \/ BeginClearing
  PROVE  LInv' /\ [Next]_vars
<1>1. /\ step \in {"clean", "clear"} /\ unit = "inactive"
      /\ step' = (IF step = "clean" THEN "cleaning" ELSE "clearing")
      /\ UNCHANGED <<resolver, artifacts, startedBy, mixed>>
  BY DEF BeginCleaning, BeginClearing, LInv, UnitStopped, Replacing
<1>2. step = "clear" => artifacts["hook"] # "none"
  BY DEF LInv, Explained
<1>3. HookStop
  BY <1>1, <1>2 DEF BeginCleaning, BeginClearing
<1>4. /\ RetryStop /\ unit' = unit /\ restart' = restart
      /\ failed' = {} /\ pc' # "idle"
  BY <1>1, <1>3 DEF RetryStop, HookStop
<1>5. TypesOK'
  <2>1. knows' \in BOOLEAN /\ torn' \in BOOLEAN
    BY DEF Remember
  <2> QED
    BY <1>1, <2>1 DEF LInv, TypesOK, resolver
<1>6. UnitStopped' /\ Installed'
  BY <1>1, <1>4 DEF LInv, UnitStopped, Replacing, Installed, Artifacts, Resuming, resolver
<1>7. Resuming' => Resuming
  BY <1>1 DEF Resuming, resolver
<1> QED
  BY <1>1, <1>2, <1>4, <1>5, <1>6, <1>7, ScriptStops DEF NoStart, Next, Serving

LEMMA RemoveInv ==
  ASSUME IInv, LInv, Remember, RemoveFiles
  PROVE  LInv' /\ [Next]_vars
<1>1. /\ step = "clearing" /\ pc = "idle" /\ step' = "none" /\ artifacts' = Nothing
      /\ UNCHANGED <<vars, resolver, startedBy, mixed>>
  BY DEF RemoveFiles
<1>2. unit = "inactive" /\ ~Resuming /\ NoStart /\ [Next]_vars
  BY <1>1 DEF LInv, UnitStopped, Replacing, NoStart
<1>3. TypesOK'
  <2>1. knows' \in BOOLEAN /\ torn' \in BOOLEAN
    BY DEF Remember
  <2>2. Nothing \in [Artifacts -> {"none", "old", "new"}]
    BY DEF Nothing
  <2> QED
    BY <1>1, <2>1, <2>2 DEF LInv, TypesOK, resolver
<1>4. UnitStopped' /\ Installed' /\ Released'
  BY <1>1, <1>2 DEF LInv, UnitStopped, Replacing, Installed, Released, Artifacts, Resuming,
     resolver, vars
<1>5. Upstream'
  BY <1>1, <1>2, UpstreamKeeps DEF LInv, Serving, vars
<1>6. Explained'
  BY <1>1, <1>2 DEF LInv, Explained, vars, Down
<1> QED
  BY <1>2, <1>3, <1>4, <1>5, <1>6 DEF LInv

LEMMA PowerLossInv ==
  ASSUME IInv, LInv, Remember, PowerLoss
  PROVE  LInv' /\ [Next]_vars
<1>1. /\ Reboot /\ resolved' = "inactive" /\ job' = "none" /\ resume' = FALSE
      /\ stopJob' = FALSE /\ step' = "none" /\ UNCHANGED <<artifacts, startedBy, mixed>>
  BY DEF PowerLoss
<1>2. unit' = "inactive" /\ ~restart'
  BY <1>1, RebootIs
<1>3. TypesOK'
  <2>1. knows' \in BOOLEAN /\ torn' \in BOOLEAN
    BY DEF Remember
  <2> QED
    BY <1>1, <2>1 DEF LInv, TypesOK
<1>4. UnitStopped' /\ Installed' /\ ~Resuming'
  BY <1>1, <1>2 DEF UnitStopped, Replacing, Installed, Artifacts, Resuming
<1> QED
  BY <1>1, <1>2, <1>3, <1>4, ScriptStops DEF NoStart, Next, Serving

-----------------------------------------------------------------------------
LEMMA LifecycleInit == InitLifecycle => IInv /\ LInv
<1> SUFFICES ASSUME InitLifecycle PROVE IInv /\ LInv
  OBVIOUS
<1>1. IInv /\ Init
  BY InitInv DEF InitLifecycle
<1>2. /\ unit = "inactive" /\ machine = Untouched /\ failed = {} /\ restart = FALSE
      /\ resolved = "active" /\ knows = TRUE /\ torn = FALSE /\ job = "none"
      /\ resume = FALSE /\ stopJob = FALSE /\ step = "none"
      /\ artifacts = [a \in Artifacts |-> "old"] /\ startedBy = "old" /\ mixed = FALSE
  BY DEF InitLifecycle, Init
<1>3. TypesOK /\ UnitStopped /\ Installed
  BY <1>2 DEF TypesOK, UnitStopped, Replacing, Installed, Artifacts, Resuming
<1>4. Released /\ Upstream
  BY <1>2 DEF Released, Upstream, Resuming, Serving, Untouched
<1>5. artifacts["hook"] = "old" /\ artifacts # Nothing
  BY <1>2 DEF Artifacts, Nothing
<1>6. Explained
  BY <1>2, <1>5 DEF Explained
<1> QED
  BY <1>1, <1>3, <1>4, <1>6 DEF LInv

LEMMA LifecycleStep ==
  Careful /\ IInv /\ LInv /\ [NextLifecycle]_allVars => IInv' /\ LInv' /\ [Next]_vars
<1> SUFFICES ASSUME Careful, IInv, LInv, [NextLifecycle]_allVars
             PROVE  LInv' /\ [Next]_vars
  BY NextInv
<1>1. CASE UNCHANGED allVars
  <2>1. LInv'
    BY <1>1 DEF allVars, vars, resolver, installation, LInv, TypesOK, UnitStopped, Replacing,
       Installed, Released, OneRelease, Upstream, Explained, Resuming, Serving, Down
  <2> QED
    BY <1>1, <2>1 DEF allVars
<1>2. CASE Remember /\ (HookSteps \/ UnitChanges \/ OperatorRetries \/ StopUnit)
  BY <1>2, HookStepInv
<1>3. CASE Remember /\ (StopResolved \/ RestartResolved \/ ResolvedDies \/ ResolverJob)
  BY <1>3, ResolverInv DEF ResolverJob
<1>4. CASE Remember /\ (StartUnit \/ AutoRestart \/ ResumeUnit)
  BY <1>4, StartsInv
<1>5. CASE Remember /\ (BeginInstall \/ BeginUninstall)
  BY <1>5, BeginsStop
<1>6. CASE Remember /\ PowerLoss
  BY <1>6, PowerLossInv
<1>7. CASE Remember /\ InstallFails
  <2>1. /\ step' = "none" /\ artifacts' = artifacts
        /\ UNCHANGED <<vars, resolver, startedBy, mixed>>
    BY <1>7 DEF InstallFails
  <2> QED
    BY <1>7, <2>1, ScriptInv
<1>8. CASE Remember /\ Installer
  <2>1. CASE InstallerStops
    <3>1. /\ step' = "hook" /\ artifacts' = artifacts
          /\ UNCHANGED <<vars, resolver, startedBy, mixed>> /\ unit = "inactive" /\ ~Resuming
      BY <2>1 DEF InstallerStops, LInv, UnitStopped
    <3> QED
      BY <1>8, <3>1, ScriptInv
  <2>2. CASE InstallArtifacts
    BY <1>8, <2>2, InstallInv
  <2>3. CASE BeginCleaning \/ BeginClearing
    BY <1>8, <2>3, CleanInv
  <2>4. CASE CleaningEnds
    <3>1. /\ step = "cleaning" /\ step' \in {"unit", "none"} /\ artifacts' = artifacts
          /\ UNCHANGED <<vars, resolver, startedBy, mixed>>
      BY <2>4 DEF CleaningEnds
    <3> QED
      BY <1>8, <3>1, ScriptInv
  <2>5. CASE FinishInstall
    BY <1>8, <2>5, StartsInv
  <2>6. CASE RemoveFiles
    BY <1>8, <2>6, RemoveInv
  <2> QED
    BY <1>8, <2>1, <2>2, <2>3, <2>4, <2>5, <2>6 DEF Installer
<1> QED
  BY <1>1, <1>2, <1>3, <1>4, <1>5, <1>6, <1>7, <1>8 DEF NextLifecycle

-----------------------------------------------------------------------------
(* Among resolved, the installer and the uninstaller the hook takes no     *)
(* steps but those that Hook allows: what is proved of Hook holds here.    *)
THEOREM LifecycleRefines == ASSUME Careful PROVE SpecLifecycle => Spec
<1>1. InitLifecycle => Init
  BY DEF InitLifecycle
<1> QED
  BY <1>1, LifecycleInit, LifecycleStep, PTL DEF SpecLifecycle, Spec

THEOREM LifecycleInvariance == ASSUME Careful PROVE SpecLifecycle => [](IInv /\ LInv)
<1> QED
  BY LifecycleInit, LifecycleStep, PTL DEF SpecLifecycle

(* A stop returns what can be returned, whoever asks for it, and the hook  *)
(* is the service that Service describes.                                  *)
COROLLARY LifecycleReturns ==
  ASSUME Careful PROVE SpecLifecycle => []StopReturnsTheRest /\ ImplementsService
<1> QED
  BY LifecycleRefines, StopReturns, Refinement, PTL

(* While the unit serves, systemd-resolved knows upstream servers, unless  *)
(* a crash or a failed stop had left its stub (install.sh, BindsTo, After  *)
(* and PartOf of the unit).                                                *)
THEOREM UpstreamIsKept == ASSUME Careful PROVE SpecLifecycle => []UpstreamKept
<1>1. LInv => UpstreamKept
  BY DEF LInv, Upstream, UpstreamKept, Serving
<1> QED
  BY <1>1, LifecycleInvariance, PTL

(* What a start took is undone by the hook that made it, and what runs is  *)
(* of one release, after failed and interrupted upgrades too, unless       *)
(* somebody started a mixture (install.sh stops the service before it      *)
(* replaces anything).                                                     *)
THEOREM OneReleaseRuns == ASSUME Careful PROVE SpecLifecycle => []RunsOneRelease
<1>1. LInv => RunsOneRelease
  BY DEF LInv, Released, RunsOneRelease, OneRelease, Artifacts
<1> QED
  BY <1>1, LifecycleInvariance, PTL

(* A removed mitmwall leaves something behind only after two faults        *)
(* (uninstall.sh stops the unit, then runs the hook once more).            *)
THEOREM RemovalSurvives == ASSUME Careful PROVE SpecLifecycle => []RemovalSurvivesOneFault
<1>1. LInv => RemovalSurvivesOneFault
  BY DEF LInv, Explained, RemovalSurvivesOneFault
<1> QED
  BY <1>1, LifecycleInvariance, PTL
=============================================================================
