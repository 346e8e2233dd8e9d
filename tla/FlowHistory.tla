---------------------------- MODULE FlowHistory ----------------------------
(***************************************************************************)
(* How the addon keeps mitmproxy's flow history small                      *)
(* (src/src/addon/addon.py): mitmproxy's view stores every proxied flow,   *)
(* the addon counts requests and trims the view at an interval. Trimming   *)
(* reaches into private parts of mitmproxy and may fail; so may the full   *)
(* clear that replaces it, and the request handler, before it counts.      *)
(***************************************************************************)
EXTENDS Integers, Sequences

CONSTANTS
    ConfigValues,                   \* numbers config.toml may hold
    DefaultInterval, DefaultKeep,   \* the values of constants.py
    MaxStored,                      \* bound: flows of one process
    MaxFaults                       \* bound: trims and clears that fail

ASSUME HistoryAssumption ==
    /\ ConfigValues \subseteq Nat
    /\ DefaultInterval \in Nat \ {0} /\ DefaultKeep \in Nat \ {0}
    /\ MaxStored \in Nat /\ MaxFaults \in Nat

VARIABLES
    phase,      \* of the addon in its mitmweb process, if there is one
    interval,   \* flow_history_clear_interval
    keep,       \* flow_history_keep_entries
    counter,    \* requests_since_flow_history_clear
    view,       \* mitmproxy's stored flows, oldest first, by number
    stored,     \* history: how many flows this process has stored
    uncounted,  \* history: flows stored without a count since the last trim
    missed,     \* history: trims in a row that left the view as it was
    faults      \* history: failures so far

vars == <<phase, interval, keep, counter, view, stored, uncounted, missed, faults>>

TypeOK ==
    /\ phase \in {"down", "loaded", "running"}
    /\ missed \in 0..faults
    /\ interval \in Nat \ {0} /\ keep \in Nat \ {0}
    /\ counter \in 0..interval - 1
    /\ stored \in 0..MaxStored /\ uncounted \in 0..stored
    /\ view \in Seq(1..stored)
    /\ faults \in 0..MaxFaults

Init ==
    /\ phase = "down" /\ missed = 0
    /\ interval = DefaultInterval /\ keep = DefaultKeep
    /\ counter = 0 /\ stored = 0 /\ uncounted = 0 /\ view = <<>> /\ faults = 0

-----------------------------------------------------------------------------

(* parse_flow_history_clear_interval and parse_flow_history_keep_entries.  *)
IsPositive(value) == value >= 1

(* load: any invalid value of config.toml, or none at all, means every     *)
(* default.                                                                *)
Load ==
    /\ phase = "down" /\ phase' = "loaded"
    /\ \/ \E i, k \in ConfigValues :
            /\ IsPositive(i) /\ IsPositive(k)
            /\ interval' = i /\ keep' = k
       \/ interval' = DefaultInterval /\ keep' = DefaultKeep
    /\ counter' = 0
    /\ UNCHANGED <<view, stored, uncounted, missed, faults>>

(* running: mitmproxy has started.                                         *)
Running ==
    /\ phase = "loaded" /\ phase' = "running"
    /\ UNCHANGED <<interval, keep, counter, view, stored, uncounted, missed, faults>>

(* Mutant: the oldest entries.                                             *)
Oldest(values, n) == SubSeq(values, 1, IF n < Len(values) THEN n ELSE Len(values))

(* Mutant: one entry more.                                                 *)
NewestAndOne(values, n) ==
    IF n >= Len(values) THEN values ELSE SubSeq(values, Len(values) - n, Len(values))

(* Mutant: one entry less.                                                 *)
NewestButOne(values, n) ==
    IF n >= Len(values) THEN values ELSE SubSeq(values, Len(values) - n + 2, Len(values))

(* values[-n:], which for n = 0 is the whole list.                         *)
Newest(values, n) ==
    IF n = 0 \/ n >= Len(values) THEN values
    ELSE SubSeq(values, Len(values) - n + 1, Len(values))

Fault == faults < MaxFaults /\ faults' = faults + 1

(* clear_mitmproxy_flow_history: trim; clear everything if that fails; if  *)
(* that fails as well, the view is untouched or was cleared by the trim.   *)
TrimHistory(flows) ==
    \/ view' = Newest(flows, keep) /\ missed' = 0 /\ uncounted' = 0 /\ UNCHANGED faults
    \/ Fault /\ view' = <<>> /\ missed' = 0 /\ uncounted' = 0
    \/ Fault /\ view' = flows /\ missed' = missed + 1 /\ UNCHANGED uncounted

(* record_request_for_flow_history_clear, when the view holds these flows. *)
RecordRequest(flows) ==
    IF counter + 1 < interval
    THEN counter' = counter + 1 /\ view' = flows /\ UNCHANGED <<uncounted, missed, faults>>
    ELSE counter' = 0 /\ TrimHistory(flows)

(* mitmproxy stores a flow in its view and calls request or dns_request,   *)
(* which counts it, whatever it decides about it, ...                      *)
ProxyRequest ==
    /\ phase # "down" /\ stored < MaxStored
    /\ stored' = stored + 1
    /\ RecordRequest(Append(view, stored + 1))
    /\ UNCHANGED <<phase, interval, keep>>

(* ... or raises before it does.                                           *)
ProxyUncounted ==
    /\ phase # "down" /\ stored < MaxStored
    /\ stored' = stored + 1 /\ uncounted' = uncounted + 1
    /\ view' = Append(view, stored + 1)
    /\ UNCHANGED <<phase, interval, keep, counter, missed, faults>>

(* mitmweb ends, with its view and the addon's counter.                    *)
Exit ==
    /\ phase # "down" /\ phase' = "down"
    /\ view' = <<>> /\ counter' = 0 /\ stored' = 0 /\ uncounted' = 0 /\ missed' = 0
    /\ UNCHANGED <<interval, keep, faults>>

Next == Load \/ Running \/ ProxyRequest \/ ProxyUncounted \/ Exit

Spec == Init /\ [][Next]_vars

-----------------------------------------------------------------------------
(* Properties                                                              *)

(* Unless its last trim failed entirely, mitmproxy holds at most the kept  *)
(* entries, one interval's requests and the flows since the last trim      *)
(* whose handler raised: memory does not grow with what is counted, and    *)
(* the next trim takes the others along.                                   *)
HistoryBounded == missed = 0 => Len(view) <= keep + counter + uncounted

(* What the view holds is always the newest flows, in their order.         *)
NewestKept == \A i \in DOMAIN view : view[i] = stored - Len(view) + i

(* Without a failure no trim drops a flow while fewer than                 *)
(* flow_history_keep_entries newer ones are kept.                          *)
TrimKeepsEnough ==
    [][phase' # "down" /\ UNCHANGED faults /\ Len(view') # Len(view) + 1 /\ stored' > stored
         => Len(view') = keep]_vars
=============================================================================
