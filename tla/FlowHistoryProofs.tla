------------------------- MODULE FlowHistoryProofs -------------------------
(* Theorems about FlowHistory, for every interval, size and bound.         *)
EXTENDS FlowHistory, TLAPS

USE HistoryAssumption DEF HistoryAssumption

(* The bound and the order are inductive together with the types, as every *)
(* process starts with an empty view.                                      *)
IInv ==
  /\ TypeOK /\ HistoryBounded /\ NewestKept
  /\ phase = "down" => view = <<>>

LEMMA InitInv == Init => IInv
<1> SUFFICES ASSUME Init PROVE IInv
  OBVIOUS
<1>1. view \in Seq(1..stored) /\ Len(view) = 0
  BY DEF Init
<1>2. TypeOK
  BY <1>1 DEF Init, TypeOK
<1>3. HistoryBounded
  BY <1>1 DEF Init, HistoryBounded
<1>4. NewestKept
  BY <1>1 DEF NewestKept
<1> QED
  BY <1>2, <1>3, <1>4 DEF IInv, Init

(* What values[-n:] is: a suffix of at most n entries.                     *)
LEMMA NewestIsSuffix ==
  ASSUME NEW S, NEW values \in Seq(S), NEW n \in Nat \ {0}
  PROVE  /\ Newest(values, n) \in Seq(S)
         /\ Len(Newest(values, n)) = IF n >= Len(values) THEN Len(values) ELSE n
         /\ \A i \in 1..Len(Newest(values, n)) :
              Newest(values, n)[i] = values[Len(values) - Len(Newest(values, n)) + i]
<1>1. CASE n >= Len(values)
  BY <1>1 DEF Newest
<1>2. CASE n < Len(values)
  <2>1. Newest(values, n) = SubSeq(values, Len(values) - n + 1, Len(values))
    BY <1>2 DEF Newest
  <2>2. Len(values) - n + 1 \in 1..Len(values)
    BY <1>2
  <2> QED
    BY <1>2, <2>1, <2>2
<1> QED
  BY <1>1, <1>2

(* The invariant of the next state from facts about the next view.         *)
LEMMA FromView ==
  ASSUME phase' \in {"down", "loaded", "running"},
         interval' \in Nat \ {0}, keep' \in Nat \ {0}, counter' \in 0..interval' - 1,
         stored' \in 0..MaxStored, uncounted' \in 0..stored',
         faults' \in 0..MaxFaults, missed' \in 0..faults',
         view' \in Seq(1..stored'),
         \A i \in 1..Len(view') : view'[i] = stored' - Len(view') + i,
         missed' = 0 => Len(view') <= keep' + counter' + uncounted',
         phase' = "down" => view' = <<>>
  PROVE  IInv'
<1>1. TypeOK'
  BY DEF TypeOK
<1>2. DOMAIN view' = 1..Len(view')
  OBVIOUS
<1>3. NewestKept'
  BY <1>2 DEF NewestKept
<1> QED
  BY <1>1, <1>3 DEF IInv, HistoryBounded

(* The view with one flow more.                                            *)
LEMMA OneMore ==
  ASSUME IInv, NEW flows, flows = Append(view, stored + 1)
  PROVE  /\ flows \in Seq(1..stored + 1)
         /\ Len(flows) = Len(view) + 1
         /\ \A i \in 1..Len(flows) : flows[i] = stored + 1 - Len(flows) + i
<1>1. stored \in Nat /\ view \in Seq(1..stored) /\ Len(view) \in Nat
  BY DEF IInv, TypeOK
<1>2. \A i \in 1..Len(view) : view[i] \in 1..stored /\ view[i] = stored - Len(view) + i
  BY <1>1 DEF IInv, NewestKept
<1>3. view \in Seq(1..stored + 1)
  BY <1>1, <1>2
<1>4. flows \in Seq(1..stored + 1) /\ Len(flows) = Len(view) + 1
  BY <1>1, <1>3
<1>5. \A i \in 1..Len(flows) : flows[i] = IF i <= Len(view) THEN view[i] ELSE stored + 1
  BY <1>1, <1>4
<1> QED
  BY <1>1, <1>2, <1>4, <1>5

(* Counting a request.                                                     *)
LEMMA RequestStep ==
  ASSUME IInv, ProxyRequest
  PROVE  IInv'
<1> DEFINE flows == Append(view, stored + 1)
<1>1. /\ phase' = phase /\ phase # "down" /\ interval' = interval /\ keep' = keep
      /\ stored' = stored + 1 /\ stored < MaxStored
  BY DEF ProxyRequest
<1>7. RecordRequest(flows)
  BY DEF ProxyRequest
<1>2. /\ phase \in {"down", "loaded", "running"}
      /\ interval \in Nat \ {0} /\ keep \in Nat \ {0} /\ counter \in 0..interval - 1
      /\ stored \in 0..MaxStored /\ faults \in 0..MaxFaults /\ missed \in 0..faults
      /\ uncounted \in 0..stored /\ Len(view) \in Nat
      /\ missed = 0 => Len(view) <= keep + counter + uncounted
  BY DEF IInv, TypeOK, HistoryBounded
<1>3. /\ flows \in Seq(1..stored')
      /\ Len(flows) = Len(view) + 1
      /\ \A i \in 1..Len(flows) : flows[i] = stored' - Len(flows) + i
  <2>1. /\ flows \in Seq(1..stored + 1)
        /\ Len(flows) = Len(view) + 1
        /\ \A i \in 1..Len(flows) : flows[i] = stored + 1 - Len(flows) + i
    <3>1. flows = Append(view, stored + 1)
      OBVIOUS
    <3> HIDE DEF flows
    <3> QED
      BY <3>1, OneMore
  <2> HIDE DEF flows
  <2>2. stored' = stored + 1 /\ stored \in Nat
    BY <1>1, <1>2
  <2> QED
    BY <2>1, <2>2
<1> HIDE DEF flows
<1>4. stored' \in 0..MaxStored
  BY <1>1, <1>2
<1>5. CASE counter + 1 < interval
  <2>1. /\ counter' = counter + 1 /\ view' = flows
        /\ uncounted' = uncounted /\ missed' = missed /\ faults' = faults
    BY <1>5, <1>7 DEF RecordRequest
  <2>2. counter' \in 0..interval' - 1
    BY <1>1, <1>2, <1>5, <2>1
  <2>3. missed' = 0 => Len(view') <= keep' + counter' + uncounted'
    BY <1>1, <1>2, <1>3, <2>1
  <2>4. uncounted' \in 0..stored'
    BY <1>1, <1>2, <2>1
  <2> QED
    BY <1>1, <1>2, <1>3, <1>4, <2>1, <2>2, <2>3, <2>4, FromView
<1>6. CASE ~(counter + 1 < interval)
  <2>1. counter' = 0 /\ TrimHistory(flows)
    BY <1>6, <1>7 DEF RecordRequest
  <2>2. counter' \in 0..interval' - 1
    BY <1>1, <1>2, <2>1
  <2>u. 0 \in 0..stored' /\ uncounted \in 0..stored'
    BY <1>1, <1>2
  <2>3. CASE view' = Newest(flows, keep) /\ missed' = 0 /\ uncounted' = 0 /\ UNCHANGED faults
    <3>1. /\ view' \in Seq(1..stored')
          /\ Len(view') = IF keep >= Len(flows) THEN Len(flows) ELSE keep
          /\ \A i \in 1..Len(view') : view'[i] = flows[Len(flows) - Len(view') + i]
      <4>1. /\ Newest(flows, keep) \in Seq(1..stored')
            /\ Len(Newest(flows, keep)) = IF keep >= Len(flows) THEN Len(flows) ELSE keep
            /\ \A i \in 1..Len(Newest(flows, keep)) :
                 Newest(flows, keep)[i] = flows[Len(flows) - Len(Newest(flows, keep)) + i]
        <5>1. flows \in Seq(1..stored') /\ keep \in Nat \ {0}
          BY <1>2, <1>3
        <5> DEFINE S == 1..stored'
        <5>2. flows \in Seq(S)
          BY <5>1
        <5> HIDE DEF S
        <5>3. /\ Newest(flows, keep) \in Seq(S)
              /\ Len(Newest(flows, keep)) = IF keep >= Len(flows) THEN Len(flows) ELSE keep
              /\ \A i \in 1..Len(Newest(flows, keep)) :
                   Newest(flows, keep)[i] = flows[Len(flows) - Len(Newest(flows, keep)) + i]
          BY <5>1, <5>2, NewestIsSuffix
        <5> QED
          BY <5>3 DEF S
      <4> QED
        BY <2>3, <4>1
    <3>2. Len(flows) \in Nat /\ Len(view') \in Nat /\ Len(view') <= Len(flows)
      BY <1>2, <1>3, <3>1
    <3>3. \A i \in 1..Len(view') : Len(flows) - Len(view') + i \in 1..Len(flows)
      BY <3>2
    <3>4. stored' \in Nat
      BY <1>1, <1>2
    <3>5. \A i \in 1..Len(view') : view'[i] = stored' - Len(view') + i
      BY <1>3, <3>1, <3>2, <3>3, <3>4
    <3>6. Len(view') <= keep' + counter' + uncounted'
      BY <1>1, <1>2, <2>1, <2>3, <3>1, <3>2
    <3>7. missed' \in 0..faults' /\ faults' \in 0..MaxFaults
      BY <1>2, <2>3
    <3> QED
      BY <1>1, <1>2, <1>4, <2>2, <2>3, <2>u, <3>1, <3>5, <3>6, <3>7, FromView
  <2>4. CASE Fault /\ view' = <<>> /\ missed' = 0 /\ uncounted' = 0
    <3>1. faults' \in 0..MaxFaults /\ missed' \in 0..faults'
      BY <1>2, <2>4 DEF Fault
    <3>2. view' \in Seq(1..stored') /\ Len(view') = 0
      BY <2>4
    <3>3. Len(view') <= keep' + counter' + uncounted'
      BY <1>1, <1>2, <2>1, <2>4, <3>2
    <3>4. \A i \in 1..Len(view') : view'[i] = stored' - Len(view') + i
      BY <3>2
    <3> QED
      BY <1>1, <1>2, <1>4, <2>2, <2>4, <2>u, <3>1, <3>2, <3>3, <3>4, FromView
  <2>5. CASE Fault /\ view' = flows /\ missed' = missed + 1 /\ UNCHANGED uncounted
    <3>1. faults' \in 0..MaxFaults /\ missed' \in 0..faults' /\ missed' # 0
      BY <1>2, <2>5 DEF Fault
    <3> QED
      BY <1>1, <1>2, <1>3, <1>4, <2>2, <2>5, <2>u, <3>1, FromView
  <2> QED
    BY <2>1, <2>3, <2>4, <2>5 DEF TrimHistory
<1> QED
  BY <1>5, <1>6

(* Storing a flow whose handler raises.                                    *)
LEMMA UncountedStep ==
  ASSUME IInv, ProxyUncounted
  PROVE  IInv'
<1> DEFINE flows == Append(view, stored + 1)
<1>1. /\ phase' = phase /\ phase # "down" /\ interval' = interval /\ keep' = keep
      /\ stored' = stored + 1 /\ stored < MaxStored /\ view' = flows
      /\ uncounted' = uncounted + 1 /\ counter' = counter
      /\ missed' = missed /\ faults' = faults
  BY DEF ProxyUncounted
<1>2. /\ phase \in {"down", "loaded", "running"}
      /\ interval \in Nat \ {0} /\ keep \in Nat \ {0} /\ counter \in 0..interval - 1
      /\ stored \in 0..MaxStored /\ faults \in 0..MaxFaults /\ missed \in 0..faults
      /\ uncounted \in 0..stored /\ Len(view) \in Nat
      /\ missed = 0 => Len(view) <= keep + counter + uncounted
  BY DEF IInv, TypeOK, HistoryBounded
<1>3. /\ flows \in Seq(1..stored + 1) /\ Len(flows) = Len(view) + 1
      /\ \A i \in 1..Len(flows) : flows[i] = stored + 1 - Len(flows) + i
  <2>1. flows = Append(view, stored + 1)
    OBVIOUS
  <2> HIDE DEF flows
  <2> QED
    BY <2>1, OneMore
<1> HIDE DEF flows
<1>4. /\ view' \in Seq(1..stored') /\ Len(view') = Len(view) + 1
      /\ \A i \in 1..Len(view') : view'[i] = stored' - Len(view') + i
  <2>1. stored' = stored + 1 /\ stored \in Nat
    BY <1>1, <1>2
  <2>2. /\ flows \in Seq(1..stored') /\ Len(flows) = Len(view) + 1
        /\ \A i \in 1..Len(flows) : flows[i] = stored' - Len(flows) + i
    BY <1>3, <2>1
  <2>3. view' = flows
    BY <1>1
  <2> QED
    BY <2>2, <2>3
<1>5. stored' \in 0..MaxStored /\ uncounted' \in 0..stored'
  BY <1>1, <1>2
<1>6. missed' = 0 => Len(view') <= keep' + counter' + uncounted'
  BY <1>1, <1>2, <1>4
<1> QED
  BY <1>1, <1>2, <1>4, <1>5, <1>6, FromView

LEMMA StepInv == IInv /\ [Next]_vars => IInv'
<1> SUFFICES ASSUME IInv, [Next]_vars PROVE IInv'
  OBVIOUS
<1>1. /\ phase \in {"down", "loaded", "running"}
      /\ interval \in Nat \ {0} /\ keep \in Nat \ {0} /\ counter \in 0..interval - 1
      /\ stored \in 0..MaxStored /\ faults \in 0..MaxFaults /\ missed \in 0..faults
      /\ view \in Seq(1..stored) /\ uncounted \in 0..stored
      /\ missed = 0 => Len(view) <= keep + counter + uncounted
      /\ phase = "down" => view = <<>>
  BY DEF IInv, TypeOK, HistoryBounded
<1>2. \A i \in 1..Len(view) : view[i] = stored - Len(view) + i
  BY <1>1 DEF IInv, NewestKept
<1>3. CASE Load
  <2>1. /\ phase' = "loaded" /\ interval' \in Nat \ {0} /\ keep' \in Nat \ {0}
        /\ counter' = 0 /\ view' = view /\ stored' = stored
        /\ uncounted' = uncounted /\ missed' = missed /\ faults' = faults
    BY <1>3 DEF Load, IsPositive
  <2>2. view = <<>> /\ Len(view) = 0
    BY <1>1, <1>3 DEF Load
  <2>3. counter' \in 0..interval' - 1
    <3>1. interval' \in Nat \ {0} /\ counter' = 0
      BY <2>1
    <3>2. ASSUME NEW i \in Nat \ {0}, NEW n, n = 0 PROVE n \in 0..i - 1
      BY <3>2
    <3> QED
      BY <3>1, <3>2
  <2>4. Len(view') <= keep' + counter' + uncounted'
    <3>1. /\ keep' \in Int /\ 1 <= keep' /\ counter' \in Int /\ 0 <= counter'
          /\ uncounted' \in Int /\ 0 <= uncounted'
      BY <1>1, <2>1
    <3>2. Len(view') \in Int /\ Len(view') < 1
      BY <2>1, <2>2
    <3> QED
      BY <3>1, <3>2
  <2> QED
    BY <1>1, <1>2, <2>1, <2>3, <2>4, FromView
<1>4. CASE Running
  BY <1>1, <1>2, <1>4, FromView DEF Running
<1>5. CASE ProxyRequest
  BY <1>5, RequestStep
<1>8. CASE ProxyUncounted
  BY <1>8, UncountedStep
<1>6. CASE Exit
  <2>1. /\ phase' = "down" /\ view' = <<>> /\ counter' = 0 /\ stored' = 0 /\ missed' = 0
        /\ uncounted' = 0 /\ interval' = interval /\ keep' = keep /\ faults' = faults
    BY <1>6 DEF Exit
  <2>2. view' \in Seq(1..stored') /\ Len(view') = 0
    BY <2>1
  <2>3. /\ counter' \in 0..interval' - 1 /\ stored' \in 0..MaxStored
        /\ uncounted' \in 0..stored'
        /\ missed' \in 0..faults' /\ Len(view') <= keep' + counter' + uncounted'
    BY <1>1, <2>1, <2>2
  <2> QED
    BY <1>1, <2>1, <2>2, <2>3, FromView
<1>7. CASE UNCHANGED vars
  BY <1>1, <1>2, <1>7, FromView DEF vars
<1> QED
  BY <1>3, <1>4, <1>5, <1>6, <1>7, <1>8 DEF Next

(* The strengthening holds in every reachable state.                       *)
THEOREM Inductive == Spec => []IInv
  BY InitInv, StepInv, PTL DEF Spec

(* Counter, settings and view stay in range (the addon's fields).          *)
THEOREM TypeCorrect == Spec => []TypeOK
  BY Inductive, PTL DEF IInv

(* For every interval and size the stored flows are bounded by what is     *)
(* kept, counted and raised, unless the last trim failed                   *)
(* (clear_mitmproxy_flow_history).                                         *)
THEOREM Bounded == Spec => []HistoryBounded
  BY Inductive, PTL DEF IInv

(* Trims keep the newest flows in order (trim_mitmproxy_view_flow_history).*)
THEOREM Newer == Spec => []NewestKept
  BY Inductive, PTL DEF IInv
(* No trim that succeeds drops more than it must, for every interval and   *)
(* size (trim_mitmproxy_view_flow_history).                                *)
THEOREM KeepsEnough == Spec => TrimKeepsEnough
<1>1. ASSUME IInv, [Next]_vars
      PROVE  [phase' # "down" /\ UNCHANGED faults /\ Len(view') # Len(view) + 1
                /\ stored' > stored => Len(view') = keep]_vars
  <2>1. SUFFICES ASSUME Next, faults' = faults, Len(view') # Len(view) + 1,
                        stored' > stored
                 PROVE  Len(view') = keep
    BY <1>1
  <2>2. stored \in Nat /\ faults \in Nat /\ keep \in Nat \ {0}
    BY <1>1 DEF IInv, TypeOK
  <2>3. ProxyRequest
    <3>1. CASE Load
      BY <2>1, <2>2, <3>1 DEF Load
    <3>2. CASE Running
      BY <2>1, <2>2, <3>2 DEF Running
    <3>3. CASE Exit
      BY <2>1, <2>2, <3>3 DEF Exit
    <3>4. CASE ProxyUncounted
      <4>1. view' = Append(view, stored + 1) /\ view \in Seq(1..stored)
        BY <1>1, <3>4 DEF ProxyUncounted, IInv, TypeOK
      <4>2. Len(view') = Len(view) + 1
        BY <4>1
      <4> QED
        BY <2>1, <4>2
    <3> QED
      BY <2>1, <3>1, <3>2, <3>3, <3>4 DEF Next
  <2> DEFINE flows == Append(view, stored + 1)
  <2>4. flows \in Seq(1..stored + 1) /\ Len(flows) = Len(view) + 1
    <3>1. flows = Append(view, stored + 1)
      OBVIOUS
    <3> HIDE DEF flows
    <3> QED
      BY <1>1, <3>1, OneMore
  <2>5. RecordRequest(flows)
    BY <2>3 DEF ProxyRequest
  <2> HIDE DEF flows
  <2>6. view' # flows
    BY <2>1, <2>4
  <2>7. faults' # faults + 1
    BY <2>1, <2>2
  <2>8. view' = Newest(flows, keep)
    BY <2>5, <2>6, <2>7 DEF RecordRequest, TrimHistory, Fault
  <2>9. ~(keep >= Len(flows))
    BY <2>6, <2>8 DEF Newest
  <2>10. Len(Newest(flows, keep)) = IF keep >= Len(flows) THEN Len(flows) ELSE keep
    <3> DEFINE S == 1..stored + 1
    <3>1. flows \in Seq(S)
      BY <2>4
    <3> HIDE DEF S
    <3> QED
      BY <2>2, <3>1, NewestIsSuffix
  <2> QED
    BY <2>8, <2>9, <2>10
<1> QED
  BY <1>1, Inductive, PTL DEF Spec, TrimKeepsEnough
=============================================================================
