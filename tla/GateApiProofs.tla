--------------------------- MODULE GateApiProofs ---------------------------
(***************************************************************************)
(* Proofs about GateApi: the gate under any caller, any costs and limits.  *)
(***************************************************************************)
EXTENDS GateApi, TLAPS

(***************************************************************************)
(* Every attribute of the gate keeps its type under any sequence of calls. *)
(***************************************************************************)
THEOREM TypeCorrect == Spec => []GateTypeOK
<1>1. Init => GateTypeOK
  <2> SUFFICES ASSUME Init PROVE GateTypeOK
    OBVIOUS
  <2>1. budgetAlertFired \in BOOLEAN /\ safeModeActive \in BOOLEAN /\ flowEnabled \in BOOLEAN
    BY Zenon DEF Init, GateInit
  <2>2. elapsed \in [Key -> 0..DebounceSeconds] /\ dailyCounts \in [Module -> Nat] /\ dailyCost = 0
    BY GateAssumption DEF Init, GateInit
  <2> QED
    BY <2>1, <2>2 DEF GateTypeOK
<1>2. GateTypeOK /\ [Next]_gateVars => GateTypeOK'
  <2> SUFFICES ASSUME GateTypeOK, [Next]_gateVars PROVE GateTypeOK'
    OBVIOUS
  <2> USE DEF GateTypeOK
  <2>1. ASSUME NEW k \in Key, Ask(k) PROVE GateTypeOK'
    <3>1. elapsed' \in [Key -> 0..DebounceSeconds]
      BY <2>1, GateAssumption DEF Ask, ShouldProcess, StampDebounce
    <3> QED
      BY <2>1, <3>1 DEF Ask, ShouldProcess
  <2>2. ASSUME NEW m \in Module, NEW c \in Costs, Record(m, c) PROVE GateTypeOK'
    <3>1. dailyCounts' \in [Module -> Nat] /\ dailyCost' \in Nat
      BY <2>2, ApiAssumption DEF Record, RecordExecution
    <3>2. budgetAlertFired' \in BOOLEAN
      BY <2>2, Zenon DEF Record, RecordExecution
    <3> QED
      BY <2>2, <3>1, <3>2 DEF Record, RecordExecution
  <2>3. ASSUME NEW active \in BOOLEAN, SetSafeMode(active) PROVE GateTypeOK'
    BY <2>3 DEF SetSafeMode
  <2>4. ASSUME ResetDailyCounters PROVE GateTypeOK'
    <3>1. budgetAlertFired' \in BOOLEAN
      BY <2>4, Zenon DEF ResetDailyCounters
    <3>2. dailyCounts' \in [Module -> Nat] /\ dailyCost' \in Nat
      BY <2>4 DEF ResetDailyCounters
    <3>3. elapsed' \in [Key -> 0..DebounceSeconds]
      BY <2>4, GateAssumption DEF ResetDailyCounters
    <3> QED
      BY <2>4, <3>1, <3>2, <3>3 DEF ResetDailyCounters
  <2>5. ASSUME GateTick PROVE GateTypeOK'
    BY <2>5, GateAssumption DEF GateTick, Older
  <2>6. CASE UNCHANGED gateVars
    BY <2>6 DEF gateVars
  <2> QED
    BY <2>1, <2>2, <2>3, <2>4, <2>5, <2>6 DEF Next
<1> QED
  BY <1>1, <1>2, PTL DEF Spec

(***************************************************************************)
(* The alert is marked as fired exactly while the recorded cost is at the  *)
(* threshold: costs never go down except to 0, where the mark is cleared,  *)
(* and the threshold is above 0.                                           *)
(***************************************************************************)
THEOREM AlertTheorem == Spec => []AlertTracksSpend
<1>1. Init => AlertTracksSpend
  BY GateAssumption DEF Init, GateInit, AlertTracksSpend
<1>2. GateTypeOK /\ AlertTracksSpend /\ [Next]_gateVars => AlertTracksSpend'
  <2> SUFFICES ASSUME GateTypeOK, AlertTracksSpend, [Next]_gateVars PROVE AlertTracksSpend'
    OBVIOUS
  <2> USE GateAssumption DEF GateTypeOK, AlertTracksSpend
  <2>1. ASSUME NEW k \in Key, Ask(k) PROVE AlertTracksSpend'
    BY <2>1 DEF Ask, ShouldProcess
  <2>2. ASSUME NEW m \in Module, NEW c \in Costs, Record(m, c) PROVE AlertTracksSpend'
    <3>1. dailyCost' = dailyCost + c /\ c \in Nat
      BY <2>2, ApiAssumption DEF Record, RecordExecution
    <3>2. budgetAlertFired' <=> budgetAlertFired \/ dailyCost' >= AlertThreshold
      BY <2>2, Zenon DEF Record, RecordExecution
    <3> QED
      BY <3>1, <3>2
  <2>3. ASSUME NEW active \in BOOLEAN, SetSafeMode(active) PROVE AlertTracksSpend'
    BY <2>3 DEF SetSafeMode
  <2>4. ASSUME ResetDailyCounters PROVE AlertTracksSpend'
    BY <2>4 DEF ResetDailyCounters
  <2>5. ASSUME GateTick PROVE AlertTracksSpend'
    BY <2>5 DEF GateTick
  <2>6. CASE UNCHANGED gateVars
    BY <2>6 DEF gateVars
  <2> QED
    BY <2>1, <2>2, <2>3, <2>4, <2>5, <2>6 DEF Next
<1> QED
  BY <1>1, <1>2, TypeCorrect, PTL DEF Spec

(***************************************************************************)
(* A window closes on time for every length of it and under any sequence   *)
(* of calls: only an event that meets no open window opens one.            *)
(***************************************************************************)
THEOREM WindowTheorem == Spec => WindowClosesOnTime
<1> DEFINE OnTime(k) ==
             elapsed[k] < DebounceSeconds =>
                 \/ elapsed'[k] = elapsed[k] + (IF GateTick THEN 1 ELSE 0)
                 \/ ResetDailyCounters
<1>1. GateTypeOK /\ [Next]_gateVars => \A k \in Key : OnTime(k)
  <2> SUFFICES ASSUME GateTypeOK, [Next]_gateVars, NEW k \in Key, elapsed[k] < DebounceSeconds
               PROVE  \/ elapsed'[k] = elapsed[k] + (IF GateTick THEN 1 ELSE 0)
                      \/ ResetDailyCounters
    OBVIOUS
  <2>1. elapsed[k] \in Nat /\ elapsed \in [Key -> 0..DebounceSeconds]
    BY GateAssumption DEF GateTypeOK
  <2>2. GateTick => elapsed'[k] = elapsed[k] + 1
    BY <2>1, GateAssumption DEF GateTick, Older
  <2>3. CASE elapsed'[k] = elapsed[k]
    BY <2>1, <2>2, <2>3
  <2>4. ASSUME NEW j \in Key, Ask(j) PROVE elapsed'[k] = elapsed[k]
    BY <2>1, <2>4, GateAssumption DEF Ask, ShouldProcess, StampDebounce, CheckDebounce
  <2>5. ASSUME NEW m \in Module, NEW c \in Costs, Record(m, c) PROVE elapsed'[k] = elapsed[k]
    BY <2>5 DEF Record, RecordExecution
  <2>6. ASSUME NEW active \in BOOLEAN, SetSafeMode(active) PROVE elapsed'[k] = elapsed[k]
    BY <2>6 DEF SetSafeMode
  <2>7. CASE UNCHANGED gateVars
    BY <2>3, <2>7 DEF gateVars
  <2> QED
    BY <2>1, <2>2, <2>3, <2>4, <2>5, <2>6, <2>7 DEF Next
<1> QED
  BY <1>1, TypeCorrect, PTL DEF Spec, WindowClosesOnTime
=============================================================================
