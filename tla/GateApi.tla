------------------------------ MODULE GateApi ------------------------------
(***************************************************************************)
(* The EventGate class under any caller: its methods in any order, each    *)
(* execution recorded with the cost of its crew.  The classes' own tests   *)
(* call it this way; OpsService and AmpRouter are the callers in the code. *)
(***************************************************************************)
EXTENDS EventGate

CONSTANTS
    Costs,      \* cost_usd values passed to record_execution
    CostBound,  \* no execution is recorded once this much has been spent
    CountBound  \* nor once a module has been counted this often

ASSUME ApiAssumption == Costs \subseteq Nat /\ CostBound \in Nat /\ CountBound \in Nat

Init == GateInit /\ flowEnabled = TRUE

\* A call of should_process, with the answer it gets.
Ask(k) == \E allowed \in BOOLEAN : ShouldProcess(k, allowed)

Admit(k) == ShouldProcess(k, TRUE)

Record(m, c) ==
    /\ dailyCost < CostBound
    /\ dailyCounts[m] < CountBound
    /\ RecordExecution(m, c)

Next ==
    \/ \E k \in Key : Ask(k)
    \/ \E m \in Module, c \in Costs : Record(m, c)
    \/ \E active \in BOOLEAN : SetSafeMode(active)
    \/ ResetDailyCounters
    \/ GateTick

\* Time passes, and a sender that wants an event handled keeps asking.
Fairness == WF_gateVars(GateTick) /\ \A k \in Key : WF_gateVars(Ask(k))

Spec == Init /\ [][Next]_gateVars /\ Fairness

(***************************************************************************)
(* The budget alert is marked as fired exactly while the recorded cost is  *)
(* at or over the alert threshold, over any number of executions and daily *)
(* resets: it is neither missed on the way to the budget nor left marked   *)
(* into a day that has not earned it.                                      *)
(***************************************************************************)
AlertTracksSpend == budgetAlertFired <=> dailyCost >= AlertThreshold

(***************************************************************************)
(* The debounce delays an event and never starves it: a sender that keeps  *)
(* repeating one event is admitted again and again, as long as no other    *)
(* check denies the event for good.                                        *)
(***************************************************************************)
PersistentSenderAdmitted ==
    \A k \in Key : <>[]OtherChecksPass(k) => []<><<Admit(k)>>_gateVars

(***************************************************************************)
(* A debounce window that is open closes by the clock alone, a second at a *)
(* time, or by the daily reset: however often a sender repeats the event   *)
(* meanwhile, and whatever the answer was, no call extends the window.     *)
(***************************************************************************)
WindowClosesOnTime ==
    [][\A k \in Key :
        elapsed[k] < DebounceSeconds =>
            \/ elapsed'[k] = elapsed[k] + (IF GateTick THEN 1 ELSE 0)
            \/ ResetDailyCounters]_gateVars
=============================================================================
