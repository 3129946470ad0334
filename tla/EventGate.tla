----------------------------- MODULE EventGate -----------------------------
(***************************************************************************)
(* The in-memory gate of event_gate.py: one Python object per process that *)
(* decides whether an event may start a crew.  This module holds the       *)
(* gate's state and one operator per method; GateApi, OpsService and       *)
(* AmpRouter compose them with the callers.                                *)
(*                                                                         *)
(* Time.  A debounce stamp is kept as the seconds elapsed since it was     *)
(* made, saturated at DebounceSeconds: the code only asks whether a stamp  *)
(* is younger than that, so a key never seen and a key whose window has    *)
(* passed are the same state, and time may run on for ever.                *)
(***************************************************************************)
EXTENDS Integers

CONSTANTS
    EventType,        \* event_type strings a caller may present
    AllowedEvents,    \* ALLOWED_EVENTS
    Entity,           \* entity_id values, the "_" of an absent one among them
    Module,           \* crew module names
    ModuleOf,         \* EVENT_TO_MODULE
    CriticalModules,  \* safe_mode.critical_only_modules
    MaxDaily,         \* crews.max_daily_executions, 500 where the file is silent
    DebounceSeconds,  \* execution.debounce_seconds
    DailyBudget,      \* cost.daily_llm_budget_usd
    AlertThreshold    \* daily_llm_budget_usd * alert_at_pct

(***************************************************************************)
(* What config/ops_config.yaml guarantees of its numbers.                  *)
(***************************************************************************)
ASSUME GateAssumption ==
    /\ AllowedEvents \subseteq EventType
    /\ ModuleOf \in [EventType -> Module]
    /\ CriticalModules \subseteq Module
    /\ MaxDaily \in [Module -> Nat]
    /\ DebounceSeconds \in Nat \ {0}
    /\ DailyBudget \in Nat
    /\ AlertThreshold \in 1..DailyBudget

VARIABLES
    elapsed,          \* _debounce_cache, as the age of each key's stamp
    dailyCounts,      \* _daily_counts
    dailyCost,        \* _daily_cost_usd
    budgetAlertFired, \* _budget_alert_fired
    safeModeActive,   \* _safe_mode_active
    flowEnabled       \* settings.ops_flow_enabled, read when the process starts

gateVars ==
    <<elapsed, dailyCounts, dailyCost, budgetAlertFired, safeModeActive, flowEnabled>>

\* The debounce cache is keyed by event type and entity.
Key == EventType \X Entity
ModuleOfKey(k) == ModuleOf[k[1]]

GateTypeOK ==
    /\ elapsed \in [Key -> 0..DebounceSeconds]
    /\ dailyCounts \in [Module -> Nat]
    /\ dailyCost \in Nat
    /\ budgetAlertFired \in BOOLEAN
    /\ safeModeActive \in BOOLEAN
    /\ flowEnabled \in BOOLEAN

\* EventGate.__init__: a new process starts with an empty gate.
GateInit ==
    /\ elapsed = [k \in Key |-> DebounceSeconds]
    /\ dailyCounts = [m \in Module |-> 0]
    /\ dailyCost = 0
    /\ budgetAlertFired = FALSE
    /\ safeModeActive = FALSE

-----------------------------------------------------------------------------
(* The five checks of should_process.                                      *)

CheckAllowlist(t) == t \in AllowedEvents
CheckSafeMode(m) == safeModeActive => m \in CriticalModules
CheckDailyBudget == dailyCost < DailyBudget
\* Faulty variant: the limit itself still passes.
RateLimitInclusive(m) == dailyCounts[m] <= MaxDaily[m]
CheckModuleRateLimit(m) == dailyCounts[m] < MaxDaily[m]
CheckDebounce(k) == elapsed[k] >= DebounceSeconds

\* Everything should_process looks at except the debounce cache.
OtherChecksPass(k) ==
    /\ flowEnabled
    /\ CheckAllowlist(k[1])
    /\ CheckSafeMode(ModuleOfKey(k))
    /\ CheckDailyBudget
    /\ CheckModuleRateLimit(ModuleOfKey(k))

GateAdmits(k) == OtherChecksPass(k) /\ CheckDebounce(k)

\* Faulty variant: the cache holds when the window ends, not when it began.
StampWindowEnd(k) ==
    elapsed' = IF flowEnabled /\ CheckDebounce(k)
               THEN [elapsed EXCEPT ![k] = -DebounceSeconds] ELSE elapsed

\* Faulty variant: the cache is read but never written.
StampForgotten(k) == elapsed' = [elapsed EXCEPT ![k] = @]

\* Faulty variant: a sliding window, every denied repeat refreshes the stamp.
StampSliding(k) == elapsed' = [elapsed EXCEPT ![k] = 0]

(***************************************************************************)
(* _check_debounce stamps the key whenever its own test passes.  The list  *)
(* of checks is built before any of them is looked at, so the stamp is     *)
(* made even when an earlier check denies the event; only the kill switch  *)
(* returns before it.  A denied repeat does not refresh the stamp.         *)
(***************************************************************************)
StampDebounce(k) ==
    elapsed' = IF flowEnabled /\ CheckDebounce(k)
               THEN [elapsed EXCEPT ![k] = 0] ELSE elapsed

\* should_process: the answer, and the stamp it leaves behind.
ShouldProcess(k, allowed) ==
    /\ allowed = GateAdmits(k)
    /\ StampDebounce(k)
    /\ UNCHANGED <<dailyCounts, dailyCost, budgetAlertFired, safeModeActive, flowEnabled>>

\* record_execution, with the budget alert that fires once.  It is one step where
\* one event loop runs everything; AmpRouter, whose threads may be interrupted
\* between the read of the count and its store, takes it apart.
RecordExecution(m, costUsd) ==
    /\ dailyCounts' = [dailyCounts EXCEPT ![m] = @ + 1]
    /\ dailyCost' = dailyCost + costUsd
    /\ budgetAlertFired' = (budgetAlertFired \/ dailyCost' >= AlertThreshold)
    /\ UNCHANGED <<elapsed, safeModeActive, flowEnabled>>

SetSafeMode(active) ==
    /\ safeModeActive' = active
    /\ UNCHANGED <<elapsed, dailyCounts, dailyCost, budgetAlertFired, flowEnabled>>

\* Faulty variant: the alert stays marked as fired over midnight.
ResetKeepingAlert ==
    /\ elapsed' = [k \in Key |-> DebounceSeconds]
    /\ dailyCounts' = [m \in Module |-> 0]
    /\ dailyCost' = 0
    /\ UNCHANGED <<budgetAlertFired, safeModeActive, flowEnabled>>

\* reset_daily_counters forgets everything but safe mode.
ResetDailyCounters ==
    /\ elapsed' = [k \in Key |-> DebounceSeconds]
    /\ dailyCounts' = [m \in Module |-> 0]
    /\ dailyCost' = 0
    /\ budgetAlertFired' = FALSE
    /\ UNCHANGED <<safeModeActive, flowEnabled>>

\* A new process: __init__ again, under the settings of its environment.
GateRestart(enabled) ==
    /\ elapsed' = [k \in Key |-> DebounceSeconds]
    /\ dailyCounts' = [m \in Module |-> 0]
    /\ dailyCost' = 0
    /\ budgetAlertFired' = FALSE
    /\ safeModeActive' = FALSE
    /\ flowEnabled' = enabled

\* A second passes: `age` is any map from keys to saturated ages.
Older(age) ==
    [k \in Key |-> IF age[k] < DebounceSeconds THEN age[k] + 1 ELSE DebounceSeconds]

GateTick ==
    /\ elapsed' = Older(elapsed)
    /\ UNCHANGED <<dailyCounts, dailyCost, budgetAlertFired, safeModeActive, flowEnabled>>
=============================================================================
