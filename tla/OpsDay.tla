------------------------------- MODULE OpsDay -------------------------------
(***************************************************************************)
(* One calendar day of OpsService, with the accounts the documentation     *)
(* says the gate keeps: what the crews have really spent and how many of   *)
(* their executions were recorded, whatever the process remembers of it.   *)
(***************************************************************************)
EXTENDS OpsService

CONSTANTS
    CrewCost,     \* what the model calls of one crew run cost
    SpendBound,   \* spending is counted no further than this
    RestartBound  \* how often the process is replaced on that day

VARIABLES
    spentToday,     \* what the crews have cost, up to SpendBound
    recordedToday,  \* executions recorded of each module, by any process
    restarts        \* how often the process has been replaced

dayVars == <<vars, spentToday, recordedToday, restarts>>

DayInit ==
    /\ Init
    /\ spentToday = 0
    /\ recordedToday = [m \in Module |-> 0]
    /\ restarts = 0

\* Every step of the service but a restart.
WithinLifetime == (\E s \in Slot : SlotStep(s)) \/ SwitchSafeMode \/ Tick

NewLifetime == restarts < RestartBound /\ \E enabled \in BOOLEAN : Restart(enabled)

\* record_execution has been called for a module in this step.
Recorded(m) == dailyCounts'[m] > dailyCounts[m]

DayNext ==
    /\ \/ WithinLifetime /\ UNCHANGED restarts
       \/ NewLifetime /\ restarts' = restarts + 1
    /\ spentToday' =
         IF \E s \in Slot : StartsRun(s)
         THEN IF spentToday + CrewCost < SpendBound THEN spentToday + CrewCost ELSE SpendBound
         ELSE spentToday
    /\ recordedToday' =
         [m \in Module |-> recordedToday[m] + (IF Recorded(m) THEN 1 ELSE 0)]

DaySpec == DayInit /\ [][DayNext]_dayVars

(***************************************************************************)
(* docs/runbooks/cost_spike.md: "The system automatically blocks new       *)
(* executions when budget is exceeded" - no crew starts once the crews of  *)
(* the day have cost the daily budget.                                     *)
(***************************************************************************)
BudgetBlocksRuns ==
    [][\A s \in Slot : StartsRun(s) => spentToday < DailyBudget]_dayVars

(***************************************************************************)
(* What max_daily_executions comes to over a whole day, the counters being *)
(* in memory: each process of the day records at most the cap, and there   *)
(* is one process more than there are restarts.                            *)
(***************************************************************************)
DayCapHeld == \A m \in Module : recordedToday[m] <= (restarts + 1) * MaxDaily[m]
=============================================================================
