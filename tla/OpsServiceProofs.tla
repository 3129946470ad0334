-------------------------- MODULE OpsServiceProofs --------------------------
(***************************************************************************)
(* Proofs about OpsService for every set of requests, keys and modules and *)
(* every limit: type correctness, the daily cap, the debounce spacing and  *)
(* safe mode, what the budget comes to, and that the service implements    *)
(* AdmissionControl.  The last part is about OpsDay: a day is a behaviour  *)
(* of the service, and what the daily caps come to when restarts forget    *)
(* their counters.                                                         *)
(***************************************************************************)
EXTENDS OpsDay, TLAPS

-----------------------------------------------------------------------------
(* Facts about the gate's operators.                                       *)

\* The module of a key is a module: EVENT_TO_MODULE is total on event types.
LEMMA ModuleOfKeyType ==
    ASSUME NEW k \in Key PROVE ModuleOfKey(k) \in Module
BY GateAssumption DEF Key, ModuleOfKey

\* The keys events can carry are keys of the debounce cache.
LEMMA EventKeys == (AllowedEvents \X Entity) \subseteq Key
BY GateAssumption DEF Key

\* The digest's key is one of them.
LEMMA DigestKeyType == DigestKey \in Key
BY ServiceAssumption, EventKeys

\* Ageing keeps ages in range.
LEMMA OlderType ==
    ASSUME NEW age \in [Key -> 0..DebounceSeconds]
    PROVE  Older(age) \in [Key -> 0..DebounceSeconds]
BY GateAssumption DEF Older

\* Ageing keeps one age below another.
LEMMA OlderMonotone ==
    ASSUME NEW a \in [Key -> 0..DebounceSeconds],
           NEW b \in [Key -> 0..DebounceSeconds],
           \A k \in Key : a[k] <= b[k]
    PROVE  \A k \in Key : Older(a)[k] <= Older(b)[k]
BY GateAssumption DEF Older

\* should_process leaves a well-typed gate.
LEMMA ShouldProcessType ==
    ASSUME GateTypeOK, NEW k \in Key, NEW allowed \in BOOLEAN, ShouldProcess(k, allowed)
    PROVE  GateTypeOK'
BY GateAssumption DEF GateTypeOK, ShouldProcess, StampDebounce

\* An admitted event was below its module's cap and outside its window, and
\* leaves a fresh stamp; whatever the answer, the counters stay as they are.
LEMMA ShouldProcessEffect ==
    ASSUME GateTypeOK, NEW k \in Key, NEW allowed \in BOOLEAN, ShouldProcess(k, allowed)
    PROVE  /\ dailyCounts' = dailyCounts
           /\ allowed => /\ dailyCounts[ModuleOfKey(k)] < MaxDaily[ModuleOfKey(k)]
                         /\ CheckSafeMode(ModuleOfKey(k))
                         /\ elapsed[k] = DebounceSeconds
                         /\ elapsed'[k] = 0
           /\ \A j \in Key : elapsed'[j] <= elapsed[j]
<1>1. dailyCounts' = dailyCounts
  BY DEF ShouldProcess
<1>2. /\ \A j \in Key : elapsed[j] \in 0..DebounceSeconds
      /\ DebounceSeconds \in Nat
  BY GateAssumption DEF GateTypeOK
<1>3. \A j \in Key : elapsed'[j] <= elapsed[j]
  BY <1>2 DEF ShouldProcess, StampDebounce, GateTypeOK
<1>4. ASSUME allowed
      PROVE  /\ dailyCounts[ModuleOfKey(k)] < MaxDaily[ModuleOfKey(k)]
             /\ CheckSafeMode(ModuleOfKey(k))
             /\ elapsed[k] = DebounceSeconds
             /\ elapsed'[k] = 0
  <2>1. GateAdmits(k)
    BY <1>4 DEF ShouldProcess
  <2>2. elapsed[k] = DebounceSeconds
    BY <1>2, <2>1 DEF GateAdmits, CheckDebounce
  <2>3. elapsed'[k] = 0
    BY <2>1 DEF ShouldProcess, StampDebounce, GateAdmits, OtherChecksPass, GateTypeOK
  <2> QED
    BY <2>1, <2>2, <2>3 DEF GateAdmits, OtherChecksPass, CheckModuleRateLimit
<1> QED
  BY <1>1, <1>3, <1>4

-----------------------------------------------------------------------------
(***************************************************************************)
(* Every variable keeps its type, and a request holds an event exactly     *)
(* while that event is queued or running.                                  *)
(***************************************************************************)
THEOREM TypeCorrect == Spec => []TypeOK
<1>1. Init => TypeOK
  <2> SUFFICES ASSUME Init PROVE TypeOK
    OBVIOUS
  <2>1. GateTypeOK
    <3>1. budgetAlertFired \in BOOLEAN /\ safeModeActive \in BOOLEAN /\ flowEnabled \in BOOLEAN
      BY Zenon DEF Init, GateInit
    <3>2. elapsed \in [Key -> 0..DebounceSeconds]
      BY GateAssumption DEF Init, GateInit
    <3> QED
      BY <3>1, <3>2 DEF Init, GateInit, GateTypeOK
  <2>2. sinceRun \in [Key -> 0..DebounceSeconds]
    BY GateAssumption DEF Init
  <2>3. phase \in [Slot -> {"idle", "queued", "running"}]
    BY DEF Init
  <2>4. job \in [Slot -> Key \cup {NoKey}]
    BY DEF Init
  <2>5. \A s \in Slot : job[s] = NoKey <=> phase[s] = "idle"
    BY DEF Init
  <2> QED
    BY <2>1, <2>2, <2>3, <2>4, <2>5 DEF TypeOK
<1>2. TypeOK /\ [Next]_vars => TypeOK'
  <2> SUFFICES ASSUME TypeOK, [Next]_vars PROVE TypeOK'
    OBVIOUS
  <2> USE DEF TypeOK
  <2>1. ASSUME NEW s \in Slot, NEW k \in AllowedEvents \X Entity, ReceiveEvent(s, k)
        PROVE  TypeOK'
    <3>1. k \in Key
      BY EventKeys
    <3>2. GateTypeOK'
      BY <2>1, <3>1, ShouldProcessType DEF ReceiveEvent
    <3> QED
      BY <2>1, <3>1, <3>2, ServiceAssumption DEF ReceiveEvent, Enqueue
  <2>2. ASSUME NEW s \in Slot, TriggerDigest(s) PROVE TypeOK'
    BY <2>2, DigestKeyType, ServiceAssumption
    DEF TriggerDigest, Enqueue, gateVars, GateTypeOK
  <2>3. ASSUME NEW s \in Slot, StartTask(s) PROVE TypeOK'
    <3>1. job[s] \in Key
      BY <2>3 DEF StartTask
    <3>2. GateTypeOK'
      BY <2>3, <3>1, ShouldProcessType DEF StartTask
    <3>3. sinceRun' \in [Key -> 0..DebounceSeconds]
      <4>1. sinceRun' = sinceRun \/ sinceRun' = [sinceRun EXCEPT ![job[s]] = 0]
        BY <2>3, Zenon DEF StartTask
      <4> QED
        BY <4>1, GateAssumption
    <3>4. /\ phase' \in [Slot -> {"idle", "queued", "running"}]
          /\ job' \in [Slot -> Key \cup {NoKey}]
      BY <2>3 DEF StartTask, Release
    <3>5. \A t \in Slot : job'[t] = NoKey <=> phase'[t] = "idle"
      BY <2>3 DEF StartTask, Release
    <3> QED
      BY <3>2, <3>3, <3>4, <3>5
  <2>4. ASSUME NEW s \in Slot, FinishTask(s) PROVE TypeOK'
    <3>1. ModuleOfKey(job[s]) \in Module
      BY <2>4, ModuleOfKeyType DEF FinishTask
    <3>2. GateTypeOK'
      BY <2>4, <3>1 DEF FinishTask, RecordExecution, GateTypeOK
    <3> QED
      BY <2>4, <3>2 DEF FinishTask, Release
  <2>5. ASSUME NEW s \in Slot, FailTask(s) PROVE TypeOK'
    BY <2>5 DEF FailTask, Release, gateVars, GateTypeOK
  <2>6. ASSUME SwitchSafeMode PROVE TypeOK'
    BY <2>6 DEF SwitchSafeMode, SetSafeMode, GateTypeOK
  <2>7. ASSUME NEW enabled \in BOOLEAN, Restart(enabled) PROVE TypeOK'
    <3>1. GateTypeOK'
      <4>1. /\ budgetAlertFired' \in BOOLEAN
            /\ safeModeActive' \in BOOLEAN
            /\ flowEnabled' \in BOOLEAN
        BY <2>7, Zenon DEF Restart, GateRestart
      <4>2. elapsed' \in [Key -> 0..DebounceSeconds]
        BY <2>7, GateAssumption DEF Restart, GateRestart
      <4> QED
        BY <2>7, <4>1, <4>2 DEF Restart, GateRestart, GateTypeOK
    <3>2. sinceRun' \in [Key -> 0..DebounceSeconds]
      BY <2>7, GateAssumption DEF Restart
    <3> QED
      BY <2>7, <3>1, <3>2 DEF Restart
  <2>8. ASSUME Tick PROVE TypeOK'
    BY <2>8, OlderType DEF Tick, GateTick, GateTypeOK
  <2>9. CASE UNCHANGED vars
    BY <2>9 DEF vars, gateVars, GateTypeOK
  <2> QED
    BY <2>1, <2>2, <2>3, <2>4, <2>5, <2>6, <2>7, <2>8, <2>9 DEF Next, SlotStep
<1> QED
  BY <1>1, <1>2, PTL DEF Spec

-----------------------------------------------------------------------------
(***************************************************************************)
(* The gate's checks hold to the end of the run they admitted: one task    *)
(* runs at a time, there is room for its execution under the cap, and no   *)
(* key ran more recently than its stamp says.                              *)
(***************************************************************************)
THEOREM GateChecksInvariant == Spec => []GateChecksHold
<1>1. Init => GateChecksHold
  <2> SUFFICES ASSUME Init PROVE GateChecksHold
    OBVIOUS
  <2>1. OneRunner /\ RoomWhileRunning
    BY DEF Init, OneRunner, RoomWhileRunning
  <2>2. DailyCapHeld
    BY GateAssumption DEF Init, GateInit, DailyCapHeld
  <2>3. StampCoversRun
    BY GateAssumption DEF Init, GateInit, StampCoversRun
  <2> QED
    BY <2>1, <2>2, <2>3 DEF GateChecksHold
<1>2. TypeOK /\ GateChecksHold /\ [Next]_vars => GateChecksHold'
  <2> SUFFICES ASSUME TypeOK, GateChecksHold, [Next]_vars PROVE GateChecksHold'
    OBVIOUS
  <2>a. OneRunner /\ RoomWhileRunning /\ DailyCapHeld /\ StampCoversRun
    BY DEF GateChecksHold
  <2>b. /\ GateTypeOK
        /\ phase \in [Slot -> {"idle", "queued", "running"}]
        /\ job \in [Slot -> Key \cup {NoKey}]
        /\ \A s \in Slot : phase[s] # "idle" => job[s] \in Key
        /\ sinceRun \in [Key -> 0..DebounceSeconds]
    BY DEF TypeOK
  <2>c. /\ elapsed \in [Key -> 0..DebounceSeconds]
        /\ dailyCounts \in [Module -> Nat]
    BY <2>b DEF GateTypeOK
  <2>1. ASSUME NEW s \in Slot, NEW k \in AllowedEvents \X Entity, ReceiveEvent(s, k)
        PROVE  GateChecksHold'
    <3>1. PICK allowed \in BOOLEAN : ShouldProcess(k, allowed)
      BY <2>1, Zenon DEF ReceiveEvent
    <3>2. dailyCounts' = dailyCounts /\ \A j \in Key : elapsed'[j] <= elapsed[j]
      BY <2>b, <3>1, EventKeys, ShouldProcessEffect
    <3>3. \A t \in Slot : phase'[t] # "running"
      BY <2>1, <2>b DEF ReceiveEvent, LoopFree, Enqueue
    <3>4. \A j \in Key : elapsed'[j] \in 0..DebounceSeconds
      BY <2>b, <3>1, EventKeys, ShouldProcessType DEF GateTypeOK
    <3>5. DailyCapHeld'
      BY <2>a, <3>2 DEF DailyCapHeld
    <3>6. StampCoversRun'
      BY <2>1, <2>a, <2>b, <2>c, <3>2, <3>4 DEF ReceiveEvent, StampCoversRun
    <3> QED
      BY <3>3, <3>5, <3>6 DEF GateChecksHold, OneRunner, RoomWhileRunning
  <2>2. ASSUME NEW s \in Slot, TriggerDigest(s) PROVE GateChecksHold'
    <3>1. \A t \in Slot : phase'[t] # "running"
      BY <2>2, <2>b DEF TriggerDigest, LoopFree, Enqueue
    <3> QED
      BY <2>2, <2>a, <3>1
      DEF TriggerDigest, gateVars, GateChecksHold, OneRunner, RoomWhileRunning,
          DailyCapHeld, StampCoversRun
  <2>3. ASSUME NEW s \in Slot, StartTask(s) PROVE GateChecksHold'
    <3>1. /\ job[s] \in Key
          /\ \A t \in Slot : phase[t] # "running"
      BY <2>3, <2>b DEF StartTask, LoopFree
    <3>2. CASE /\ ShouldProcess(job[s], TRUE)
               /\ phase' = [phase EXCEPT ![s] = "running"]
               /\ sinceRun' = [sinceRun EXCEPT ![job[s]] = 0]
               /\ UNCHANGED job
      <4>1. /\ dailyCounts' = dailyCounts
            /\ dailyCounts[ModuleOfKey(job[s])] < MaxDaily[ModuleOfKey(job[s])]
            /\ elapsed'[job[s]] = 0
            /\ \A j \in Key : elapsed'[j] <= elapsed[j]
        BY <2>b, <3>1, <3>2, ShouldProcessEffect
      <4>2. \A j \in Key : elapsed'[j] \in 0..DebounceSeconds
        BY <2>b, <3>1, <3>2, ShouldProcessType DEF GateTypeOK
      <4>3. \A t \in Slot : phase'[t] = "running" => t = s
        BY <2>b, <3>1, <3>2
      <4>4. OneRunner'
        BY <4>3 DEF OneRunner
      <4>5. RoomWhileRunning'
        BY <3>2, <4>1, <4>3 DEF RoomWhileRunning
      <4>6. DailyCapHeld'
        BY <2>a, <4>1 DEF DailyCapHeld
      <4>7. StampCoversRun'
        <5> SUFFICES ASSUME NEW j \in Key PROVE elapsed'[j] <= sinceRun'[j]
          BY DEF StampCoversRun
        <5>1. CASE j = job[s]
          BY <2>b, <3>2, <4>1, <5>1
        <5>2. CASE j # job[s]
          BY <2>a, <2>b, <2>c, <3>2, <4>1, <4>2, <5>2 DEF StampCoversRun
        <5> QED
          BY <5>1, <5>2
      <4> QED
        BY <4>4, <4>5, <4>6, <4>7 DEF GateChecksHold
    <3>3. CASE /\ ShouldProcess(job[s], FALSE)
               /\ Release(s)
               /\ UNCHANGED sinceRun
      <4>1. dailyCounts' = dailyCounts /\ \A j \in Key : elapsed'[j] <= elapsed[j]
        BY <2>b, <3>1, <3>3, ShouldProcessEffect
      <4>2. \A j \in Key : elapsed'[j] \in 0..DebounceSeconds
        BY <2>b, <3>1, <3>3, ShouldProcessType DEF GateTypeOK
      <4>3. \A t \in Slot : phase'[t] # "running"
        BY <2>b, <3>1, <3>3 DEF Release
      <4>4. StampCoversRun'
        BY <2>a, <2>b, <2>c, <3>3, <4>1, <4>2 DEF StampCoversRun
      <4> QED
        BY <2>a, <4>1, <4>3, <4>4
        DEF GateChecksHold, OneRunner, RoomWhileRunning, DailyCapHeld
    <3> QED
      BY <2>3, <3>2, <3>3, Zenon DEF StartTask
  <2>4. ASSUME NEW s \in Slot, FinishTask(s) PROVE GateChecksHold'
    <3> DEFINE m == ModuleOfKey(job[s])
    <3>1. job[s] \in Key /\ m \in Module
      BY <2>4, <2>b, ModuleOfKeyType DEF FinishTask
    <3>2. \A t \in Slot : phase'[t] # "running"
      BY <2>4, <2>a, <2>b DEF FinishTask, Release, OneRunner
    <3>3. dailyCounts[m] < MaxDaily[m]
      BY <2>4, <2>a DEF FinishTask, RoomWhileRunning
    <3>4. DailyCapHeld'
      BY <2>4, <2>a, <2>c, <3>1, <3>3, GateAssumption
      DEF FinishTask, RecordExecution, DailyCapHeld
    <3>5. StampCoversRun'
      BY <2>4, <2>a DEF FinishTask, RecordExecution, StampCoversRun
    <3> QED
      BY <3>2, <3>4, <3>5 DEF GateChecksHold, OneRunner, RoomWhileRunning
  <2>5. ASSUME NEW s \in Slot, FailTask(s) PROVE GateChecksHold'
    <3>1. \A t \in Slot : phase'[t] # "running"
      BY <2>5, <2>a, <2>b DEF FailTask, Release, OneRunner
    <3> QED
      BY <2>5, <2>a, <3>1
      DEF FailTask, gateVars, GateChecksHold, OneRunner, RoomWhileRunning,
          DailyCapHeld, StampCoversRun
  <2>6. ASSUME SwitchSafeMode PROVE GateChecksHold'
    BY <2>6, <2>a
    DEF SwitchSafeMode, SetSafeMode, GateChecksHold, OneRunner, RoomWhileRunning,
        DailyCapHeld, StampCoversRun
  <2>7. ASSUME NEW enabled \in BOOLEAN, Restart(enabled) PROVE GateChecksHold'
    <3>1. OneRunner' /\ RoomWhileRunning'
      BY <2>7 DEF Restart, OneRunner, RoomWhileRunning
    <3>2. DailyCapHeld'
      BY <2>7, GateAssumption DEF Restart, GateRestart, DailyCapHeld
    <3>3. StampCoversRun'
      BY <2>7, GateAssumption DEF Restart, GateRestart, StampCoversRun
    <3> QED
      BY <3>1, <3>2, <3>3 DEF GateChecksHold
  <2>8. ASSUME Tick PROVE GateChecksHold'
    <3>1. StampCoversRun'
      BY <2>8, <2>a, <2>b, <2>c, OlderMonotone DEF Tick, GateTick, StampCoversRun
    <3> QED
      BY <2>8, <2>a, <3>1
      DEF Tick, GateTick, GateChecksHold, OneRunner, RoomWhileRunning, DailyCapHeld
  <2>9. CASE UNCHANGED vars
    BY <2>9, <2>a
    DEF vars, gateVars, GateChecksHold, OneRunner, RoomWhileRunning, DailyCapHeld,
        StampCoversRun
  <2> QED
    BY <2>1, <2>2, <2>3, <2>4, <2>5, <2>6, <2>7, <2>8, <2>9 DEF Next, SlotStep
<1> QED
  BY <1>1, <1>2, TypeCorrect, PTL DEF Spec

(***************************************************************************)
(* No module's recorded executions exceed its daily cap in the lifetime of *)
(* a process.                                                              *)
(***************************************************************************)
THEOREM CapTheorem == Spec => []DailyCapHeld
<1>1. GateChecksHold => DailyCapHeld
  BY DEF GateChecksHold
<1> QED
  BY <1>1, GateChecksInvariant, PTL

-----------------------------------------------------------------------------
\* Only an admitted StartTask starts a run, and it is outside its window.
LEMMA StartIsAdmitted ==
    ASSUME TypeOK, GateChecksHold, [Next]_vars, NEW s \in Slot, StartsRun(s)
    PROVE  /\ ShouldProcess(job[s], TRUE)
           /\ job[s] \in Key
           /\ sinceRun[job[s]] = DebounceSeconds
           /\ safeModeActive => ModuleOfKey(job[s]) \in CriticalModules
<1>1. /\ phase \in [Slot -> {"idle", "queued", "running"}]
      /\ job[s] \in Key
      /\ sinceRun[job[s]] \in 0..DebounceSeconds
      /\ GateTypeOK
  BY DEF TypeOK, StartsRun
<1>2. StartTask(s)
  BY <1>1 DEF Next, SlotStep, vars, StartsRun, ReceiveEvent, TriggerDigest, StartTask,
              FinishTask, FailTask, SwitchSafeMode, Restart, Tick, Enqueue, Release
<1>3. ShouldProcess(job[s], TRUE)
  BY <1>1, <1>2 DEF StartTask, StartsRun, Release
<1>4. elapsed[job[s]] = DebounceSeconds /\ CheckSafeMode(ModuleOfKey(job[s]))
  BY <1>1, <1>3, ShouldProcessEffect
<1>5. elapsed[job[s]] <= sinceRun[job[s]]
  BY <1>1 DEF GateChecksHold, StampCoversRun
<1>6. sinceRun[job[s]] = DebounceSeconds
  BY <1>1, <1>4, <1>5, GateAssumption
<1>7. safeModeActive => ModuleOfKey(job[s]) \in CriticalModules
  BY <1>4, Zenon DEF CheckSafeMode
<1> QED
  BY <1>1, <1>3, <1>6, <1>7

(***************************************************************************)
(* Crew runs of one event type and entity are spaced by debounce_seconds.  *)
(***************************************************************************)
THEOREM SpacingTheorem == Spec => RunsSpaced
<1>1. TypeOK /\ GateChecksHold /\ [Next]_vars
      => [\A s \in Slot : StartsRun(s) => sinceRun[job[s]] = DebounceSeconds]_vars
  BY StartIsAdmitted
<1> QED
  BY <1>1, TypeCorrect, GateChecksInvariant, PTL DEF Spec, RunsSpaced

(***************************************************************************)
(* No non-critical crew starts in safe mode.                               *)
(***************************************************************************)
THEOREM SafeModeTheorem == Spec => SafeModeRespected
<1>1. TypeOK /\ GateChecksHold /\ [Next]_vars
      => [\A s \in Slot : StartsRun(s) /\ safeModeActive
            => ModuleOfKey(job[s]) \in CriticalModules]_vars
  BY StartIsAdmitted
<1> QED
  BY <1>1, TypeCorrect, GateChecksInvariant, PTL DEF Spec, SafeModeRespected

-----------------------------------------------------------------------------
\* The budget as the service keeps it: _process_event records every
\* execution without its cost.
NothingSpent == dailyCost = 0 /\ ~budgetAlertFired

(***************************************************************************)
(* The budget check is idle: whatever the budget and its threshold are,    *)
(* and however many crews have run, it passes every event, and the alert   *)
(* is never raised.                                                        *)
(***************************************************************************)
THEOREM BudgetIdleTheorem == Spec => [](CheckDailyBudget /\ ~budgetAlertFired)
<1>1. Init => NothingSpent
  BY DEF Init, GateInit, NothingSpent
<1>2. NothingSpent /\ [Next]_vars => NothingSpent'
  <2> SUFFICES ASSUME NothingSpent, [Next]_vars PROVE NothingSpent'
    OBVIOUS
  <2>1. ASSUME NEW s \in Slot, FinishTask(s) PROVE NothingSpent'
    <3>1. dailyCost' = 0
      BY <2>1 DEF FinishTask, RecordExecution, NothingSpent
    <3>2. ~(dailyCost' >= AlertThreshold)
      BY <3>1, GateAssumption
    <3>3. budgetAlertFired' = (budgetAlertFired \/ dailyCost' >= AlertThreshold)
      BY <2>1, Zenon DEF FinishTask, RecordExecution
    <3>4. ~budgetAlertFired'
      BY <3>2, <3>3, Zenon DEF NothingSpent
    <3> QED
      BY <3>1, <3>4 DEF NothingSpent
  <2>2. ASSUME NEW enabled \in BOOLEAN, Restart(enabled) PROVE NothingSpent'
    BY <2>2 DEF Restart, GateRestart, NothingSpent
  <2>3. ASSUME UNCHANGED <<dailyCost, budgetAlertFired>> PROVE NothingSpent'
    BY <2>3 DEF NothingSpent
  <2> QED
    BY <2>1, <2>2, <2>3
    DEF Next, SlotStep, ReceiveEvent, TriggerDigest, StartTask, FailTask, SwitchSafeMode,
        ShouldProcess, SetSafeMode, Tick, GateTick, vars, gateVars
<1>3. NothingSpent => CheckDailyBudget /\ ~budgetAlertFired
  BY GateAssumption DEF NothingSpent, CheckDailyBudget
<1> QED
  BY <1>1, <1>2, <1>3, PTL DEF Spec

-----------------------------------------------------------------------------
(***************************************************************************)
(* OpsService implements AdmissionControl: every step of the service is a  *)
(* step of the abstract admission control, or leaves it as it is.          *)
(***************************************************************************)
THEOREM Refinement == Spec => ImplementsAdmission
<1>1. Init => Admission!Fresh
  BY DEF Init, GateInit, Admission!Fresh, RunOf
<1>2. TypeOK /\ GateChecksHold /\ [Next]_vars => [Admission!Next]_(Admission!acVars)
  <2> SUFFICES ASSUME TypeOK, GateChecksHold, [Next]_vars
               PROVE  Admission!Next \/ UNCHANGED Admission!acVars
    OBVIOUS
  <2>a. /\ GateTypeOK
        /\ phase \in [Slot -> {"idle", "queued", "running"}]
        /\ job \in [Slot -> Key \cup {NoKey}]
        /\ \A s \in Slot : phase[s] # "idle" => job[s] \in Key
        /\ sinceRun \in [Key -> 0..DebounceSeconds]
    BY DEF TypeOK
  <2>1. ASSUME NEW s \in Slot, NEW k \in AllowedEvents \X Entity, ReceiveEvent(s, k)
        PROVE  UNCHANGED Admission!acVars
    <3>1. PICK allowed \in BOOLEAN : ShouldProcess(k, allowed)
      BY <2>1, Zenon DEF ReceiveEvent
    <3>2. dailyCounts' = dailyCounts /\ sinceRun' = sinceRun
      BY <2>1, <3>1 DEF ReceiveEvent, ShouldProcess
    <3>3. RunOf' = RunOf
      BY <2>1, <2>a DEF ReceiveEvent, Enqueue, RunOf
    <3> QED
      BY <3>2, <3>3 DEF Admission!acVars
  <2>2. ASSUME NEW s \in Slot, TriggerDigest(s) PROVE UNCHANGED Admission!acVars
    <3>1. RunOf' = RunOf
      BY <2>2, <2>a DEF TriggerDigest, Enqueue, RunOf
    <3> QED
      BY <2>2, <3>1 DEF TriggerDigest, gateVars, Admission!acVars
  <2>3. ASSUME NEW s \in Slot, StartTask(s)
        PROVE  Admission!Next \/ UNCHANGED Admission!acVars
    <3>1. CASE /\ ShouldProcess(job[s], TRUE)
               /\ phase' = [phase EXCEPT ![s] = "running"]
               /\ sinceRun' = [sinceRun EXCEPT ![job[s]] = 0]
               /\ UNCHANGED job
      <4>1. job[s] \in Key /\ StartsRun(s)
        BY <2>3, <2>a, <3>1 DEF StartTask, StartsRun
      <4>2. /\ sinceRun[job[s]] = DebounceSeconds
            /\ dailyCounts' = dailyCounts
            /\ dailyCounts[ModuleOfKey(job[s])] < MaxDaily[ModuleOfKey(job[s])]
        BY <2>a, <3>1, <4>1, StartIsAdmitted, ShouldProcessEffect
      <4>3. RunOf[s] = NoKey /\ RunOf' = [RunOf EXCEPT ![s] = job[s]]
        BY <2>3, <2>a, <3>1 DEF StartTask, RunOf
      <4>4. Admission!Start(s, job[s])
        BY <3>1, <4>2, <4>3, GateAssumption DEF Admission!Start
      <4> QED
        BY <4>1, <4>4 DEF Admission!Next
    <3>2. CASE /\ ShouldProcess(job[s], FALSE)
               /\ Release(s)
               /\ UNCHANGED sinceRun
      <4>1. RunOf' = RunOf
        BY <2>3, <2>a, <3>2 DEF StartTask, Release, RunOf
      <4> QED
        BY <3>2, <4>1 DEF ShouldProcess, Admission!acVars
    <3> QED
      BY <2>3, <3>1, <3>2, Zenon DEF StartTask
  <2>4. ASSUME NEW s \in Slot, FinishTask(s) PROVE Admission!Next
    <3>1. /\ job[s] \in Key /\ job[s] # NoKey
          /\ dailyCounts[ModuleOfKey(job[s])] < MaxDaily[ModuleOfKey(job[s])]
      BY <2>4, <2>a, ServiceAssumption
      DEF FinishTask, GateChecksHold, RoomWhileRunning
    <3>2. RunOf[s] = job[s] /\ RunOf' = [RunOf EXCEPT ![s] = NoKey]
      BY <2>4, <2>a DEF FinishTask, Release, RunOf
    <3>3. Admission!Finish(s)
      BY <2>4, <3>1, <3>2 DEF FinishTask, RecordExecution, Admission!Finish
    <3> QED
      BY <3>3 DEF Admission!Next
  <2>5. ASSUME NEW s \in Slot, FailTask(s) PROVE Admission!Next
    <3>1. job[s] # NoKey
      BY <2>5, <2>a, ServiceAssumption DEF FailTask
    <3>2. RunOf[s] = job[s] /\ RunOf' = [RunOf EXCEPT ![s] = NoKey]
      BY <2>5, <2>a DEF FailTask, Release, RunOf
    <3>3. Admission!Fail(s)
      BY <2>5, <3>1, <3>2 DEF FailTask, gateVars, Admission!Fail
    <3> QED
      BY <3>3 DEF Admission!Next
  <2>6. ASSUME SwitchSafeMode PROVE UNCHANGED Admission!acVars
    BY <2>6 DEF SwitchSafeMode, SetSafeMode, Admission!acVars, RunOf
  <2>7. ASSUME NEW enabled \in BOOLEAN, Restart(enabled) PROVE Admission!Next
    BY <2>7 DEF Restart, GateRestart, Admission!Next, Admission!Forget, Admission!Fresh, RunOf
  <2>8. ASSUME Tick PROVE Admission!Next
    BY <2>8 DEF Tick, GateTick, Older, Admission!Next, Admission!Pass, RunOf
  <2>9. CASE UNCHANGED vars
    BY <2>9 DEF vars, gateVars, Admission!acVars, RunOf
  <2> QED
    BY <2>1, <2>2, <2>3, <2>4, <2>5, <2>6, <2>7, <2>8, <2>9 DEF Next, SlotStep
<1> QED
  BY <1>1, <1>2, TypeCorrect, GateChecksInvariant, PTL
  DEF Spec, ImplementsAdmission, Admission!Spec

-----------------------------------------------------------------------------
(* One day of the service.                                                 *)

(***************************************************************************)
(* A day with its accounts is a behaviour of the service: its theorems     *)
(* hold on every day.                                                      *)
(***************************************************************************)
THEOREM DayIsService == DaySpec => Spec
<1>1. DayInit => Init
  BY DEF DayInit
<1>2. [DayNext]_dayVars => [Next]_vars
  BY DEF DayNext, dayVars, WithinLifetime, NewLifetime, Next
<1> QED
  BY <1>1, <1>2, PTL DEF DaySpec, Spec

-----------------------------------------------------------------------------
\* What the inductive invariant adds to the cap of a lifetime: the counters
\* of the past lifetimes of a day were at their caps at most.
DayInv ==
    /\ restarts \in Nat
    /\ recordedToday \in [Module -> Nat]
    /\ \A m \in Module : recordedToday[m] <= restarts * MaxDaily[m] + dailyCounts[m]

(***************************************************************************)
(* A step within a lifetime leaves each counter alone or raises it by one. *)
(***************************************************************************)
LEMMA CountersWithinLifetime ==
    ASSUME TypeOK, WithinLifetime, NEW m \in Module
    PROVE  dailyCounts'[m] \in {dailyCounts[m], dailyCounts[m] + 1}
<1> USE DEF TypeOK, GateTypeOK
<1>1. ASSUME NEW s \in Slot, SlotStep(s)
      PROVE  dailyCounts'[m] \in {dailyCounts[m], dailyCounts[m] + 1}
  <2>1. CASE FinishTask(s)
    BY <2>1 DEF FinishTask, RecordExecution
  <2>2. CASE \E k \in AllowedEvents \X Entity : ReceiveEvent(s, k)
    BY <2>2 DEF ReceiveEvent, ShouldProcess
  <2>3. CASE TriggerDigest(s) \/ FailTask(s)
    BY <2>3 DEF TriggerDigest, FailTask, gateVars
  <2>4. CASE StartTask(s)
    BY <2>4 DEF StartTask, ShouldProcess
  <2> QED
    BY <1>1, <2>1, <2>2, <2>3, <2>4 DEF SlotStep
<1>2. CASE SwitchSafeMode
  BY <1>2 DEF SwitchSafeMode, SetSafeMode
<1>3. CASE Tick
  BY <1>3 DEF Tick, GateTick
<1> QED
  BY <1>1, <1>2, <1>3 DEF WithinLifetime

(***************************************************************************)
(* Every step of the day keeps its account: a recorded execution raises    *)
(* both sides, and a restart exchanges the counter for a whole cap.        *)
(***************************************************************************)
LEMMA DayStepKeeps ==
    ASSUME TypeOK, TypeOK', DailyCapHeld, DayInv, [DayNext]_dayVars
    PROVE  DayInv'
<1> USE DEF DayInv
<1>1. CASE WithinLifetime /\ UNCHANGED restarts /\ DayNext
  <2>1. /\ \A m \in Module : recordedToday'[m] = recordedToday[m]
                                                 + (IF Recorded(m) THEN 1 ELSE 0)
        /\ recordedToday' \in [Module -> Nat]
    BY <1>1 DEF DayNext
  <2>2. ASSUME NEW m \in Module
        PROVE  recordedToday'[m] <= restarts' * MaxDaily[m] + dailyCounts'[m]
    <3>1. dailyCounts'[m] \in {dailyCounts[m], dailyCounts[m] + 1}
      BY <1>1, CountersWithinLifetime
    <3>2. restarts' * MaxDaily[m] = restarts * MaxDaily[m] /\ restarts * MaxDaily[m] \in Nat
      BY <1>1, GateAssumption
    <3>3. dailyCounts[m] \in Nat /\ recordedToday[m] \in Nat
      BY DEF TypeOK, GateTypeOK
    <3>4. recordedToday[m] <= restarts * MaxDaily[m] + dailyCounts[m]
      OBVIOUS
    <3> DEFINE past == restarts * MaxDaily[m]
    <3> HIDE DEF past
    <3>5. recordedToday'[m] <= past + dailyCounts'[m]
      BY <2>1, <3>1, <3>2, <3>3, <3>4 DEF Recorded, past
    <3> QED
      BY <3>2, <3>5 DEF past
  <2> QED
    BY <1>1, <2>1, <2>2
<1>2. CASE NewLifetime /\ restarts' = restarts + 1 /\ DayNext
  <2>1. \A m \in Module : dailyCounts'[m] = 0
    BY <1>2 DEF NewLifetime, Restart, GateRestart
  <2>2. recordedToday' = recordedToday
    <3>1. \A m \in Module : ~Recorded(m)
      BY <2>1 DEF Recorded, TypeOK, GateTypeOK
    <3> QED
      BY <1>2, <3>1 DEF DayNext
  <2>3. ASSUME NEW m \in Module
        PROVE  recordedToday'[m] <= restarts' * MaxDaily[m] + dailyCounts'[m]
    <3>1. MaxDaily[m] \in Nat /\ dailyCounts[m] <= MaxDaily[m] /\ dailyCounts[m] \in Nat
      BY GateAssumption DEF DailyCapHeld, TypeOK, GateTypeOK
    <3>2. (restarts + 1) * MaxDaily[m] = restarts * MaxDaily[m] + MaxDaily[m]
      BY <3>1
    <3>3. restarts * MaxDaily[m] \in Nat /\ recordedToday[m] \in Nat
      BY <3>1
    <3> QED
      BY <1>2, <2>1, <2>2, <3>1, <3>2, <3>3
  <2> QED
    BY <1>2, <2>2, <2>3
<1>3. CASE UNCHANGED dayVars
  BY <1>3 DEF dayVars, vars, gateVars
<1> QED
  BY <1>1, <1>2, <1>3 DEF DayNext

(***************************************************************************)
(* On every day, with any number of restarts, the executions recorded of a *)
(* module stay within its cap times the number of the day's processes.     *)
(***************************************************************************)
THEOREM DayCapTheorem == DaySpec => []DayCapHeld
<1>1. DayInit => DayInv
  <2> SUFFICES ASSUME DayInit PROVE DayInv
    OBVIOUS
  <2>1. \A m \in Module : 0 * MaxDaily[m] = 0
    BY GateAssumption
  <2> QED
    BY <2>1 DEF DayInit, DayInv, Init, GateInit
<1>2. TypeOK /\ TypeOK' /\ DailyCapHeld /\ DayInv /\ [DayNext]_dayVars => DayInv'
  BY DayStepKeeps
<1>3. DaySpec => [](TypeOK /\ DailyCapHeld)
  BY DayIsService, TypeCorrect, CapTheorem, PTL
<1>4. TypeOK /\ DailyCapHeld /\ DayInv => DayCapHeld
  <2> SUFFICES ASSUME TypeOK, DailyCapHeld, DayInv, NEW m \in Module
               PROVE  recordedToday[m] <= (restarts + 1) * MaxDaily[m]
    BY DEF DayCapHeld
  <2>1. MaxDaily[m] \in Nat /\ dailyCounts[m] <= MaxDaily[m] /\ dailyCounts[m] \in Nat
    BY GateAssumption DEF DailyCapHeld, TypeOK, GateTypeOK
  <2>2. restarts \in Nat /\ recordedToday[m] \in Nat
    BY DEF DayInv
  <2>3. recordedToday[m] <= restarts * MaxDaily[m] + dailyCounts[m]
    BY DEF DayInv
  <2>4. (restarts + 1) * MaxDaily[m] = restarts * MaxDaily[m] + MaxDaily[m]
    BY <2>1, <2>2
  <2>5. restarts * MaxDaily[m] \in Nat
    BY <2>1, <2>2
  <2> QED
    BY <2>1, <2>2, <2>3, <2>4, <2>5
<1> QED
  BY <1>1, <1>2, <1>3, <1>4, PTL DEF DaySpec
=============================================================================
