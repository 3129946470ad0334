-------------------------- MODULE AmpRouterProofs --------------------------
(***************************************************************************)
(* Proofs about AmpRouter for any finite number of concurrent workers: how *)
(* its counts stand to the executions they count, how often one window can *)
(* be used, and that a single worker keeps the whole admission control.    *)
(***************************************************************************)
EXTENDS AmpRouter, FiniteSetTheorems, TLAPS

\* EVENT_TO_MODULE is total on event types.
LEMMA ModuleOfKeyType ==
    ASSUME NEW k \in Key PROVE ModuleOfKey(k) \in Module
BY GateAssumption DEF Key, ModuleOfKey

\* The keys events can carry are keys of the debounce cache.
LEMMA EventKeys == (AllowedEvents \X Entity) \subseteq Key
BY GateAssumption DEF Key

\* A set of workers is finite and no larger than all of them.
LEMMA WorkersCounted ==
    ASSUME NEW S \in SUBSET Worker
    PROVE  /\ IsFiniteSet(S)
           /\ Cardinality(S) \in Nat
           /\ Cardinality(Worker) \in Nat \ {0}
           /\ Cardinality(S) <= Cardinality(Worker)
BY WorkerAssumption, FS_Subset, FS_CardinalityType, FS_EmptySet

\* A new gate leaves everyone behind who held the old one, and nobody who builds.
LEMMA InstallLeaves ==
    ASSUME NEW w \in Worker, InstallGate(w)
    PROVE  \E left \in SUBSET Worker :
             /\ Holding \subseteq left
             /\ phase' = [v \in Worker |-> IF v = w THEN "idle"
                                            ELSE IF v \in left THEN "orphaned" ELSE phase[v]]
             /\ job' = [v \in Worker |-> IF v \in left THEN NoKey ELSE job[v]]
             /\ verdict' = [v \in Worker |-> v \notin left /\ verdict[v]]
             /\ age' = [v \in Worker |-> IF v \in left THEN 0 ELSE age[v]]
             /\ seen' = [v \in Worker |-> IF v \in left THEN 0 ELSE seen[v]]
<1>1. PICK handed \in SUBSET {v \in Worker \ {w} : phase[v] = "idle"} :
          LET left == Holding \cup (IF built THEN handed ELSE {}) IN
          /\ phase' = [v \in Worker |-> IF v = w THEN "idle"
                                         ELSE IF v \in left THEN "orphaned" ELSE phase[v]]
          /\ job' = [v \in Worker |-> IF v \in left THEN NoKey ELSE job[v]]
          /\ verdict' = [v \in Worker |-> v \notin left /\ verdict[v]]
          /\ age' = [v \in Worker |-> IF v \in left THEN 0 ELSE age[v]]
          /\ seen' = [v \in Worker |-> IF v \in left THEN 0 ELSE seen[v]]
  BY DEF InstallGate
<1>2. (Holding \cup (IF built THEN handed ELSE {})) \in SUBSET Worker
  BY DEF Holding
<1> QED
  BY <1>1, <1>2

-----------------------------------------------------------------------------
(***************************************************************************)
(* Every variable keeps its type, and only a worker that holds the present *)
(* gate holds an event.                                                    *)
(***************************************************************************)
THEOREM TypeCorrect == Spec => []TypeOK
<1>1. Init => TypeOK
  <2> SUFFICES ASSUME Init PROVE TypeOK
    OBVIOUS
  <2>1. GateTypeOK
    <3>1. budgetAlertFired \in BOOLEAN /\ safeModeActive \in BOOLEAN /\ flowEnabled \in BOOLEAN
      BY Zenon DEF Init, GateInit
    <3>2. elapsed \in [Key -> 0..DebounceSeconds]
      BY GateAssumption DEF Init, GateInit
    <3> QED
      BY <3>1, <3>2 DEF Init, GateInit, GateTypeOK
  <2>2. /\ phase \in [Worker -> Phase] /\ burst \in [Key -> Nat]
        /\ age \in [Worker -> 0..DebounceSeconds]
        /\ seen \in [Worker -> Nat] /\ executed \in [Module -> Nat]
    BY GateAssumption DEF Init, Phase
  <2>6. built \in BOOLEAN
    BY Zenon DEF Init
  <2>3. job \in [Worker -> Key \cup {NoKey}]
    BY DEF Init
  <2>4. verdict \in [Worker -> BOOLEAN]
    BY DEF Init
  <2>5. \A w \in Worker : w \notin Holding /\ job[w] = NoKey /\ ~verdict[w]
    BY DEF Init, Holding
  <2> QED
    BY <2>1, <2>2, <2>3, <2>4, <2>5, <2>6 DEF TypeOK
<1>2. TypeOK /\ [Next]_vars => TypeOK'
  <2> SUFFICES ASSUME TypeOK, [Next]_vars PROVE TypeOK'
    OBVIOUS
  <2> USE DEF TypeOK, Phase, Holding
  <2>1. ASSUME NEW w \in Worker, NEW k \in AllowedEvents \X Entity, AskGate(w, k)
        PROVE  TypeOK'
    <3>1. k \in Key
      BY EventKeys
    <3>2. GateAdmits(k) \in BOOLEAN
      BY Zenon DEF GateAdmits, OtherChecksPass, CheckAllowlist, CheckSafeMode,
                   CheckDailyBudget, CheckModuleRateLimit, CheckDebounce
    <3>3. verdict' \in [Worker -> BOOLEAN]
      BY <2>1, <3>2 DEF AskGate
    <3>4. GateTypeOK'
      BY <2>1 DEF AskGate, gateVars, GateTypeOK
    <3>5. age' \in [Worker -> 0..DebounceSeconds]
      BY <2>1, GateAssumption DEF AskGate
    <3> QED
      BY <2>1, <3>1, <3>3, <3>4, <3>5 DEF AskGate
  <2>2. ASSUME NEW w \in Worker, Stamp(w) PROVE TypeOK'
    <3>1. job[w] \in Key
      BY <2>2 DEF Stamp
    <3>2. GateTypeOK'
      BY <2>2, <3>1, GateAssumption DEF Stamp, GateTypeOK
    <3>5. age' \in [Worker -> 0..DebounceSeconds] /\ burst' \in [Key -> Nat]
      BY <2>2, <3>1, GateAssumption DEF Stamp
    <3>3. CASE verdict[w]
      BY <2>2, <3>1, <3>2, <3>3, <3>5 DEF Stamp
    <3>4. CASE ~verdict[w]
      BY <2>2, <3>2, <3>4, <3>5 DEF Stamp, Release
    <3> QED
      BY <3>3, <3>4
  <2>3. ASSUME NEW w \in Worker, ReadCount(w) PROVE TypeOK'
    <3>1. ModuleOfKey(job[w]) \in Module
      BY <2>3, ModuleOfKeyType DEF ReadCount
    <3>2. seen' \in [Worker -> Nat] /\ executed' \in [Module -> Nat]
      BY <2>3, <3>1 DEF ReadCount, GateTypeOK
    <3>3. GateTypeOK'
      BY <2>3 DEF ReadCount, gateVars, GateTypeOK
    <3> QED
      BY <2>3, <3>2, <3>3 DEF ReadCount
  <2>9. ASSUME NEW w \in Worker, StoreCount(w) PROVE TypeOK'
    <3>1. ModuleOfKey(job[w]) \in Module
      BY <2>9, ModuleOfKeyType DEF StoreCount
    <3>2. seen[w] + 1 \in Nat /\ dailyCounts \in [Module -> Nat]
      BY DEF GateTypeOK
    <3>3. dailyCounts' \in [Module -> Nat]
      BY <2>9, <3>1, <3>2 DEF StoreCount
    <3>4. budgetAlertFired' \in BOOLEAN
      BY <2>9, Zenon DEF StoreCount
    <3>5. GateTypeOK'
      BY <2>9, <3>3, <3>4 DEF StoreCount, GateTypeOK
    <3> QED
      BY <2>9, <3>5 DEF StoreCount, Release
  <2>10. ASSUME NEW w \in Worker, FindNoGate(w) PROVE TypeOK'
    BY <2>10 DEF FindNoGate, gateVars, GateTypeOK
  <2>11. ASSUME NEW w \in Worker, InstallGate(w) PROVE TypeOK'
    <3>1. /\ budgetAlertFired' \in BOOLEAN
          /\ safeModeActive' \in BOOLEAN
          /\ flowEnabled' \in BOOLEAN
      BY <2>11, Zenon DEF InstallGate, GateRestart, GateTypeOK
    <3>2. elapsed' \in [Key -> 0..DebounceSeconds]
      BY <2>11, GateAssumption DEF InstallGate, GateRestart
    <3>3. GateTypeOK'
      BY <2>11, <3>1, <3>2 DEF InstallGate, GateRestart, GateTypeOK
    <3>4. PICK left \in SUBSET Worker :
             /\ Holding \subseteq left
             /\ phase' = [v \in Worker |-> IF v = w THEN "idle"
                                            ELSE IF v \in left THEN "orphaned" ELSE phase[v]]
             /\ job' = [v \in Worker |-> IF v \in left THEN NoKey ELSE job[v]]
             /\ verdict' = [v \in Worker |-> v \notin left /\ verdict[v]]
             /\ age' = [v \in Worker |-> IF v \in left THEN 0 ELSE age[v]]
             /\ seen' = [v \in Worker |-> IF v \in left THEN 0 ELSE seen[v]]
      BY <2>11, InstallLeaves
    <3>5. /\ phase' \in [Worker -> Phase] /\ seen' \in [Worker -> Nat]
          /\ job' \in [Worker -> Key \cup {NoKey}]
          /\ age' \in [Worker -> 0..DebounceSeconds]
      BY <3>4, GateAssumption
    <3>6. verdict' \in [Worker -> BOOLEAN]
      BY <3>4, Zenon
    <3>7. \A v \in Worker : v \notin Holding' /\ job'[v] = NoKey /\ ~verdict'[v]
      BY <3>4
    <3> QED
      BY <2>11, <3>3, <3>5, <3>6, <3>7 DEF InstallGate
  <2>12. ASSUME NEW w \in Worker, LeaveOrphan(w) PROVE TypeOK'
    BY <2>12 DEF LeaveOrphan, gateVars, GateTypeOK
  <2>4. ASSUME NEW w \in Worker, Fail(w) PROVE TypeOK'
    BY <2>4 DEF Fail, Release, gateVars, GateTypeOK
  <2>5. ASSUME SwitchSafeMode PROVE TypeOK'
    BY <2>5 DEF SwitchSafeMode, SetSafeMode, GateTypeOK
  <2>6. ASSUME NEW enabled \in BOOLEAN, Restart(enabled) PROVE TypeOK'
    <3>1. /\ budgetAlertFired' \in BOOLEAN
          /\ safeModeActive' \in BOOLEAN
          /\ flowEnabled' \in BOOLEAN
      BY <2>6, Zenon DEF Restart, GateRestart
    <3>2. elapsed' \in [Key -> 0..DebounceSeconds]
      BY <2>6, GateAssumption DEF Restart, GateRestart
    <3>3. GateTypeOK'
      BY <2>6, <3>1, <3>2 DEF Restart, GateRestart, GateTypeOK
    <3>4. \A w \in Worker : w \notin Holding' /\ job'[w] = NoKey /\ ~verdict'[w]
      BY <2>6 DEF Restart
    <3>5. age' \in [Worker -> 0..DebounceSeconds]
      BY <2>6, GateAssumption DEF Restart
    <3> QED
      BY <2>6, <3>3, <3>4, <3>5 DEF Restart
  <2>7. ASSUME Tick PROVE TypeOK'
    <3>1. GateTypeOK'
      BY <2>7, GateAssumption DEF Tick, GateTick, Older, GateTypeOK
    <3>2. age' \in [Worker -> 0..DebounceSeconds]
      BY <2>7, GateAssumption DEF Tick
    <3> QED
      BY <2>7, <3>1, <3>2 DEF Tick
  <2>8. CASE UNCHANGED vars
    BY <2>8 DEF vars, gateVars, GateTypeOK
  <2> QED
    BY <2>1, <2>2, <2>3, <2>4, <2>5, <2>6, <2>7, <2>8, <2>9, <2>10, <2>11, <2>12
    DEF Next, WorkerStep
<1> QED
  BY <1>1, <1>2, PTL DEF Spec

-----------------------------------------------------------------------------
\* The inductive form of the count's bound: what is stored, and what is yet to be.
CountInv == PendingCovered /\ CountNeverAhead

(***************************************************************************)
(* However the recordings of any number of workers overlap, a count that   *)
(* was read stays below the executions there have been, so storing it plus *)
(* one keeps the stored count at or below them.                            *)
(***************************************************************************)
LEMMA CountInvariant == Spec => []CountInv
<1>1. Init => CountInv
  BY DEF Init, GateInit, CountInv, PendingCovered, CountNeverAhead
<1>2. TypeOK /\ CountInv /\ [Next]_vars => CountInv'
  <2> SUFFICES ASSUME TypeOK, CountInv, [Next]_vars PROVE CountInv'
    OBVIOUS
  <2>a. /\ phase \in [Worker -> Phase]
        /\ \A w \in Worker : w \in Holding => job[w] \in Key
        /\ seen \in [Worker -> Nat]
        /\ executed \in [Module -> Nat]
        /\ dailyCounts \in [Module -> Nat]
    BY DEF TypeOK, GateTypeOK
  <2>b. /\ \A w \in Worker :
             phase[w] = "recording" => seen[w] < executed[ModuleOfKey(job[w])]
        /\ \A m \in Module : dailyCounts[m] <= executed[m]
    BY DEF CountInv, PendingCovered, CountNeverAhead
  \* A step that leaves the counts alone and lets nobody begin to record.
  <2>c. ASSUME UNCHANGED <<dailyCounts, executed>>,
               \A v \in Worker : phase'[v] = "recording" =>
                   phase[v] = "recording" /\ job'[v] = job[v] /\ seen'[v] = seen[v]
        PROVE  CountInv'
    BY <2>b, <2>c DEF CountInv, PendingCovered, CountNeverAhead, ModuleOfKey
  \* A step after which nothing has been counted and nobody records.
  <2>d. ASSUME dailyCounts' = [m \in Module |-> 0], executed' = [m \in Module |-> 0],
               \A v \in Worker : phase'[v] # "recording"
        PROVE  CountInv'
    BY <2>d DEF CountInv, PendingCovered, CountNeverAhead
  <2>1. ASSUME NEW w \in Worker, ReadCount(w) PROVE CountInv'
    <3> DEFINE m == ModuleOfKey(job[w])
    <3>1. m \in Module
      BY <2>1, <2>a, ModuleOfKeyType DEF ReadCount, Holding
    <3>2. /\ executed' = [executed EXCEPT ![m] = executed[m] + 1]
          /\ dailyCounts' = dailyCounts /\ job' = job
          /\ seen' = [seen EXCEPT ![w] = dailyCounts[m]]
          /\ phase' = [phase EXCEPT ![w] = "recording"]
      BY <2>1 DEF ReadCount, gateVars
    <3>3. ASSUME NEW v \in Worker, phase'[v] = "recording"
          PROVE  seen'[v] < executed'[ModuleOfKey(job'[v])]
      <4>1. CASE v = w
        <5>1. seen'[v] = dailyCounts[m] /\ executed'[m] = executed[m] + 1
          BY <2>a, <3>1, <3>2, <4>1
        <5>2. dailyCounts[m] < executed[m] + 1
          BY <2>a, <2>b, <3>1
        <5> QED
          BY <3>2, <4>1, <5>1, <5>2
      <4>2. CASE v # w
        <5>1. /\ phase[v] = "recording" /\ seen'[v] = seen[v]
              /\ ModuleOfKey(job[v]) \in Module
          BY <2>a, <3>2, <3>3, <4>2, ModuleOfKeyType DEF Holding
        <5>2. executed[ModuleOfKey(job[v])] <= executed'[ModuleOfKey(job[v])]
          BY <2>a, <3>1, <3>2, <5>1
        <5>3. /\ seen[v] < executed[ModuleOfKey(job[v])] /\ seen[v] \in Nat
              /\ executed[ModuleOfKey(job[v])] \in Nat
              /\ executed'[ModuleOfKey(job[v])] \in Nat
          BY <2>a, <2>b, <3>1, <3>2, <5>1
        <5> QED
          BY <3>2, <5>1, <5>2, <5>3
      <4> QED
        BY <4>1, <4>2
    <3>4. \A n \in Module : dailyCounts'[n] <= executed'[n]
      BY <2>a, <2>b, <3>1, <3>2
    <3> QED
      BY <3>3, <3>4 DEF CountInv, PendingCovered, CountNeverAhead, ModuleOfKey
  <2>2. ASSUME NEW w \in Worker, StoreCount(w) PROVE CountInv'
    <3> DEFINE m == ModuleOfKey(job[w])
    <3>1. m \in Module /\ seen[w] < executed[m]
      BY <2>2, <2>a, <2>b, ModuleOfKeyType DEF StoreCount, Holding
    <3>2. /\ dailyCounts' = [dailyCounts EXCEPT ![m] = seen[w] + 1]
          /\ executed' = executed
          /\ \A v \in Worker : phase'[v] = "recording" =>
                 phase[v] = "recording" /\ job'[v] = job[v] /\ seen'[v] = seen[v]
      BY <2>2, <2>a DEF StoreCount, Release
    <3>3. PendingCovered'
      BY <2>b, <3>2 DEF PendingCovered, ModuleOfKey
    <3>4. \A n \in Module : dailyCounts'[n] <= executed'[n]
      BY <2>a, <2>b, <3>1, <3>2
    <3> QED
      BY <3>3, <3>4 DEF CountInv, CountNeverAhead
  <2>3. ASSUME NEW w \in Worker, NEW k \in AllowedEvents \X Entity, AskGate(w, k)
        PROVE  CountInv'
    BY <2>3, <2>a, <2>c DEF AskGate, gateVars
  <2>4. ASSUME NEW w \in Worker, Stamp(w) PROVE CountInv'
    <3>1. \A v \in Worker : phase'[v] = "recording" =>
             phase[v] = "recording" /\ job'[v] = job[v] /\ seen'[v] = seen[v]
      <4>1. CASE verdict[w]
        BY <2>4, <2>a, <4>1 DEF Stamp
      <4>2. CASE ~verdict[w]
        <5>1. Release(w) /\ seen' = seen
          BY <2>4, <4>2 DEF Stamp
        <5> QED
          BY <2>a, <5>1 DEF Release
      <4> QED
        BY <4>1, <4>2
    <3> QED
      BY <2>4, <2>c, <3>1 DEF Stamp
  <2>5. ASSUME NEW w \in Worker, Fail(w) \/ FindNoGate(w) \/ LeaveOrphan(w)
        PROVE  CountInv'
    <3>1. \A v \in Worker : phase'[v] = "recording" =>
             phase[v] = "recording" /\ job'[v] = job[v] /\ seen'[v] = seen[v]
      <4>1. CASE Fail(w)
        BY <2>a, <4>1 DEF Fail, Release
      <4>2. CASE FindNoGate(w) \/ LeaveOrphan(w)
        BY <2>a, <4>2 DEF FindNoGate, LeaveOrphan
      <4> QED
        BY <2>5, <4>1, <4>2
    <3> QED
      BY <2>5, <2>c, <3>1 DEF Fail, FindNoGate, LeaveOrphan, gateVars
  <2>6. ASSUME NEW w \in Worker, InstallGate(w) PROVE CountInv'
    <3>1. \A v \in Worker : phase'[v] # "recording"
      BY <2>6, <2>a, InstallLeaves DEF Holding
    <3> QED
      BY <2>6, <2>d, <3>1 DEF InstallGate, GateRestart
  <2>7. ASSUME NEW enabled \in BOOLEAN, Restart(enabled) PROVE CountInv'
    BY <2>7, <2>d DEF Restart, GateRestart
  <2>8. ASSUME SwitchSafeMode \/ Tick \/ UNCHANGED vars PROVE CountInv'
    BY <2>8, <2>c DEF SwitchSafeMode, SetSafeMode, Tick, GateTick, vars, gateVars
  <2> QED
    BY <2>1, <2>2, <2>3, <2>4, <2>5, <2>6, <2>7, <2>8 DEF Next, WorkerStep
<1> QED
  BY <1>1, <1>2, TypeCorrect, PTL DEF Spec

(***************************************************************************)
(* Whatever the number of workers and however their recordings overlap, a  *)
(* module's count is never ahead of its executions: its cap is never       *)
(* reached before max_daily_executions of them have taken place.           *)
(***************************************************************************)
THEOREM CountTheorem == Spec => []CountNeverAhead
<1>1. CountInv => CountNeverAhead
  BY DEF CountInv
<1> QED
  BY <1>1, CountInvariant, PTL

-----------------------------------------------------------------------------
\* What a step of one worker w does to the workers racing for k.
LEMMA RacingCount ==
    ASSUME NEW w \in Worker, NEW k,
           \A v \in Worker \ {w} :
               phase'[v] = phase[v] /\ job'[v] = job[v] /\ verdict'[v] = verdict[v],
           w \notin Racing(k)'
    PROVE  /\ Cardinality(Racing(k)) \in Nat /\ Cardinality(Racing(k)') \in Nat
           /\ Cardinality(Racing(k)) <= Cardinality(Worker)
           /\ Cardinality(Racing(k)') <= Cardinality(Racing(k))
           /\ w \in Racing(k) => Cardinality(Racing(k)') = Cardinality(Racing(k)) - 1
<1>1. Racing(k) \in SUBSET Worker /\ Racing(k)' \in SUBSET Worker
  BY DEF Racing
<1>2. Racing(k)' = Racing(k) \ {w}
  BY DEF Racing
<1>3. /\ IsFiniteSet(Racing(k))
      /\ Cardinality(Racing(k)) \in Nat /\ Cardinality(Racing(k)') \in Nat
      /\ Cardinality(Racing(k)) <= Cardinality(Worker)
  BY <1>1, WorkersCounted
<1>4. CASE w \in Racing(k)
  <2>1. Cardinality(Racing(k)') = Cardinality(Racing(k)) - 1
    BY <1>2, <1>3, <1>4, FS_RemoveElement
  <2> QED
    BY <1>3, <1>4, <2>1
<1>5. CASE w \notin Racing(k)
  <2>1. Racing(k)' = Racing(k)
    BY <1>2, <1>5
  <2> QED
    BY <1>3, <1>5, <2>1
<1> QED
  BY <1>4, <1>5

\* The inductive form of the burst bound: a burst only exists inside a closed
\* window, and nobody joins the race for a key while its window is closed.
BurstInv == BurstInsideWindow /\ BurstBounded

(***************************************************************************)
(* A step that begins or ends a run, or opens a window, keeps both.        *)
(***************************************************************************)
LEMMA BurstInvariant == Spec => []BurstInv
<1>1. Init => BurstInv
  BY DEF Init, BurstInv, BurstInsideWindow, BurstBounded
<1>2. TypeOK /\ BurstInv /\ [Next]_vars => BurstInv'
  <2> SUFFICES ASSUME TypeOK, BurstInv, [Next]_vars PROVE BurstInv'
    OBVIOUS
  <2>a. /\ phase \in [Worker -> Phase]
        /\ job \in [Worker -> Key \cup {NoKey}]
        /\ verdict \in [Worker -> BOOLEAN]
        /\ \A w \in Worker : phase[w] = "stamping" => job[w] \in Key
        /\ age \in [Worker -> 0..DebounceSeconds]
        /\ burst \in [Key -> Nat]
        /\ elapsed \in [Key -> 0..DebounceSeconds]
        /\ DebounceSeconds \in Nat \ {0}
        /\ Cardinality(Worker) \in Nat \ {0}
    BY GateAssumption, WorkersCounted DEF TypeOK, GateTypeOK, Holding
  <2>b. BurstInsideWindow /\ BurstBounded
    BY DEF BurstInv
  <2>1. ASSUME NEW w \in Worker, NEW k \in AllowedEvents \X Entity, AskGate(w, k)
        PROVE  BurstInv'
    <3>1. k \in Key /\ elapsed[k] >= DebounceSeconds
      BY <2>1, EventKeys DEF AskGate, CheckDebounce
    <3>2. burst[k] = 0
      BY <2>a, <2>b, <3>1 DEF BurstInsideWindow
    <3>3. burst' = burst /\ elapsed' = elapsed
      BY <2>1 DEF AskGate, gateVars
    <3>4. ASSUME NEW j \in Key, burst'[j] > 0 PROVE Racing(j)' = Racing(j)
      BY <2>1, <2>a, <3>2, <3>3, <3>4 DEF AskGate, Racing
    <3> QED
      BY <2>b, <3>3, <3>4 DEF BurstInv, BurstInsideWindow, BurstBounded
  <2>2. ASSUME NEW w \in Worker, Stamp(w) PROVE BurstInv'
    <3>1. /\ \A v \in Worker \ {w} :
                phase'[v] = phase[v] /\ job'[v] = job[v] /\ verdict'[v] = verdict[v]
          /\ phase[w] = "stamping" /\ phase'[w] # "stamping"
          /\ job[w] \in Key
          /\ elapsed' = [elapsed EXCEPT ![job[w]] = age[w]]
          /\ burst' = [burst EXCEPT ![job[w]] =
                          IF age[w] = DebounceSeconds THEN 0
                          ELSE IF verdict[w] THEN @ + 1 ELSE @]
      <4>1. CASE verdict[w]
        BY <2>2, <2>a, <4>1 DEF Stamp
      <4>2. CASE ~verdict[w]
        BY <2>2, <2>a, <4>2 DEF Stamp, Release
      <4> QED
        BY <4>1, <4>2
    <3>2. BurstInsideWindow'
      <4> SUFFICES ASSUME NEW j \in Key, burst'[j] > 0 PROVE elapsed'[j] < DebounceSeconds
        BY DEF BurstInsideWindow
      <4>1. CASE j = job[w]
        BY <2>a, <3>1, <4>1
      <4>2. CASE j # job[w]
        BY <2>a, <2>b, <3>1, <4>2 DEF BurstInsideWindow
      <4> QED
        BY <4>1, <4>2
    <3>3. ASSUME NEW j \in Key, burst'[j] > 0
          PROVE  burst'[j] + Cardinality(Racing(j)') <= Cardinality(Worker)
      <4>1. w \notin Racing(j)'
        BY <3>1 DEF Racing
      <4>2. /\ Cardinality(Racing(j)) \in Nat /\ Cardinality(Racing(j)') \in Nat
            /\ Cardinality(Racing(j)) <= Cardinality(Worker)
            /\ Cardinality(Racing(j)') <= Cardinality(Racing(j))
            /\ w \in Racing(j) => Cardinality(Racing(j)') = Cardinality(Racing(j)) - 1
        BY <3>1, <4>1, RacingCount
      <4>3. CASE verdict[w] /\ j = job[w]
        <5>1. w \in Racing(j)
          BY <3>1, <4>3 DEF Racing
        <5>2. burst'[j] = burst[j] + 1
          BY <2>a, <3>1, <3>3, <4>3
        <5>3. burst[j] + Cardinality(Racing(j)) <= Cardinality(Worker)
          BY <2>a, <2>b, <4>2 DEF BurstBounded
        <5> QED
          BY <2>a, <4>2, <5>1, <5>2, <5>3
      <4>4. CASE ~(verdict[w] /\ j = job[w])
        <5>1. burst'[j] = burst[j]
          BY <2>a, <3>1, <3>3, <4>4
        <5> QED
          BY <2>a, <2>b, <3>3, <4>2, <5>1 DEF BurstBounded
      <4> QED
        BY <4>3, <4>4
    <3> QED
      BY <3>2, <3>3 DEF BurstInv, BurstBounded
  <2>3. ASSUME NEW w \in Worker,
               \/ ReadCount(w) \/ StoreCount(w) \/ Fail(w) \/ FindNoGate(w) \/ LeaveOrphan(w)
        PROVE  BurstInv'
    <3>1. /\ phase[w] # "stamping" /\ phase'[w] # "stamping"
          /\ \A v \in Worker \ {w} :
                phase'[v] = phase[v] /\ job'[v] = job[v] /\ verdict'[v] = verdict[v]
          /\ burst' = burst /\ elapsed' = elapsed
      BY <2>3, <2>a
      DEF ReadCount, StoreCount, Fail, FindNoGate, LeaveOrphan, Release, gateVars
    <3>2. \A k \in Key : Racing(k)' = Racing(k)
      BY <3>1 DEF Racing
    <3> QED
      BY <2>b, <3>1, <3>2 DEF BurstInv, BurstInsideWindow, BurstBounded
  <2>8. ASSUME NEW w \in Worker, InstallGate(w) PROVE BurstInv'
    BY <2>8 DEF InstallGate, BurstInv, BurstInsideWindow, BurstBounded
  <2>4. ASSUME SwitchSafeMode PROVE BurstInv'
    BY <2>4, <2>b
    DEF SwitchSafeMode, SetSafeMode, BurstInv, BurstInsideWindow, BurstBounded, Racing
  <2>5. ASSUME NEW enabled \in BOOLEAN, Restart(enabled) PROVE BurstInv'
    BY <2>5 DEF Restart, BurstInv, BurstInsideWindow, BurstBounded
  <2>6. ASSUME Tick PROVE BurstInv'
    <3>1. \A k \in Key : Racing(k)' = Racing(k)
      BY <2>6 DEF Tick, Racing
    <3>2. elapsed' \in [Key -> 0..DebounceSeconds]
      BY <2>6, <2>a DEF Tick, GateTick, Older
    <3>3. \A k \in Key :
             burst'[k] > 0 => elapsed'[k] # DebounceSeconds /\ burst'[k] = burst[k]
      BY <2>6, <2>a DEF Tick
    <3>4. BurstInsideWindow'
      BY <2>a, <3>2, <3>3 DEF BurstInsideWindow
    <3>5. BurstBounded'
      BY <2>b, <3>1, <3>3 DEF BurstBounded
    <3> QED
      BY <3>4, <3>5 DEF BurstInv
  <2>7. CASE UNCHANGED vars
    BY <2>7, <2>b DEF vars, gateVars, BurstInv, BurstInsideWindow, BurstBounded, Racing
  <2> QED
    BY <2>1, <2>2, <2>3, <2>4, <2>5, <2>6, <2>7, <2>8 DEF Next, WorkerStep
<1> QED
  BY <1>1, <1>2, TypeCorrect, PTL DEF Spec

(***************************************************************************)
(* Between two openings of a key's window a gate never admits more runs of *)
(* it than there are workers, however many ask.                            *)
(***************************************************************************)
THEOREM BurstTheorem == Spec => []BurstBounded
<1>1. BurstInv => BurstBounded
  BY DEF BurstInv
<1> QED
  BY <1>1, BurstInvariant, PTL

-----------------------------------------------------------------------------
\* The budget as the entry points keep it: executions without their cost.
NothingSpent == dailyCost = 0 /\ ~budgetAlertFired

(***************************************************************************)
(* The budget check is idle here as well: it passes every event under      *)
(* every budget, and the alert is never raised.                            *)
(***************************************************************************)
THEOREM BudgetIdleTheorem == Spec => [](CheckDailyBudget /\ ~budgetAlertFired)
<1>1. Init => NothingSpent
  BY DEF Init, GateInit, NothingSpent
<1>2. NothingSpent /\ [Next]_vars => NothingSpent'
  <2> SUFFICES ASSUME NothingSpent, [Next]_vars PROVE NothingSpent'
    OBVIOUS
  <2>1. ASSUME NEW w \in Worker, StoreCount(w) PROVE NothingSpent'
    <3>1. dailyCost' = dailyCost /\ dailyCost = 0
      BY <2>1 DEF StoreCount, NothingSpent
    <3>2. ~(dailyCost >= AlertThreshold)
      BY <3>1, GateAssumption
    <3>3. budgetAlertFired' = (budgetAlertFired \/ dailyCost >= AlertThreshold)
      BY <2>1, Zenon DEF StoreCount
    <3>4. ~budgetAlertFired'
      BY <3>2, <3>3, Zenon DEF NothingSpent
    <3> QED
      BY <3>1, <3>4 DEF NothingSpent
  <2>4. ASSUME NEW w \in Worker, InstallGate(w) PROVE NothingSpent'
    BY <2>4 DEF InstallGate, GateRestart, NothingSpent
  <2>2. ASSUME NEW enabled \in BOOLEAN, Restart(enabled) PROVE NothingSpent'
    BY <2>2 DEF Restart, GateRestart, NothingSpent
  <2>3. ASSUME UNCHANGED <<dailyCost, budgetAlertFired>> PROVE NothingSpent'
    BY <2>3 DEF NothingSpent
  <2> QED
    BY <2>1, <2>2, <2>3, <2>4
    DEF Next, WorkerStep, AskGate, Stamp, ReadCount, Fail, FindNoGate, LeaveOrphan,
        SwitchSafeMode, SetSafeMode, Tick, GateTick, vars, gateVars
<1>3. NothingSpent => CheckDailyBudget /\ ~budgetAlertFired
  BY GateAssumption DEF NothingSpent, CheckDailyBudget
<1> QED
  BY <1>1, <1>2, <1>3, PTL DEF Spec

-----------------------------------------------------------------------------
(* One worker: the platform that runs kickoffs one after the other.        *)

\* The age of a key's last run: that of the time its worker read, and then that
\* of its stamp, if the window was closed by a run and not by an event the gate
\* denied.
LastRun ==
    [k \in Key |-> IF Racing(k) # {} THEN age[CHOOSE w \in Racing(k) : TRUE]
                   ELSE IF burst[k] > 0 THEN elapsed[k] ELSE DebounceSeconds]

\* AdmissionControl as OpsService implements it, with nothing added.
Exact == INSTANCE AdmissionControl WITH
    Runner <- Worker, Quota <- MaxDaily, Spacing <- DebounceSeconds,
    run <- RunOf, used <- dailyCounts, since <- LastRun

\* The window a worker found open is open still when it stamps the key.
StampsOpenWindow ==
    \A w \in Worker : phase[w] = "stamping" => elapsed[job[w]] = DebounceSeconds

\* The room a worker was admitted into is still there, to be taken by its count.
RoomIsLeft ==
    \A w \in Worker :
        /\ (w \in Holding /\ verdict[w])
              => dailyCounts[ModuleOfKey(job[w])] < MaxDaily[ModuleOfKey(job[w])]
        /\ phase[w] = "recording" => seen[w] = dailyCounts[ModuleOfKey(job[w])]

SerialInv == RunningWasAdmitted /\ StampsOpenWindow /\ RoomIsLeft

\* A single worker is alone between what it reads of the gate and what it writes.
LEMMA SerialInvariant ==
    ASSUME NEW w0, Worker = {w0}
    PROVE  Spec => []SerialInv
<1>1. Init => SerialInv
  BY DEF Init, SerialInv, RunningWasAdmitted, StampsOpenWindow, RoomIsLeft, Holding
<1>2. TypeOK /\ SerialInv /\ [Next]_vars => SerialInv'
  <2> SUFFICES ASSUME TypeOK, SerialInv, [Next]_vars PROVE SerialInv'
    OBVIOUS
  <2> USE DEF SerialInv, RunningWasAdmitted, StampsOpenWindow, RoomIsLeft, Holding
  <2>a. /\ phase \in [Worker -> Phase]
        /\ job \in [Worker -> Key \cup {NoKey}]
        /\ verdict \in [Worker -> BOOLEAN]
        /\ seen \in [Worker -> Nat]
        /\ \A w \in Worker : w \in Holding => job[w] \in Key
        /\ elapsed \in [Key -> 0..DebounceSeconds]
        /\ dailyCounts \in [Module -> Nat]
        /\ DebounceSeconds \in Nat \ {0}
    BY GateAssumption DEF TypeOK, GateTypeOK
  \* A step after which the worker holds no gate.
  <2>b. ASSUME \A v \in Worker : v \notin Holding' PROVE SerialInv'
    BY <2>b
  <2>1. ASSUME NEW w \in Worker, NEW k \in AllowedEvents \X Entity, AskGate(w, k)
        PROVE  SerialInv'
    <3>1. k \in Key /\ elapsed[k] = DebounceSeconds
      BY <2>1, <2>a, EventKeys DEF AskGate, CheckDebounce
    <3>2. /\ elapsed' = elapsed /\ dailyCounts' = dailyCounts
          /\ job'[w] = k /\ phase'[w] = "stamping" /\ w = w0
          /\ verdict'[w] => dailyCounts[ModuleOfKey(k)] < MaxDaily[ModuleOfKey(k)]
      BY <2>1, <2>a
      DEF AskGate, gateVars, GateAdmits, OtherChecksPass, CheckModuleRateLimit
    <3> QED
      BY <3>1, <3>2 DEF ModuleOfKey
  <2>2. ASSUME NEW w \in Worker, Stamp(w) PROVE SerialInv'
    <3>1. CASE verdict[w]
      <4>1. /\ phase' = [phase EXCEPT ![w] = "running"] /\ w = w0
            /\ UNCHANGED <<job, verdict, dailyCounts>> /\ w \in Holding
        BY <2>2, <2>a, <3>1 DEF Stamp
      <4> QED
        BY <2>a, <3>1, <4>1 DEF ModuleOfKey
    <3>2. CASE ~verdict[w]
      BY <2>2, <2>a, <2>b, <3>2 DEF Stamp, Release
    <3> QED
      BY <3>1, <3>2
  <2>3. ASSUME NEW w \in Worker, ReadCount(w) PROVE SerialInv'
    <3>1. /\ phase' = [phase EXCEPT ![w] = "recording"] /\ w = w0 /\ phase[w] = "running"
          /\ UNCHANGED <<job, verdict, dailyCounts>>
          /\ seen' = [seen EXCEPT ![w] = dailyCounts[ModuleOfKey(job[w])]]
      BY <2>3 DEF ReadCount, gateVars
    <3> QED
      BY <2>a, <3>1 DEF ModuleOfKey
  <2>4. ASSUME NEW w \in Worker,
               StoreCount(w) \/ Fail(w) \/ FindNoGate(w) \/ LeaveOrphan(w)
        PROVE  SerialInv'
    <3>1. phase'[w] \in {"idle", "building"} /\ w = w0
      BY <2>4, <2>a DEF StoreCount, Fail, FindNoGate, LeaveOrphan, Release
    <3> QED
      BY <2>b, <3>1
  <2>5. ASSUME NEW w \in Worker, InstallGate(w) PROVE SerialInv'
    BY <2>5, <2>a, <2>b, InstallLeaves
  <2>6. ASSUME SwitchSafeMode PROVE SerialInv'
    BY <2>6 DEF SwitchSafeMode, SetSafeMode, ModuleOfKey
  <2>7. ASSUME NEW enabled \in BOOLEAN, Restart(enabled) PROVE SerialInv'
    BY <2>7, <2>b DEF Restart
  <2>8. ASSUME Tick PROVE SerialInv'
    BY <2>8, <2>a DEF Tick, GateTick, Older, ModuleOfKey
  <2>9. CASE UNCHANGED vars
    BY <2>9 DEF vars, gateVars, ModuleOfKey
  <2> QED
    BY <2>1, <2>2, <2>3, <2>4, <2>5, <2>6, <2>7, <2>8, <2>9 DEF Next, WorkerStep
<1> QED
  BY <1>1, <1>2, TypeCorrect, PTL DEF Spec

(***************************************************************************)
(* A platform that runs one kickoff at a time loses nothing: each module's *)
(* executions stay within max_daily_executions, and two runs of a key are  *)
(* debounce_seconds apart.                                                 *)
(***************************************************************************)
THEOREM SerialRefinement ==
    ASSUME NEW w0, Worker = {w0}
    PROVE  Spec => Exact!Spec
<1>1. Init => Exact!Fresh
  BY DEF Init, GateInit, Exact!Fresh, RunOf, LastRun, Holding, Racing
<1>2. TypeOK /\ BurstInv /\ SerialInv /\ [Next]_vars => [Exact!Next]_(Exact!acVars)
  <2> SUFFICES ASSUME TypeOK, BurstInv, SerialInv, [Next]_vars
               PROVE  Exact!Next \/ UNCHANGED Exact!acVars
    OBVIOUS
  <2>a. /\ phase \in [Worker -> Phase]
        /\ job \in [Worker -> Key \cup {NoKey}]
        /\ verdict \in [Worker -> BOOLEAN]
        /\ \A w \in Worker : w \in Holding => job[w] \in Key
        /\ age \in [Worker -> 0..DebounceSeconds]
        /\ burst \in [Key -> Nat]
        /\ elapsed \in [Key -> 0..DebounceSeconds]
        /\ dailyCounts \in [Module -> Nat]
        /\ MaxDaily \in [Module -> Nat]
        /\ DebounceSeconds \in Nat \ {0}
    BY GateAssumption DEF TypeOK, GateTypeOK
  <2>b. /\ RunningWasAdmitted /\ StampsOpenWindow /\ RoomIsLeft
        /\ \A k \in Key : burst[k] > 0 => elapsed[k] < DebounceSeconds
    BY DEF SerialInv, BurstInv, BurstInsideWindow
  \* What the age of a key's last run is, when the worker is w0.
  <2>c. ASSUME NEW k \in Key
        PROVE  /\ LastRun[k] = IF w0 \in Racing(k) THEN age[w0]
                               ELSE IF burst[k] > 0 THEN elapsed[k] ELSE DebounceSeconds
               /\ LastRun'[k] = IF w0 \in Racing(k)' THEN age'[w0]
                                ELSE IF burst'[k] > 0 THEN elapsed'[k] ELSE DebounceSeconds
    <3>1. Racing(k) \in SUBSET {w0} /\ Racing(k)' \in SUBSET {w0}
      BY DEF Racing
    <3>2. \A R \in SUBSET {w0} :
             (R # {} <=> w0 \in R) /\ (R # {} => (CHOOSE v \in R : TRUE) = w0)
      OBVIOUS
    <3> QED
      BY <3>1, <3>2 DEF LastRun
  <2>d. ASSUME \A k \in Key : LastRun'[k] = LastRun[k] PROVE LastRun' = LastRun
    BY <2>d DEF LastRun
  <2>e. ASSUME phase[w0] # "stamping", phase'[w0] # "stamping", UNCHANGED <<burst, elapsed>>
        PROVE  LastRun' = LastRun
    <3>1. \A k \in Key : w0 \notin Racing(k) /\ w0 \notin Racing(k)'
      BY <2>e DEF Racing
    <3> QED
      BY <2>c, <2>d, <2>e, <3>1
  <2>1. ASSUME NEW w \in Worker, NEW k \in AllowedEvents \X Entity, AskGate(w, k)
        PROVE  Exact!Next \/ UNCHANGED Exact!acVars
    <3>1. /\ w = w0 /\ k \in Key /\ elapsed[k] = DebounceSeconds
          /\ phase[w] = "idle" /\ phase'[w] = "stamping" /\ job'[w] = k /\ age'[w] = 0
          /\ UNCHANGED <<burst, elapsed, dailyCounts>>
      BY <2>1, <2>a, EventKeys DEF AskGate, CheckDebounce, gateVars
    <3>6. verdict'[w] => dailyCounts[ModuleOfKey(k)] < MaxDaily[ModuleOfKey(k)]
      BY <2>1, <2>a DEF AskGate, GateAdmits, OtherChecksPass, CheckModuleRateLimit
    <3>2. \A j \in Key : w0 \notin Racing(j)
      BY <3>1 DEF Racing
    <3>3. RunOf = [v \in Worker |-> NoKey]
      BY <3>1 DEF RunOf, Holding
    <3>4. CASE verdict'[w]
      <4>1. RunOf' = [RunOf EXCEPT ![w] = k]
        BY <3>1, <3>3, <3>4 DEF RunOf, Holding
      <4>2. LastRun[k] = DebounceSeconds
        BY <2>a, <2>b, <2>c, <3>1, <3>2
      <4>3. \A j \in Key : LastRun'[j] = IF j = k THEN 0 ELSE LastRun[j]
        <5>1. \A j \in Key : w0 \in Racing(j)' <=> j = k
          BY <3>1, <3>4 DEF Racing
        <5> QED
          BY <2>c, <3>1, <3>2, <5>1
      <4>4. LastRun' = [LastRun EXCEPT ![k] = 0]
        BY <4>3 DEF LastRun
      <4>5. Exact!Start(w, k)
        BY <2>a, <3>1, <3>3, <3>4, <3>6, <4>1, <4>2, <4>4 DEF Exact!Start
      <4> QED
        BY <3>1, <4>5 DEF Exact!Next
    <3>5. CASE ~verdict'[w]
      <4>1. RunOf' = RunOf
        BY <3>1, <3>3, <3>5 DEF RunOf
      <4>2. \A j \in Key : w0 \notin Racing(j)'
        BY <3>1, <3>5 DEF Racing
      <4>3. LastRun' = LastRun
        BY <2>c, <2>d, <3>1, <3>2, <4>2
      <4> QED
        BY <3>1, <4>1, <4>3 DEF Exact!acVars
    <3> QED
      BY <3>4, <3>5
  <2>2. ASSUME NEW w \in Worker, Stamp(w) PROVE UNCHANGED Exact!acVars
    <3>1. /\ w = w0 /\ phase[w] = "stamping" /\ phase'[w] # "stamping" /\ job[w] \in Key
          /\ UNCHANGED dailyCounts /\ age[w] \in 0..DebounceSeconds
          /\ elapsed' = [elapsed EXCEPT ![job[w]] = age[w]]
          /\ burst' = [burst EXCEPT ![job[w]] =
                          IF age[w] = DebounceSeconds THEN 0
                          ELSE IF verdict[w] THEN @ + 1 ELSE @]
      <4>1. CASE verdict[w]
        BY <2>2, <2>a, <4>1 DEF Stamp, Holding
      <4>2. CASE ~verdict[w]
        BY <2>2, <2>a, <4>2 DEF Stamp, Release, Holding
      <4> QED
        BY <4>1, <4>2
    <3>2. burst[job[w]] = 0
      BY <2>a, <2>b, <3>1 DEF StampsOpenWindow
    <3>3. RunOf' = RunOf
      <4>1. CASE verdict[w]
        BY <2>2, <2>a, <4>1 DEF Stamp, RunOf, Holding
      <4>2. CASE ~verdict[w]
        BY <2>2, <2>a, <4>2 DEF Stamp, Release, RunOf, Holding
      <4> QED
        BY <4>1, <4>2
    <3>4. ASSUME NEW j \in Key PROVE LastRun'[j] = LastRun[j]
      <4>1. w0 \notin Racing(j)' /\ (w0 \in Racing(j) <=> verdict[w0] /\ j = job[w0])
        BY <3>1 DEF Racing
      <4>2. CASE j = job[w]
        <5>1. /\ elapsed'[j] = age[w0]
              /\ burst'[j] = IF age[w0] = DebounceSeconds THEN 0
                             ELSE IF verdict[w0] THEN 1 ELSE 0
          BY <2>a, <3>1, <3>2, <4>2
        <5> QED
          BY <2>c, <3>1, <3>2, <4>1, <4>2, <5>1
      <4>3. CASE j # job[w]
        <5>1. elapsed'[j] = elapsed[j] /\ burst'[j] = burst[j]
          BY <2>a, <3>1, <4>3
        <5> QED
          BY <2>c, <3>1, <4>1, <4>3, <5>1
      <4> QED
        BY <4>2, <4>3
    <3> QED
      BY <2>d, <3>1, <3>3, <3>4 DEF Exact!acVars
  <2>3. ASSUME NEW w \in Worker, StoreCount(w) PROVE Exact!Next
    <3>1. /\ phase[w] = "recording" /\ verdict[w] /\ job[w] \in Key /\ job[w] # NoKey
          /\ w = w0 /\ phase'[w] = "idle" /\ UNCHANGED <<burst, elapsed>>
      BY <2>3, <2>a, <2>b, WorkerAssumption
      DEF StoreCount, Release, RunningWasAdmitted, Holding
    <3>2. RunOf[w] = job[w] /\ RunOf' = [RunOf EXCEPT ![w] = NoKey]
      BY <2>3, <2>a, <3>1 DEF StoreCount, Release, RunOf, Holding
    <3>3. UNCHANGED LastRun
      BY <2>e, <3>1
    <3>4. /\ dailyCounts[ModuleOfKey(job[w])] < MaxDaily[ModuleOfKey(job[w])]
          /\ seen[w] = dailyCounts[ModuleOfKey(job[w])]
      BY <2>b, <3>1 DEF RoomIsLeft, Holding
    <3>5. Exact!Finish(w)
      BY <2>3, <3>1, <3>2, <3>3, <3>4 DEF StoreCount, Exact!Finish
    <3> QED
      BY <3>5 DEF Exact!Next
  <2>9. ASSUME NEW w \in Worker, ReadCount(w) \/ FindNoGate(w) \/ LeaveOrphan(w)
        PROVE  UNCHANGED Exact!acVars
    <3>1. RunOf' = RunOf
      BY <2>9, <2>a DEF ReadCount, FindNoGate, LeaveOrphan, RunOf, Holding
    <3>2. /\ w = w0 /\ phase[w] # "stamping" /\ phase'[w] # "stamping"
          /\ UNCHANGED <<burst, elapsed, dailyCounts>>
      BY <2>9, <2>a DEF ReadCount, FindNoGate, LeaveOrphan, gateVars
    <3> QED
      BY <2>e, <3>1, <3>2 DEF Exact!acVars
  <2>10. ASSUME NEW w \in Worker, InstallGate(w) PROVE Exact!Next
    <3>1. \A v \in Worker : v \notin Holding' /\ phase'[v] # "stamping"
      BY <2>10, <2>a, InstallLeaves DEF Holding
    <3>2. RunOf' = [v \in Worker |-> NoKey] /\ \A k \in Key : Racing(k)' = {}
      BY <3>1 DEF RunOf, Racing
    <3> QED
      BY <2>10, <3>2
      DEF InstallGate, GateRestart, Exact!Next, Exact!Forget, Exact!Fresh, LastRun
  <2>4. ASSUME NEW w \in Worker, Fail(w) PROVE Exact!Next
    <3>1. /\ phase[w] = "running" /\ verdict[w] /\ job[w] # NoKey
          /\ w = w0 /\ phase'[w] = "idle" /\ UNCHANGED <<burst, elapsed, dailyCounts>>
      BY <2>4, <2>a, <2>b, WorkerAssumption
      DEF Fail, Release, RunningWasAdmitted, Holding, gateVars
    <3>2. RunOf[w] = job[w] /\ RunOf' = [RunOf EXCEPT ![w] = NoKey]
      BY <2>4, <2>a, <3>1 DEF Fail, Release, RunOf, Holding
    <3>3. Exact!Fail(w)
      BY <2>e, <3>1, <3>2 DEF Exact!Fail
    <3> QED
      BY <3>3 DEF Exact!Next
  <2>5. ASSUME SwitchSafeMode PROVE UNCHANGED Exact!acVars
    BY <2>5
    DEF SwitchSafeMode, SetSafeMode, Exact!acVars, RunOf, LastRun, Holding, Racing
  <2>6. ASSUME NEW enabled \in BOOLEAN, Restart(enabled) PROVE Exact!Next
    <3>1. RunOf' = [v \in Worker |-> NoKey] /\ \A k \in Key : Racing(k)' = {}
      BY <2>6 DEF Restart, RunOf, Racing, Holding
    <3> QED
      BY <2>6, <3>1
      DEF Restart, GateRestart, Exact!Next, Exact!Forget, Exact!Fresh, LastRun
  <2>7. ASSUME Tick PROVE Exact!Next
    <3>1. UNCHANGED <<RunOf, dailyCounts>>
      BY <2>7 DEF Tick, GateTick, RunOf, Holding
    <3>2. ASSUME NEW k \in Key
          PROVE  LastRun'[k] = IF LastRun[k] < DebounceSeconds THEN LastRun[k] + 1
                               ELSE DebounceSeconds
      <4>1. elapsed'[k] = IF elapsed[k] < DebounceSeconds THEN elapsed[k] + 1
                          ELSE DebounceSeconds
        BY <2>7 DEF Tick, GateTick, Older
      <4>2. burst'[k] = IF elapsed'[k] = DebounceSeconds THEN 0 ELSE burst[k]
        BY <2>7 DEF Tick
      <4>3. /\ Racing(k)' = Racing(k)
            /\ w0 \in Racing(k) => phase[w0] = "stamping" /\ w0 \in Worker
        BY <2>7 DEF Tick, Racing
      <4>4. w0 \in Racing(k) => age'[w0] = IF age[w0] < DebounceSeconds THEN age[w0] + 1
                                           ELSE age[w0]
        BY <2>7, <4>3 DEF Tick
      <4>5. /\ burst[k] \in Nat /\ elapsed[k] \in 0..DebounceSeconds
            /\ age[w0] \in 0..DebounceSeconds
        BY <2>a
      <4>6. CASE w0 \in Racing(k)
        BY <2>a, <2>c, <4>3, <4>4, <4>5, <4>6
      <4>7. CASE w0 \notin Racing(k)
        BY <2>a, <2>b, <2>c, <4>1, <4>2, <4>3, <4>5, <4>7
      <4> QED
        BY <4>6, <4>7
    <3>3. Exact!Pass
      BY <3>1, <3>2 DEF Exact!Pass, LastRun
    <3> QED
      BY <3>3 DEF Exact!Next
  <2>8. CASE UNCHANGED vars
    BY <2>8 DEF vars, gateVars, Exact!acVars, RunOf, LastRun, Holding, Racing
  <2> QED
    BY <2>1, <2>2, <2>3, <2>4, <2>5, <2>6, <2>7, <2>8, <2>9, <2>10 DEF Next, WorkerStep
<1> QED
  BY <1>1, <1>2, TypeCorrect, BurstInvariant, SerialInvariant, PTL
  DEF Spec, Exact!Spec
=============================================================================
