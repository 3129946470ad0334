----------------------------- MODULE AmpRouter -----------------------------
(***************************************************************************)
(* The AMP deployment: AmpRouterFlow.route_event and the synchronous       *)
(* RingSnapOpsFlow.kickoff, each asking the gate once, running the crew,   *)
(* and recording the execution afterwards.  The platform may run several   *)
(* kickoffs of one process at once, as threads over the one gate singleton *)
(* (the platform is not in the repository; one worker is the special case  *)
(* of a platform that does not).  A thread may lose the processor wherever *)
(* the gate reads something and then writes it: in get_gate, between       *)
(* finding no instance and installing one; in should_process, between      *)
(* reading the debounce cache and stamping it; in record_execution,        *)
(* between reading the module's count and storing it plus one.             *)
(*                                                                         *)
(* The gate's variables are those of the gate _gate_instance refers to.    *)
(* A worker that builds a gate late replaces it; the workers that hold the *)
(* gate it replaced end their kickoffs on that one, unseen by the others.  *)
(***************************************************************************)
EXTENDS EventGate, FiniteSets

CONSTANTS Worker, NoKey

ASSUME WorkerAssumption ==
    /\ IsFiniteSet(Worker)
    /\ Worker # {}
    /\ NoKey \notin Key

VARIABLES
    phase,     \* what each worker is doing
    job,       \* the key of the event it holds, NoKey when idle
    verdict,   \* the answer its gate check will give
    age,       \* of the time it read and has yet to stamp, saturated
    seen,      \* the count it read and has yet to store plus one
    built,     \* _gate_instance is not None
    burst,     \* history: runs of a key begun since its window was last open
    executed   \* history: executions of a module that its gate was to count

vars == <<gateVars, phase, job, verdict, age, seen, built, burst, executed>>

Phase == {"idle", "building", "stamping", "running", "recording", "orphaned"}

\* The workers that hold the present gate.
Holding == {w \in Worker : phase[w] \in {"stamping", "running", "recording"}}

TypeOK ==
    /\ GateTypeOK
    /\ phase \in [Worker -> Phase]
    /\ job \in [Worker -> Key \cup {NoKey}]
    /\ verdict \in [Worker -> BOOLEAN]
    /\ age \in [Worker -> 0..DebounceSeconds]
    /\ seen \in [Worker -> Nat]
    /\ \A w \in Worker :
          IF w \in Holding THEN job[w] \in Key /\ built ELSE job[w] = NoKey /\ ~verdict[w]
    /\ built \in BOOLEAN
    /\ burst \in [Key -> Nat]
    /\ executed \in [Module -> Nat]

Init ==
    /\ GateInit
    /\ flowEnabled = TRUE
    /\ phase = [w \in Worker |-> "idle"]
    /\ job = [w \in Worker |-> NoKey]
    /\ verdict = [w \in Worker |-> FALSE]
    /\ age = [w \in Worker |-> 0]
    /\ seen = [w \in Worker |-> 0]
    /\ built = FALSE
    /\ burst = [k \in Key |-> 0]
    /\ executed = [m \in Module |-> 0]

\* get_gate finds no instance and begins to build one.
FindNoGate(w) ==
    /\ phase[w] = "idle" /\ ~built
    /\ phase' = [phase EXCEPT ![w] = "building"]
    /\ UNCHANGED <<gateVars, job, verdict, age, seen, built, burst, executed>>

(***************************************************************************)
(* get_gate installs the new gate, over one another thread may have built  *)
(* meanwhile.  Those in the middle of a kickoff keep the gate they hold;   *)
(* so may a worker that had just been handed it and not asked it yet.      *)
(***************************************************************************)
InstallGate(w) ==
    /\ phase[w] = "building"
    /\ GateRestart(flowEnabled)
    /\ \E handed \in SUBSET {v \in Worker \ {w} : phase[v] = "idle"} :
          LET left == Holding \cup (IF built THEN handed ELSE {}) IN
          /\ phase' = [v \in Worker |-> IF v = w THEN "idle"
                                         ELSE IF v \in left THEN "orphaned" ELSE phase[v]]
          /\ job' = [v \in Worker |-> IF v \in left THEN NoKey ELSE job[v]]
          /\ verdict' = [v \in Worker |-> v \notin left /\ verdict[v]]
          /\ age' = [v \in Worker |-> IF v \in left THEN 0 ELSE age[v]]
          /\ seen' = [v \in Worker |-> IF v \in left THEN 0 ELSE seen[v]]
    /\ built' = TRUE
    /\ burst' = [k \in Key |-> 0]
    /\ executed' = [m \in Module |-> 0]

\* A kickoff on a replaced gate ends, whatever that gate answered and counted.
LeaveOrphan(w) ==
    /\ phase[w] = "orphaned"
    /\ phase' = [phase EXCEPT ![w] = "idle"]
    /\ UNCHANGED <<gateVars, job, verdict, age, seen, built, burst, executed>>

\* Faulty variant: the gate is asked without its debounce check.
AskGateUndebounced(w, k) ==
    /\ phase[w] = "idle" /\ built
    /\ flowEnabled
    /\ phase' = [phase EXCEPT ![w] = "stamping"]
    /\ job' = [job EXCEPT ![w] = k]
    /\ verdict' = [verdict EXCEPT ![w] = OtherChecksPass(k)]
    /\ age' = [age EXCEPT ![w] = 0]
    /\ UNCHANGED <<gateVars, seen, built, burst, executed>>

(***************************************************************************)
(* should_process up to the read of the debounce cache, with the time it   *)
(* will stamp.  A kickoff whose key is inside its window, or that finds    *)
(* the flow disabled, ends here.                                           *)
(***************************************************************************)
AskGate(w, k) ==
    /\ phase[w] = "idle" /\ built
    /\ flowEnabled /\ CheckDebounce(k)
    /\ phase' = [phase EXCEPT ![w] = "stamping"]
    /\ job' = [job EXCEPT ![w] = k]
    /\ verdict' = [verdict EXCEPT ![w] = GateAdmits(k)]
    /\ age' = [age EXCEPT ![w] = 0]
    /\ UNCHANGED <<gateVars, seen, built, burst, executed>>

\* Faulty variant: the verdict is not cleared for the next event.
ReleaseKeepingVerdict(w) ==
    /\ phase' = [phase EXCEPT ![w] = "idle"]
    /\ job' = [job EXCEPT ![w] = NoKey]
    /\ UNCHANGED verdict

Release(w) ==
    /\ phase' = [phase EXCEPT ![w] = "idle"]
    /\ job' = [job EXCEPT ![w] = NoKey]
    /\ verdict' = [verdict EXCEPT ![w] = FALSE]

(***************************************************************************)
(* The rest of should_process: the stamp is written, the answer returned.  *)
(* The stamp is the time that was read, so a thread that was held up       *)
(* closes a shorter window, or none, and may shorten another's.            *)
(***************************************************************************)
Stamp(w) ==
    /\ phase[w] = "stamping"
    /\ elapsed' = [elapsed EXCEPT ![job[w]] = age[w]]
    /\ UNCHANGED <<dailyCounts, dailyCost, budgetAlertFired, safeModeActive, flowEnabled>>
    /\ burst' = [burst EXCEPT ![job[w]] =
                     IF age[w] = DebounceSeconds THEN 0 ELSE IF verdict[w] THEN @ + 1 ELSE @]
    /\ age' = [age EXCEPT ![w] = 0]
    /\ IF verdict[w]
       THEN phase' = [phase EXCEPT ![w] = "running"] /\ UNCHANGED <<job, verdict>>
       ELSE Release(w)
    /\ UNCHANGED <<seen, built, executed>>

\* The crew returns: record_execution reads the module's count.
ReadCount(w) ==
    /\ phase[w] = "running"
    /\ LET m == ModuleOfKey(job[w]) IN
       /\ seen' = [seen EXCEPT ![w] = dailyCounts[m]]
       /\ executed' = [executed EXCEPT ![m] = @ + 1]
    /\ phase' = [phase EXCEPT ![w] = "recording"]
    /\ UNCHANGED <<gateVars, job, verdict, age, built, burst>>

\* Faulty variant: the execution is recorded once per attempt of its crew.
StoreCountPerAttempt(w) ==
    /\ phase[w] = "recording"
    /\ \E attempts \in 1..2 :
          dailyCounts' = [dailyCounts EXCEPT ![ModuleOfKey(job[w])] = seen[w] + attempts]
    /\ seen' = [seen EXCEPT ![w] = 0]
    /\ budgetAlertFired' = (budgetAlertFired \/ dailyCost >= AlertThreshold)
    /\ UNCHANGED <<elapsed, dailyCost, safeModeActive, flowEnabled>>
    /\ Release(w)
    /\ UNCHANGED <<age, built, burst, executed>>

\* It stores the count it read plus one, and no cost.
StoreCount(w) ==
    /\ phase[w] = "recording"
    /\ dailyCounts' = [dailyCounts EXCEPT ![ModuleOfKey(job[w])] = seen[w] + 1]
    /\ seen' = [seen EXCEPT ![w] = 0]
    /\ budgetAlertFired' = (budgetAlertFired \/ dailyCost >= AlertThreshold)
    /\ UNCHANGED <<elapsed, dailyCost, safeModeActive, flowEnabled>>
    /\ Release(w)
    /\ UNCHANGED <<age, built, burst, executed>>

\* The crew raises: route_event logs and raises on, kickoff logs and returns.
Fail(w) ==
    /\ phase[w] = "running"
    /\ Release(w)
    /\ UNCHANGED <<gateVars, age, seen, built, burst, executed>>

SwitchSafeMode ==
    /\ built
    /\ SetSafeMode(~safeModeActive)
    /\ UNCHANGED <<phase, job, verdict, age, seen, built, burst, executed>>

\* The platform replaces the process.
Restart(enabled) ==
    /\ GateRestart(enabled)
    /\ phase' = [w \in Worker |-> "idle"]
    /\ job' = [w \in Worker |-> NoKey]
    /\ verdict' = [w \in Worker |-> FALSE]
    /\ age' = [w \in Worker |-> 0]
    /\ seen' = [w \in Worker |-> 0]
    /\ built' = FALSE
    /\ burst' = [k \in Key |-> 0]
    /\ executed' = [m \in Module |-> 0]

\* A key whose window opens again begins a new burst.
Tick ==
    /\ GateTick
    /\ burst' = [k \in Key |-> IF elapsed'[k] = DebounceSeconds THEN 0 ELSE burst[k]]
    /\ age' = [w \in Worker |-> IF phase[w] = "stamping" /\ age[w] < DebounceSeconds
                                   THEN age[w] + 1 ELSE age[w]]
    /\ UNCHANGED <<phase, job, verdict, seen, built, executed>>

WorkerStep(w) ==
    \/ FindNoGate(w)
    \/ InstallGate(w)
    \/ LeaveOrphan(w)
    \/ \E k \in AllowedEvents \X Entity : AskGate(w, k)
    \/ Stamp(w)
    \/ ReadCount(w)
    \/ StoreCount(w)
    \/ Fail(w)

Next ==
    \/ \E w \in Worker : WorkerStep(w)
    \/ SwitchSafeMode
    \/ \E enabled \in BOOLEAN : Restart(enabled)
    \/ Tick

Spec == Init /\ [][Next]_vars

-----------------------------------------------------------------------------

\* A crew runs, and is recorded, only for an event the gate admitted.
RunningWasAdmitted == \A w \in Worker : phase[w] \in {"running", "recording"} => verdict[w]

\* A count still to be stored belongs to executions that took place.
PendingCovered ==
    \A w \in Worker : phase[w] = "recording" => seen[w] < executed[ModuleOfKey(job[w])]

(***************************************************************************)
(* Recordings that overlap lose one another's counts, and a late one puts  *)
(* a module's count back to what it was long before.  In every such        *)
(* history the count stays at or below the executions its gate was asked   *)
(* to count, so the cap is never reached early: a module is refused for    *)
(* its rate limit only after max_daily_executions of its executions.       *)
(***************************************************************************)
CountNeverAhead == \A m \in Module : dailyCounts[m] <= executed[m]

\* Workers that read an open window of k and have yet to stamp it and run.
Racing(k) == {w \in Worker : phase[w] = "stamping" /\ verdict[w] /\ job[w] = k}

\* A burst lies inside a closed window.
BurstInsideWindow == \A k \in Key : burst[k] > 0 => elapsed[k] < DebounceSeconds

(***************************************************************************)
(* Threads inside should_process together can all be admitted for one key. *)
(* Between two openings of a key's window one gate never admits more runs  *)
(* of it than there are workers: everyone who asks after the first stamp   *)
(* is turned away, for as long as the stamps of those who asked before     *)
(* leave the window closed.  A gate that a late builder installs starts    *)
(* afresh, and a process has at most one gate for each worker.             *)
(***************************************************************************)
BurstBounded ==
    \A k \in Key :
        burst[k] > 0 => burst[k] + Cardinality(Racing(k)) <= Cardinality(Worker)

\* The run AdmissionControl sees: from its admission until its count is stored.
RunOf == [w \in Worker |-> IF w \in Holding /\ verdict[w] THEN job[w] ELSE NoKey]
=============================================================================
