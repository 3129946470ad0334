----------------------------- MODULE OpsService -----------------------------
(***************************************************************************)
(* The FastAPI service of main.py: POST /ops/event asks the gate and, when *)
(* it admits the event, queues a background task that asks the gate again  *)
(* before it runs the crew; POST /ops/digest queues the task without       *)
(* asking.  Handlers and background tasks share one event loop.            *)
(* _process_event contains no await, so from its gate check to its last    *)
(* line no other handler runs, though time passes; between the answer to a *)
(* request and its background task any other handler may run.              *)
(***************************************************************************)
EXTENDS EventGate

CONSTANTS
    Slot,       \* requests that may be in flight at once
    DigestKey,  \* the key of the event POST /ops/digest builds
    NoKey

ASSUME ServiceAssumption ==
    /\ DigestKey \in AllowedEvents \X Entity
    /\ NoKey \notin Key

VARIABLES
    phase,      \* where each request's event stands
    job,        \* the event it holds, NoKey when idle
    sinceRun    \* history: age of each key's last crew run in this process

vars == <<gateVars, phase, job, sinceRun>>

TypeOK ==
    /\ GateTypeOK
    /\ phase \in [Slot -> {"idle", "queued", "running"}]
    /\ job \in [Slot -> Key \cup {NoKey}]
    /\ \A s \in Slot : job[s] = NoKey <=> phase[s] = "idle"
    /\ sinceRun \in [Key -> 0..DebounceSeconds]

\* Faulty variant: background tasks run in a thread pool.
LoopShared == TRUE

LoopFree == \A s \in Slot : phase[s] # "running"

Enqueue(s, k) ==
    /\ phase' = [phase EXCEPT ![s] = "queued"]
    /\ job' = [job EXCEPT ![s] = k]

\* Faulty variant: the finished event stays attached to its request.
ReleaseKeepingJob(s) ==
    /\ phase' = [phase EXCEPT ![s] = "idle"]
    /\ UNCHANGED job

Release(s) ==
    /\ phase' = [phase EXCEPT ![s] = "idle"]
    /\ job' = [job EXCEPT ![s] = NoKey]

Init ==
    /\ GateInit
    /\ flowEnabled = TRUE
    /\ phase = [s \in Slot |-> "idle"]
    /\ job = [s \in Slot |-> NoKey]
    /\ sinceRun = [k \in Key |-> DebounceSeconds]

-----------------------------------------------------------------------------

(***************************************************************************)
(* receive_event, from the gate check to the response.  An event whose     *)
(* type is not an OpsEventType is answered 422 before the gate sees it, so *)
(* k ranges over the allowed types.                                        *)
(***************************************************************************)
ReceiveEvent(s, k) ==
    /\ LoopFree
    /\ phase[s] = "idle"
    /\ \/ ShouldProcess(k, TRUE) /\ Enqueue(s, k)
       \/ ShouldProcess(k, FALSE) /\ UNCHANGED <<phase, job>>
    /\ UNCHANGED sinceRun

\* trigger_digest queues the cron job's event unconditionally.
TriggerDigest(s) ==
    /\ LoopFree
    /\ phase[s] = "idle"
    /\ Enqueue(s, DigestKey)
    /\ UNCHANGED <<gateVars, sinceRun>>

\* Faulty variant: the task trusts the check made when the event came in.
StartTaskUnchecked(s) ==
    /\ LoopFree
    /\ phase[s] = "queued"
    /\ phase' = [phase EXCEPT ![s] = "running"]
    /\ sinceRun' = [sinceRun EXCEPT ![job[s]] = 0]
    /\ UNCHANGED <<gateVars, job>>

\* Faulty variant: a task the gate denies goes back to the queue.
StartTaskRequeuing(s) ==
    /\ LoopFree
    /\ phase[s] = "queued"
    /\ \/ /\ ShouldProcess(job[s], TRUE)
          /\ phase' = [phase EXCEPT ![s] = "running"]
          /\ sinceRun' = [sinceRun EXCEPT ![job[s]] = 0]
       \/ ShouldProcess(job[s], FALSE) /\ UNCHANGED <<phase, sinceRun>>
    /\ UNCHANGED job

\* _process_event up to the dispatch: the second gate check.
StartTask(s) ==
    /\ LoopFree
    /\ phase[s] = "queued"
    /\ \/ /\ ShouldProcess(job[s], TRUE)
          /\ phase' = [phase EXCEPT ![s] = "running"]
          /\ sinceRun' = [sinceRun EXCEPT ![job[s]] = 0]
          /\ UNCHANGED job
       \/ /\ ShouldProcess(job[s], FALSE)
          /\ Release(s)
          /\ UNCHANGED sinceRun

\* The dispatched flow returns: the execution is recorded, at no cost.
FinishTask(s) ==
    /\ phase[s] = "running"
    /\ RecordExecution(ModuleOfKey(job[s]), 0)
    /\ Release(s)
    /\ UNCHANGED sinceRun

\* The dispatched flow raises: logged, and nothing is recorded.
FailTask(s) ==
    /\ phase[s] = "running"
    /\ Release(s)
    /\ UNCHANGED <<gateVars, sinceRun>>

\* activate_safe_mode and deactivate_safe_mode, called by an operator.
SwitchSafeMode ==
    /\ LoopFree
    /\ SetSafeMode(~safeModeActive)
    /\ UNCHANGED <<phase, job, sinceRun>>

(***************************************************************************)
(* The container restarts, on a crash or to change OPS_FLOW_ENABLED: the   *)
(* gate singleton, the queued tasks and any run in progress are gone.      *)
(***************************************************************************)
Restart(enabled) ==
    /\ GateRestart(enabled)
    /\ phase' = [s \in Slot |-> "idle"]
    /\ job' = [s \in Slot |-> NoKey]
    /\ sinceRun' = [k \in Key |-> DebounceSeconds]

Tick ==
    /\ GateTick
    /\ sinceRun' = Older(sinceRun)
    /\ UNCHANGED <<phase, job>>

SlotStep(s) ==
    \/ \E k \in AllowedEvents \X Entity : ReceiveEvent(s, k)
    \/ TriggerDigest(s)
    \/ StartTask(s)
    \/ FinishTask(s)
    \/ FailTask(s)

Next ==
    \/ \E s \in Slot : SlotStep(s)
    \/ SwitchSafeMode
    \/ \E enabled \in BOOLEAN : Restart(enabled)
    \/ Tick

Spec == Init /\ [][Next]_vars

(***************************************************************************)
(* The event loop takes ready tasks in order, so a task that is ready      *)
(* whenever the loop is free gets its turn; and the crews return or raise  *)
(* (nothing in the code bounds how long they take).                        *)
(***************************************************************************)
Fairness ==
    \A s \in Slot : SF_vars(StartTask(s)) /\ WF_vars(FinishTask(s) \/ FailTask(s))

FairSpec == Spec /\ Fairness

-----------------------------------------------------------------------------

StartsRun(s) == phase[s] = "queued" /\ phase'[s] = "running"
DroppedAtStart(s) == phase[s] = "queued" /\ phase'[s] = "idle"

(***************************************************************************)
(* However many events of a module were accepted while it was below its    *)
(* cap, the second gate check keeps the executions recorded in one process *)
(* lifetime within max_daily_executions.                                   *)
(***************************************************************************)
DailyCapHeld == \A m \in Module : dailyCounts[m] <= MaxDaily[m]

\* The event loop runs one task at a time,
OneRunner ==
    \A s, t \in Slot : phase[s] = "running" /\ phase[t] = "running" => s = t

\* so the room under the cap that its gate check saw is still there,
RoomWhileRunning ==
    \A s \in Slot :
        phase[s] = "running" => dailyCounts[ModuleOfKey(job[s])] < MaxDaily[ModuleOfKey(job[s])]

\* and a key's stamp is never older than its last run.
StampCoversRun == \A k \in Key : elapsed[k] <= sinceRun[k]

(***************************************************************************)
(* The inductive invariant behind the cap and the spacing: what the gate   *)
(* checked before a run still holds at its end, over every interleaving of *)
(* requests, cron calls, clock and restarts.                               *)
(***************************************************************************)
GateChecksHold == OneRunner /\ RoomWhileRunning /\ DailyCapHeld /\ StampCoversRun

(***************************************************************************)
(* Two crew runs of the same event type and entity start at least          *)
(* debounce_seconds apart, whichever requests, duplicates or cron calls    *)
(* brought them and however long they waited in the background queue.      *)
(***************************************************************************)
RunsSpaced ==
    [][\A s \in Slot : StartsRun(s) => sinceRun[job[s]] = DebounceSeconds]_vars

(***************************************************************************)
(* Once safe mode is on, no non-critical crew starts, not even for an      *)
(* event that was accepted before the operator turned it on.               *)
(***************************************************************************)
SafeModeRespected ==
    [][\A s \in Slot :
        StartsRun(s) /\ safeModeActive => ModuleOfKey(job[s]) \in CriticalModules]_vars

(***************************************************************************)
(* An event answered "accepted" does not stay in the background queue: its *)
(* task gets the event loop and is run, dropped, or lost with the process. *)
(***************************************************************************)
AcceptedSettles ==
    \A s \in Slot : phase[s] = "queued" ~> phase[s] # "queued"

\* What each request's task is running, for the abstract runners.
RunOf == [s \in Slot |-> IF phase[s] = "running" THEN job[s] ELSE NoKey]

(***************************************************************************)
(* The service implements AdmissionControl exactly: the quota is           *)
(* max_daily_executions and the spacing debounce_seconds.                  *)
(***************************************************************************)
Admission == INSTANCE AdmissionControl WITH
    Runner <- Slot, Quota <- MaxDaily, Spacing <- DebounceSeconds,
    run <- RunOf, used <- dailyCounts, since <- sinceRun

ImplementsAdmission == Admission!Spec

(***************************************************************************)
(* The documented meaning of the debounce: it drops an event because the   *)
(* same event fired within the window.  An accepted event that every other *)
(* check admits may then be dropped only if its key ran less than          *)
(* debounce_seconds ago.                                                   *)
(***************************************************************************)
DroppedOnlyAsRepeat ==
    [][\A s \in Slot :
        (DroppedAtStart(s) /\ OtherChecksPass(job[s]) /\ flowEnabled')
            => sinceRun[job[s]] < DebounceSeconds]_vars
=============================================================================
