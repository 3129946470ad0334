# TLA+ models of ringsnap-ops-flow

This directory holds the formal models of the RingSnap operations flow: TLA+
modules translated from `src/ringsnap_ops_flow/`, the TLC configurations that
check them on small instances, and TLAPS proofs of the core results for every
instance. Paths below are relative to `src/ringsnap_ops_flow/` of the repository
unless they start with `docs/` or `tests/`.

## 1. The system

The program receives operational events (a new lead, a failed payment, a deploy,
the daily digest), decides whether an event may cost an LLM crew run, and
dispatches it to a flow. The flows talk to Supabase, Stripe, Twilio, GitHub and to
CrewAI crews.

| Component | State it keeps | Operations | Talks to |
|---|---|---|---|
| Event gate, `event_gate.py` | debounce cache, per-module daily counts, daily cost, budget-alert flag, safe-mode flag; in memory, one object per process | `should_process`, `record_execution`, safe mode on and off, `reset_daily_counters` | every entry point |
| FastAPI service, `main.py` | the event loop and its background tasks | `receive_event`, `trigger_digest`, `_process_event` | gate (twice per event), flows |
| AMP entry points, `flows/amp_router_flow.py`, `main.py` `RingSnapOpsFlow.kickoff` | threads of the platform over the gate `get_gate` hands them | `route_event`, `kickoff` | gate (once per event), crews |
| Pending signups, `deterministic/signup_handler.py`, `flows/sales_activation_flow.py` | rows of `pending_signups` in Supabase | create, checkout session, send link, webhook, resend | Supabase, Stripe, SMS |
| Account activation and recovery, `deterministic/provisioning_handler.py`, `payment_handler.py`, `flows/recovery_flow.py` | what of Stage 1 and Stage 2 an account has; the global pause flag of Stage 2 | webhook half of the sales flow, `run_stage1`, `validate_before_stage2`, `run_stage2`, recovery, pause and resume | crews, Stripe, Edge Functions |
| Repository execution lane, `execution/`, `flows/repo_execution_flow.py` | branches, commits and pull requests on GitHub | `classify`, create branch, commit patches, validate, open draft PR | GitHub |
| Funnel tracker and digest, `deterministic/funnel_tracker.py`, `flows/digest_flow.py` | none (reads the table) | breakpoints, ratios, safe-mode advice | Supabase, crew |
| Onboarding tracker, `deterministic/onboarding_handler.py` | none (writes are placeholders) | start, stall check, reopen | none yet |
| Retry helper, `deterministic/retry_handler.py` | none | `attempt_retry` | the stages |
| Crews, agents, tools; adapters; configuration; GitHub reader | none of their own | LLM calls and I/O | outside services |

What is hard about it:

* **One event, two gate checks.** `receive_event` asks the gate and queues a
  background task that asks it again; other requests, cron calls, safe-mode
  switches, clock ticks and restarts run in between, and each ask may write the
  debounce cache.
* **Check, run, count.** The gate reads a module's count, a crew runs for as long
  as it likes, and only then is the count raised. In the service one event loop
  serialises this; on a threaded platform nothing does, and every read of the gate that
  is followed by a write (its creation, the stamp, the count) may be interrupted.
* **Read, then write, over HTTP.** Every method of `SignupHandler` reads a row and
  writes it in separate requests. A failed read looks like an empty table, a failed
  write raises, and Stripe delivers its webhook again.
* **One delivery, two halves.** A delivery of Stripe's webhook writes the signup row,
  asks Stripe for the session and runs the two provisioning stages; it may end after
  any of them, the process may be replaced in between, and what the next delivery
  finds is half done.
* **A global flag read early.** Stage 2 looks at the pause flag once, before it
  starts; the flag is set by recoveries of other accounts and forgotten by a restart.
* **Many small steps on a remote system, none undone.** The lane's requests to
  GitHub may be refused, or carried out and their answer lost; branch names are
  made of a class and a second and can collide.

What makes each component correct: the gate - no more runs than the cap, no two
runs of a key within the window, safe mode obeyed, alert exactly when earned,
nobody starved; the service - all that end to end, and accepted events settled; the
AMP entry points - the same with one thread, and with several no more runs of a key than
threads and no execution refused for a cap that is not reached; signups -
the rescue cap, no row taken for paid that is not, links to the right lead,
payments never lost, and acknowledged only once they have been dealt with; activation -
Stage 2 only after Stage 1 and, as the tests say, with a payment method on file,
no half-built account reported, pauses take effect; the lane - protected files
untouched (whatever paths lead to them), unapproved branches low-risk, pull requests showing exactly one plan
of a class that may have one; the funnel tracker - no sale counted that was not made,
advice for the reasons it was meant for.

## 2. Modules

| Module | Models | Composes |
|---|---|---|
| `EventGate` | the gate's state and its methods, as operators | |
| `GateApi`, `MCGateApi` | the gate under any caller | `EventGate` |
| `AdmissionControl` | abstract: runs per module within a quota, runs of a key spaced | |
| `OpsService`, `MCOpsService` | the FastAPI service | `EventGate`, implements `AdmissionControl` |
| `OpsDay`, `MCOpsDay` | one day of the service: what the crews really cost, what was recorded over all processes of the day | `OpsService` |
| `AmpRouter`, `MCAmpRouter` | concurrent kickoffs | `EventGate`, implements `AdmissionControl` with one worker |
| `PendingSignups`, `MCPendingSignups` | the signup table, its callers, Stripe and the Edge Functions | |
| `Funnel`, `MCFunnel` | the funnel's rates and its advice, over the moving table | `PendingSignups` |
| `Activation`, `MCActivation` | two-stage provisioning, the pause flag, recovery | |
| `Fulfilment`, `MCFulfilment` | the webhook's delivery from payment to account, until Stripe has its acknowledgement | `PendingSignups` and `Activation`, implements both |
| `ReviewQueue` | abstract: pull requests that never change | |
| `RepoLane`, `MCRepoLane` | the execution lane against one repository | implements `ReviewQueue` |
| `GateApiProofs`, `OpsServiceProofs`, `AmpRouterProofs`, `PendingSignupsProofs`, `ActivationProofs`, `RepoLaneProofs`, `FulfilmentProofs`, `FunnelProofs` | theorems and proofs | each extends its component; `OpsServiceProofs` extends `OpsDay`, and with it `OpsService`; `FulfilmentProofs` and `FunnelProofs` extend `PendingSignupsProofs` as well |

State and actions follow the code:

* **EventGate.** `dailyCounts`, `dailyCost`, `budgetAlertFired`, `safeModeActive`
  are the attributes of the same names. `elapsed[k]` is the age of the stamp in
  `_debounce_cache`, saturated at `DebounceSeconds`: the code only compares an age
  with that number, so "never stamped" and "stamped long ago" are one state, and
  time needs no bound. `StampDebounce` stamps the key even if another check denies
  the event, because the code evaluates all five checks before it looks at the
  first; only the kill switch `OPS_FLOW_ENABLED` returns before them.
* **OpsService.** A slot is a request: `ReceiveEvent` and `TriggerDigest` queue its
  background task, `StartTask` is `_process_event` up to the dispatch,
  `FinishTask` and `FailTask` are the flow returning and raising. `_process_event`
  has no `await`, so `LoopFree` keeps every other handler out while a task runs;
  the clock is not kept out. `Restart` loses the gate, the queue and the run.
* **OpsDay.** The service with accounts that outlive a process: `spentToday` for the
  provider's bill, `recordedToday` for what `record_execution` was told by all
  processes of the day, `restarts` for how many there were.
* **AmpRouter.** A thread may be interrupted wherever the gate reads and then writes.
  `FindNoGate` and `InstallGate` are the two halves of `get_gate`: a thread that builds
  a gate late replaces the one that others hold, and their kickoffs end unseen on the
  old one (`orphaned`). `AskGate` reads the clock and the debounce cache, `Stamp` writes
  the time that was read, which may be old by then (`age`). `ReadCount` and `StoreCount`
  are the two halves of `record_execution`: counts get lost, and a late thread puts a
  count back. `Fail` is a crew that raises. The gate's variables are those of the
  present gate, and so are the histories `burst` and `executed`. The platform is not
  part of the repository: that it runs kickoffs concurrently is an assumption, and one
  worker is the instance where it does not.
* **PendingSignups.** Each database request is a step of its own; `at` says where a
  call is, `holds` and `seen` what it read. The link a row has is a flag; whether a
  checkout session is paid is Stripe's (`CustomerPays`). Statuses after
  `checkout_completed` belong to Edge Functions outside the repository
  (`Platform`): `expired` stands for `failed` too. A webhook finds its row by
  `stripe_checkout_session_id`, and nothing under `src/` writes that column:
  `create_checkout_session` stores the link without the session's id. `stored[i]` says
  whether somebody outside has (`StoreSession`, of the session that was paid), at any
  time after the payment or never; until then
  `MatchSession` finds no row, the call answers `None`, and the flow goes on to the
  stages all the same. A row has one session that matters, the one that was paid; that
  a duplicate makes more of them is finding 4. The three calls fail in their own ways: a query that fails is
  an empty answer (`QueryFails`), an upsert that fails raises (`UpsertFails`,
  `UpsertRaises`), Stripe refuses a session (`StripeRaises`), and an SMS that Twilio
  refuses is answered `False`, which `send_checkout_link` does not look at: the rescue
  counts a link that never arrived (`ResendLink`). `Restart` loses every call.
* **Funnel.** No state of its own, like the code: the tracker counts the rows of the
  table by status, and each rate is a comparison of two counts with a threshold. The
  thresholds are those of `config/ops_config.yaml`, in percent.
* **Activation.** `ready` and `built` are what the Edge Functions behind the
  stages have done, `paused` is `_STAGE2_GLOBALLY_PAUSED`. `attempt_retry` calls a
  stage again only after an exception, and both stages turn exceptions into the
  answer `False`; so the model has one attempt per stage, and the branch that marks
  an account for manual review is not reachable and not modelled. Neither is the branch
  that pauses Stage 2 because a payment method is missing: the flow builds its
  `PaymentHandler` without Stripe, whose answer is then `True` for every session, and with
  Stripe it would be the list of types a session accepts, which is never empty. So
  nothing is asked on the way to Stage 2, and `OnFile`, the customers who do have a
  method on file at Stripe, appears in no action (finding 6). The other helpers take their
  placeholder branches today; the model lets each of them fail, as it may once an
  adapter is passed.
* **Fulfilment.** `SalesActivationFlow.handle_checkout_completed` as a whole. `hook`
  is the payment a worker's delivery is about: `ReceiveWebhook` is the lookup,
  `RecordPayment` the write of the row, `StartStages` the payment handler's answer and
  the way into the stages, `RunStages` each of them. However the stages end, the call
  returns, and Stripe has its answer (`Acknowledge`, `owed`); only a write or a
  request to Stripe that raises (`FailDelivery`) and a lost process (`Crash`) make it
  deliver again. The stages are `Activation`'s actions and the table `PendingSignups`'s
  actions, joined and not rewritten. The route that receives the webhook is not under
  `src/`: that it answers Stripe with the outcome of the call, and passes the account
  of the customer along, is an assumption, and so is that Stripe reports a checkout as
  completed only when it is (`CustomerPays`). Each row has one account, named like it.
  The flow builds its `SignupHandler` without a database too; it is modelled with one, as
  the handler's live branch is what the schema and the documents describe.
* **RepoLane.** One action per request to GitHub; each may also carry out its work
  and lose the answer, or be refused (`RequestFails`). `grant` is a history
  variable: the approval under which a branch was made. Two things that look alike are
  kept apart. The policy compares *paths*, as the plan spells them (`Path`, with the
  sets `BlockedPaths` and `LowRiskPaths`), while a commit changes the *file* the request's
  URL leads to (`FileOf`), and two paths may lead to one file. And a branch is named
  after its class with underscores replaced (`NameOf`), so two classes may share a name.

`Faulty variant` operators are mutations of the definition below them, used to
confirm that the properties notice such a bug; no specification refers to them.

## 3. Runs

| Run | Question | Size and bounds |
|---|---|---|
| `gate_api` | Does the budget alert follow the cost, does a debounce window close on time, and is a persistent sender admitted again and again? | 6,750 states; 2 keys, 2 modules, costs 0-2, budget 3 with alert at 2, so a single call may jump over both |
| `ops_service` | Cap, spacing, safe mode, settlement, and refinement of `AdmissionControl` | 106,632 states; 2 requests in flight, 2 event types with their modules, window of 2 s |
| `ops_debounce` | *violation*: an accepted event is dropped only as a repeat | finding 1 |
| `day_budget` | *violation*: the budget blocks runs | finding 2 |
| `amp_router` | Counts never ahead of executions, burst of one window, with gates replaced and counts lost | 636,028 states; 3 workers, 2 keys of one module with a cap below the workers, window of 2 s |
| `signups` | Rescue counter, paid statuses, recipients of links, with failing database calls and restarts | 3,496,907 states; 2 callers, 2 rows, 2 customers, one rescue, none begun after two links; reads and writes may fail |
| `signups_live` | From payment to account: acknowledged only when done, each payment goes through the stages and, its session stored, reaches its row; nothing is built unpaid or out of order, activation is complete, pauses take effect, and provisioning implements `Activation` | 102,468 states; 2 workers, 1 row with its account, 2 steps of Stage 2; writes raise, queries are answered (`QueryFails` is FALSE), the process is replaced |
| `signups_webhook` | *violation*: the webhook is idempotent | finding 3 |
| `signups_duplicate` | *violation*: no checkout for a customer who has paid | finding 4 |
| `funnel_pause` | *violation*: a pause is advised when the checkout rate drops | finding 5 |
| `stage2_gate` | *violation*: Stage 2 is blocked without a payment method | finding 6 |
| `repo_lane` | Protected files, unapproved branches, pull requests of the right class, refinement of `ReviewQueue` | 28,523 states; 2 runs, 2 seconds, 6 plans of 3 classes (patched automatically, approval needed whatever it touches, blocked), two of them with one branch name, and two paths to one file |

Why the bounds are enough. Every hazard here needs at most two parties over one
key, row, account or branch; the runs have two, and three where a count depends on
the number of workers. Two keys or rows show that parties do not mix them up. A
window of two seconds has an inside, an edge and an outside; time is not bounded.
Caps are small enough to be reached and raced for. Counters have no bound of their own
in the service: the cap stops them. Where something would grow for ever it is
bounded in a guard and named: `CostBound` and `CountBound` (`GateApi`),
`SpendBound` and `RestartBound` (`OpsDay`), `ResentBound` and the
number of rows (`PendingSignups`; no rescue *begins* once `ResentBound` links are out,
those in progress may still send theirs), `LastSecond` (`RepoLane`). Symmetry is used only
in runs that check no liveness, over sets no property singles a member out of. No run switches deadlock checking off.

Fairness, and what justifies it. In `OpsService`, strong fairness of `StartTask`
(the event loop takes ready tasks in turn) and weak fairness of a run's end (crews
return or raise; nothing in the code bounds how long they take). In `GateApi`, the
clock runs and the sender keeps asking - the hypothesis of the property. In
`PendingSignups`, a call that has begun goes on (HTTP timeouts), and Stripe delivers
a webhook until a delivery succeeds; no lead, rescue or customer is obliged to act.
`Fulfilment` assumes the same of a delivery as a whole: strong fairness of the delivery
of what Stripe is owed, of the write and of the payment handler's answer (they may raise
again and again, but not for ever), weak fairness of a call in progress, and `<>[][~Crash]`,
that the process is not replaced for ever - it may be at any point, and any number of
times. Under the same fairness a flow that was validated before a pause drains
(`PauseTakesEffect`). In `Activation` alone, a flow that has begun goes on. Nothing obliges
anybody to store a session or to resume Stage 2. `AmpRouter` and `RepoLane` state safety
only and assume none.

## 4. Findings

1. **Accepted, then dropped by its own stamp** (`ops_debounce`). `receive_event`
   asks the gate, which stamps the key; the background task asks again within the
   same window and is denied. A comment says the debounce is re-set; nothing does.
2. **The budget blocks nothing** (`day_budget`). Both callers of `record_execution`
   leave `cost_usd` out, so the cost stays 0, against `docs/runbooks/cost_spike.md`.
3. **The webhook is not idempotent** (`signups_webhook`). Only a row that reads
   `checkout_completed` is left alone; a late repeat throws an account that has
   moved on back to it.
4. **A paid customer gets a second checkout** (`signups_duplicate`). The sales flow
   takes the duplicate row it was warned of and makes a session for it.
5. **Lost customers leave the rate** (`funnel_pause`). The checkout rate counts rows by
   their present status, and is 1 when no row reads `link_sent`; once the customers who
   were sent links have let them expire, no pause is advised, against
   `docs/runbooks/outbound_pause.md`. The tracker's query is limited to rows of the last
   24 hours, and links expire after 48: a row then leaves the query altogether, with the
   same answer.
6. **Nobody asks for a payment method** (`stage2_gate`). The gate before Stage 2 is
   passed an answer that is `True` whatever the customer has on file
   (`sales_activation_flow.py:202`, `payment_handler.py:70-76`);
   `has_payment_method_on_file`, the "critical gate before Stage 2 provisioning", has no
   caller. `tests/test_provisioning_handler.py:43` says that Stage 2 must be blocked then,
   and tests the gate by passing it the other answer.

Smaller observations that no run is needed for: a payment whose session matches no row is
acknowledged and its row is never written (only a warning is logged), and today that is
every payment, since nothing stores the session; `StoredPaymentHandedOff` says what does
hold. On a threaded platform the cap is not only overshot by the runs in flight: counts
are lost as well, so no number of runs bounds the error (`CountNeverAhead` says that it
is on that side only). The policy of the lane compares the spelling of a path with its
prefixes (`policy.py:79-85`), GitHub writes the file the URL leads to
(`github_pr_writer.py:81`), and nothing brings a path to one spelling; so
`ProtectedFilesUntouched` and `UnapprovedStaysLowRisk` speak of files through the paths
that lead to them, and a file is as safe as the least protected of its paths. The docstring of the gate has its
counters backed by Supabase, while they live in memory, so `max_daily_executions` holds
per process lifetime (`DailyCapHeld` speaks of just that); and the digest builds its
tracker without a database, so it reports the stub's constants, whose activation rate
lies under the threshold, and advises a pause every day, while it reports the pause of
Stage 2 from its own new state, so never. `max_rescue_attempts` bounds the counter and
not the links (two rescues that overlap send two), and a message that Twilio refused
counts as sent, so the alert for a failed link cannot be raised. The total cap and the
cooldowns of `config/ops_config.yaml` are read by nothing. And a payment whose Stage 2
fails or is blocked is acknowledged all the same: `handled` in `Fulfilment` says that a
delivery has taken it through the stages, not that they succeeded, and nothing under
`src/` tries again.

Stating what holds of the signups turned up a limit, too: even with one caller at a time
a customer may come to have two *active* rows. A row expires, the customer's next lead
gets a new one, and then pays the link of the old one, which the webhook takes back
from `expired` to `checkout_completed`. So the bound that is proved counts *open*
signups, active and not paid for.

## 5. Proofs

`OpsServiceProofs` proves, for every set of requests, event types, entities and
modules, and every cap and window that `GateAssumption` and `ServiceAssumption`
allow:

* `TypeCorrect`: `Spec => []TypeOK`.
* `GateChecksInvariant`: `Spec => []GateChecksHold`. `DailyCapHeld` alone is not
  inductive: a run that ends raises the count, so there must be room while it runs
  (`RoomWhileRunning`); that room is kept only because no other run can take it
  (`OneRunner`); and spacing needs a stamp that is never older than the key's last
  run (`StampCoversRun`), which a restart and a denied repeat must keep as well.
  The conjunction is inductive, one step per action.
* `CapTheorem`, `SpacingTheorem`, `SafeModeTheorem`: the properties of the run
  `ops_service`, the last two from `StartIsAdmitted`: whatever starts was admitted
  by the gate in that very step.
* `Refinement`: `Spec => ImplementsAdmission`, under the refinement mapping that
  takes a running request for a runner; every step is a step of
  `AdmissionControl` or a stutter.
* `BudgetIdleTheorem`: the budget check passes every event and the alert is never
  raised, for every budget and threshold, since every cost that is recorded is 0
  (`NothingSpent`). It is finding 2 for every instance; `AmpRouterProofs` has its twin.
* `DayIsService`, which carries all of this to a day with any number of restarts, and
  `DayCapTheorem` (`DayCapHeld`): on a day with `r` restarts a module's recorded
  executions are at most `r + 1` times its cap. `DayInv` keeps the account: what was
  recorded is at most one cap for each forgotten counter and the present counter. It is
  proved and not the subject of a run.

`GateApiProofs` proves `TypeCorrect`, `WindowTheorem` and `AlertTheorem`. An open debounce
window closes by the clock or the daily reset alone, so that no number of repeats
extends it (`WindowClosesOnTime`, the safety half of `PersistentSenderAdmitted`). It is
the gate's, called without interruption: in `AmpRouter` a thread that stamps late may
well extend a window that another opened. The alert follows the cost for
all costs and every threshold above 0. With a threshold of 0 it is false at the start,
when nothing has been recorded and the alert has not fired.

`AmpRouterProofs` proves, for every finite, nonempty set of workers:

* `TypeCorrect`, and `CountTheorem` (`CountNeverAhead`): however recordings overlap, a
  module's count never passes the executions there were. It is inductive together with
  `PendingCovered`: a count that was read is still below the executions when it is
  stored, since its reader is one of them.
* `BurstTheorem`: a gate lets at most as many runs of one key through between two
  openings of its window as there are workers. `BurstInsideWindow` makes it inductive: a
  burst exists only while the window is closed, and then nobody joins the race for the
  key. A process builds at most one gate per worker (each worker that found none builds
  one), and each starts with open windows.
* `SerialRefinement`: with exactly one worker (the hypothesis, `Worker = {w0}`) the router
  implements `AdmissionControl` with the exact cap and window - the promise `OpsService`
  keeps with its event loop. What the AMP platform loses it loses to concurrency alone.
  The run begins when the gate admits it, which is the time it stamps (`LastRun`). With
  nobody else to write the cache, the window a worker found open is still open when it
  stamps the key (`StampsOpenWindow`), and the count it read is still the count when it
  stores it (`RoomIsLeft`).

`PendingSignupsProofs` proves `TypeCorrect` and, for every set of callers, rows and
customers, three properties that rest on what a call in progress knows of its row, and
a bound that rests on counting:

* `RescueTheorem`: a rescue has read a count below the cap, and the links sent are
  ahead of that count by one once its own is out (`RescueKnows`).
* `PaidTheorem`: a webhook in progress holds a row that is paid (`WebhookKnows`), and
  payment is never taken back.
* `LeadTheorem`: the row a sales flow holds exists (`FlowRowExists`), and an existing
  row does not change its owner.
* `OpenSignupsTheorem`: a customer never has more open signups (active rows, not paid
  for) than there are callers, and `SerialSignupsTheorem`: with one caller at most one.
  The hypotheses: finitely many callers, and queries that are answered - a failed
  query finds no row, so each one may add a signup. `OpenInv` makes the bound
  inductive: it also counts callers that have found no row and will insert one
  (`Taking`), and expired rows that a caller still holds and will write `link_sent` to
  (`Candidates`). The lookup is the step that matters: when it finds no active row, every
  candidate is held by one caller, and that caller is not the one that looks.

`FunnelProofs` says what the tracker's numbers mean, over any finite table, any
number of callers and any thresholds (percentages, where a rate is compared):

* `ConversionTheorem`: rows counted at or past `checkout_completed` are no more than the
  customers whose checkout Stripe completed. It follows from `PaidTheorem`, the four sets
  of rows being disjoint (`DisjointCounts`).
* `AdviceTheorem`: no advice comes of a table in which no row reads `link_sent`,
  `checkout_completed` or `account_created`, whatever was lost before: finding 5 for
  every table and every threshold.
* `FirstPaymentTheorem`: the opposite error. While a row reads `checkout_completed` and
  none reads `activated`, the pause is advised - the first customer who pays sets it off.
* `LossTheorem`: a customer who gives up never turns the advice on; the step only takes a
  row out of the whole of the checkout rate. What can turn it on is a row that comes to
  read `link_sent`, or one that reaches or leaves `checkout_completed` or a later status.

`ActivationProofs` proves `TypeCorrect`, `Stage2Theorem` (`Stage2AfterStage1`) and
`ActivatedTheorem` for all flows, accounts and numbers of Stage 2 steps, from
`ActivationInv`: past Stage 1 a flow's account is ready (`FlowKnows`), and that knowledge
does not go stale since no step undoes a stage. What they suppose of the constants is their
hypothesis (`ActivationAssumption`); `FulfilmentProofs` discharges it for the joined
system, whose run checks these properties.

`RepoLaneProofs` proves, for all runs and plans:

* `TypeCorrect`.
* `LaneInvariant`, the inductive `LaneInv`: a run was let through by the policy
  (`RunAdmitted`); from creating its branch to opening its pull request it owns the
  branch - its approval, its patches and no others, no pull request yet
  (`BranchOwned`); no two runs hold one branch (`NoSharing`); a branch that does not
  exist is empty (`NothingElsewhere`); and a pull request is opened only when all
  patches are committed (`WholeWhenOpening`).
* `ProtectedTheorem`, `UnapprovedTheorem`: from `RunAdmitted` and `BranchOwned`. What is
  committed is the file that a path of an admitted plan leads to; so a file to which
  only blocked paths lead is never reached, and a branch without approval holds only
  files that a low-risk path leads to.
* `PullRequestTheorem`: a pull request shows patches of one class, not a blocked one, whose
  name its branch bears, and that class needed no approval or the run that made the branch
  had it. On top of `LaneInv` it needs that a run's branch is named after its plan
  (`BranchNamed`); that classes share names does no harm, since the branch has one owner.
* `Refinement`: `Spec => ImplementsReviewQueue`, since the branch of an open pull
  request is held by nobody.

`FulfilmentProofs` proves, for all workers, rows and numbers of Stage 2 steps, and with
queries that may fail as well:

* `SignupsRefinement` and `ActivationRefinement`: the joined system implements
  `PendingSignups` and `Activation`, each step of it being one of theirs or a stutter. So
  every theorem about either half holds of the whole (`ActivationCarriesOver`), and is
  used, not proved again.
* `FulfilmentTypeCorrect`, with `DeliveryTypeOK`: a delivery is inside `SignupHandler`
  with the row of its payment, or inside the stages with its account, never both.
* `PaidForTheorem` and `AcknowledgedTheorem`, from the inductive `DeliveryInv`. Neither
  property is inductive alone: that Stage 2 is built for a paid account follows from what
  the delivery that builds it knows (`DeliveryKnows`: its payment was made and, once out
  of `SignupHandler`, its row is no longer due), and so does that the payment is dealt
  with when Stripe is answered. That knowledge stays true since no step takes a payment
  back and only a new payment, of which there is one per row, makes a row due.
* `StagesTheorem`: the stages come in order and activation is complete here as well,
  carried over from `ActivationProofs`, and `ActivatedIsPaidFor`: an account reported as
  activated is paid for and has every step of both stages behind it, facts from both
  halves.

Only model-checked: the liveness properties `PersistentSenderAdmitted`,
`AcceptedSettles`, `StoredPaymentHandedOff`, `PaidIsHandled` and `PauseTakesEffect` (TLAPS proves neither
liveness under fairness nor facts about ENABLED), and the six findings, which are
counterexamples (what of findings 2 and 5 holds of every instance is proved, as
above). The other way round, these are proved and not the subject of a run, though TLC
confirmed each on small instances first: `DayCapHeld`, the bounds on open signups,
`SerialRefinement`, `BudgetIdleTheorem`, `ActivatedIsPaidFor` and the theorems of `FunnelProofs`. No module
declares a RECURSIVE operator.

## 6. Not modelled

* Prompts and answers of the crews, formatting, telemetry and logging: an answer
  is a nondeterministic choice where a flow depends on it.
* The adapters and the GitHub reader: wrappers without state. The ways Supabase, Stripe
  and Twilio fail are modelled where `SignupHandler` and the webhook call them.
* `PaymentHandler.activate_trial` and `handle_payment_failure`, and
  `expire_stale_pending_signups`: no caller, or a placeholder.
* `OnboardingHandler`: its writes are placeholders, its one test compares dates.
* `reset_daily_counters`, the safe-mode switches and `resume_stage2` have no caller
  under `src/`; the first is checked in `GateApi`, the others are actions of an
  operator. `OpsService` has no daily reset because the program has none.
* The digest: it reads constants (section 4) and the gate's getters.

## 7. Plan

Done: the gate and its two deployments, a day of the service, signups, activation and
the two joined from payment to account, the funnel over the moving table, and the
execution lane, each checked, and each with its safety properties and refinements
proved. In this order, next:

1. The promise of `retry_handler` (attempt again, then manual review) as an abstract
   specification, against stages that answer `False` instead of raising, and
   `Fulfilment` with a caller that tries a failed Stage 2 again.
2. `OnboardingHandler` next to `Activation`: `start_onboarding` after Stage 2 and the
   stall check, when its writes are more than placeholders.
3. `OpsService` and `RepoLane` composed: the deploy event whose crew is a run of the
   lane, while operators run the lane's wrappers from processes of their own.
