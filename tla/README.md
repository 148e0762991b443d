# A TLA+ model of maverick-builds-app

The repository is a planning platform written in Go as a modular monolith: a
gateway (`src/cmd/gateway`, two replicas in `src/deploy/k8s/base`) serves the
API, an integration worker (`src/cmd/integration`) executes connector runs, and
PostgreSQL holds all state. There is no message broker: queues, leases,
schedules and workflow state are rows, and what runs concurrently are SQL
statements of several processes, goroutines and requests. That is where the
system is hard, and what this project models.

## Inventory

| Component | State | Operations | Interacts with | What is hard | What makes it correct |
|---|---|---|---|---|---|
| Integration run queue and runner (`internal/integration/store.go`, `runner.go`, `model_link.go`, `events.go`, `cmd/integration/main.go`) | `integration_run` rows: status, `claimed_by`, `lease_until`, `meta.cancel_requested` | enqueue, claim, heartbeat, execute (pull, push, model link), cancel, finish, dispatch the event | gateway (enqueue, cancel, model links), schedules, remote systems, automation rules | leases, crashes, 30-minute timeouts, shutdown, re-execution | one attempt can write at a time, settled runs stay settled, cancels survive, one event, every run settles |
| Connector schedules (`store.go`, `fireDue` in `main.go`) | `integration_schedule` rows, the `(integration, scheduled_for)` index | save, arm, disarm, poll, check overlap, enqueue, advance | run queue, model revisions | replicas, read-then-write over several statements, minute boundaries | one run per fire time, nothing swallowed, no overlap, no schedule stalls |
| Workflow engine (`internal/workflow/store.go`, `cancel.go`, `record_status.go`) | instance, step rows, automation execution, record status | start, decide, route, join, rework, automatic steps, reconcile, close, cancel | gateway, automation rules, records, calculation | a cascade of statements outside any transaction, errors swallowed, concurrent decisions | decisions stand, joins wait, dead branches and only those are skipped, runs end |
| Rule scheduler (`internal/workflow/scheduler.go`, `TriggerScheduledRule`) | `next_fire_at`, execution rows | claim due rules, fire with retries | workflow engine | crash after the claim, misfires, retries | a tick fires at most once, none is lost silently |
| Definition validation (`internal/workflow/validate.go`) | none | validate a graph | workflow engine | finding every automatic loop | no publishable graph spins |
| Recalculation (`internal/calculation/queue.go`, `scheduler.go`, `incremental.go`, `store.go`, `pending.go`, `internal/gateway/recalc_state.go`) | per gateway a queue: running, pending batch, pass numbers, kept errors; in the database partition states, stored results, the pass lock, `requested` and `done` | mark dirty, request, join or run a pass, lock, plan, calculate, record, finish | every write of the gateway, workflow approvals, the grid | merged requests, two gateways, panics, a 30-minute limit, a crash with a full queue | callers see their writes calculated, results never go back, errors reach every caller, dirty marks survive, the grid's gap closes |
| Notification outbox and reminders (`internal/notification`, notification routes of the gateway) | `notification` rows: status, attempts, `next_attempt_at`; `reminded_at` of steps | send, drop disabled, claim, deliver, record, retry, give up, mark read; find due steps, notify, mark | workflow steps, mail, webhooks | slow deliveries, outcomes recorded late and by id, replicas without a claim on steps, lost answers | attempts and duplicates are bounded by the failures and slow batches, outcomes are true, nothing stays queued, everybody is told before a step is marked |
| Tenant databases and wake-up (`pkg/tenantdb`, `pkg/wake`) | pools, activity, sleepers | touch, wait, wake | every background loop | throttled activity records | no enqueued work sleeps for ever |
| OAuth connections (`internal/integration/oauth_code.go`) | sealed tokens | connect, refresh, disconnect | runner | concurrent refresh, disconnect during refresh | a stored token is the latest one |
| Imports, dormancy, migrations | idempotency keys, tenant state, applied files | import, suspend, migrate | run queue, gateway | claims, advisory locks | at most one worker per item |
| Gateway, identity, reporting, AI assistant, MCP, enterprise adapters, web client | mostly per request | | | | not modelled, see the end |

## Modules

### RunQueue: the run queue and one attempt, and RunLedger

`status`, `owner`, `lease`, `cancel` are the columns of a row; a lease is null,
in the future ("held") or in the past ("lapsed"). Each slot is one claim loop of
`runWorker` (or the gateway's model-link loop); `pc` says where its attempt is,
`live` whether its context still works. One action is one SQL statement or one
request to a remote system:

| Actions | Code |
|---|---|
| `Enqueue`, `Cancel` | `Store.Enqueue`, `Store.Cancel` |
| `Claim`, `ClaimUnread` (`Claimable`, `Lease`) | `Store.claim`: the claim transaction, and the read after it that may fail |
| `Heartbeat`, `LapseUnattended`, `LapseAttended` | `heartbeat`, `Store.Heartbeat`, and time |
| `Load` | `Runner.execute` up to the first request |
| `CheckCancel`, `CheckUnread` | `IsCancelRequested`, whose error reads as "no" |
| `Fetch`, `Commit`, `Written` | `executePull`, `executeModelPull`, `finishPull` |
| `Send` | `executePush`, in batches or by record |
| `Finish`, `FinishFails`, `Dispatch` | `Runner.Execute`, `Store.Finish`, `DispatchRunEvents` |
| `Timeout`, `Shutdown`, `Exit`, `Crash`, `Start` | the 30-minute context, SIGTERM, the process |

Failures are named in `Faults` and counted by `MaxFaults`: lost heartbeats,
crashes, timeouts, shutdowns, an unread claim, a failed statement. Abstracted:
rows and pages are numbers; the retries inside one request are one send that
may be delivered without a good answer; `FOR UPDATE SKIP LOCKED` is the oldest
claimable row; `attempt_count`, attempt logs and the tested hash are left out
because no decision of the modelled code depends on them.

`RunLedger` is what the queue promises about a run, without leases, heartbeats and
attempts: it has one holder at a time; the holder writes it, settles it and
announces it, or lets go and another one takes the run up; it settles once. In
the refinement, `KeepsLedger`, the holders of a run are the slots with a live
context that are at work on it (`HoldersOf`). TLC refutes `KeepsLedger` as soon as
`"heartbeat"` is among the failures.

### ConnectorSchedule: one schedule and its tickers

`plan`, `enabled`, `next` are the schedule row, `runs` the run of each minute
(the unique index), `pc`, `clock`, `row` the ticker's place in `fireDue`, the
time it was called with and the row as it was read. `Disarm`, `ReadUnarmed`,
`Arm`, `ReadDue`, `CheckOverlap`, `Enqueue`, `AdvanceSchedule` are its statements
in order; `Crash` ends a poll and `StatementFails` continues as `fireDue` does
(a failed overlap check reads as "no active run"). Users save the schedule,
switch the connector and the live revision at any point. Time is in ticks, two
to the minute in the instances; a cron expression stands for the multiples of a
period. Runs started by hand are left out of `HasActiveRun`.

### WorkflowEngine: one instance and its requests

A definition is a sequence of step types with routes. `status`, `decision`,
`rework` are the step rows, `earlier` is the order of their `completed_at` as far
as approval decisions go (the ones before a step's own), `instance` and
`execution` are the two other rows, `record` the status of the record the run is
about. What routing can reach is the least set closed under the routes
(`Closure`). A request is a stack of what its handler has left to do (`Frames`): `CompleteStep` commits the decision (with the
`on_approve` copy) and pushes the cascade; every later action pops one frame,
executes one statement and pushes what the code calls next.

| Actions | Code |
|---|---|
| `StartWorkflow`, `CreateStep`, `ReadMirror`, `RecordExecution` | `startWorkflow`, `fireRule`, `TriggerRule` |
| `CompleteStep`, `CancelInstance` | the two transactions |
| `Fallback`, `Activate`, `ActivateJoin`, `ReadPredecessor`, `FireJoin` | `activateNextSteps`, `allPredecessorsComplete` |
| `ReadRework`, `FailInstance`, `FailExecution`, `ResetDownstream`, `Revive` | `reworkStep` |
| `RunAutoStep` | `processAutoStep` |
| `ReadReachable`, `Sweep`, `NextJoin`, `ReadCompleted` | `reconcileInstance`, `reachableStepDefIDs`, `anyPredecessorCompleted` |
| `ReadIdle`, `SkipPending`, `EndInstance`, `EndExecution` | `closeInstanceIfIdle` |
| `DriveRecords` | `driveRecords` |
| `Abandon`, `StatementFails` | a request cut off; a statement whose error is dropped |

`Direct` callers use the API beyond their inbox (pending steps, any decision);
`Patient` ones wait for the start to return. Abstracted: the reads and the write
of `driveRecords` are one step for one record; `next_step_ids` and definitions
that cannot be parsed are folded into routes; a notification that reached
nobody routes like one that was sent; access checks only restrict who calls.

### RecalcQueue: recalculation of one revision, and RecalcPromise

A request is one write and the recalculation it asks for. The variables come in
four groups: the database (`stored`, `status`, `lock`, `requested`, `done`), the
queue of each gateway (`running`, `batch`, `next`, `last`, `failed`), the pass it
is running (`stage`, `taken`, `seen`, `clean`, `left`, `doing`, `cut`) and the
callers (`pc`, `mine`, `seq`, `err`). A stored result is the set of writes its
calculation has seen: that is all the properties tell apart, and it makes
"current" and "older than before" questions about sets.

| Actions | Code |
|---|---|
| `Write` | a write, with `MarkDirtyTx` in its transaction when it is durable |
| `Mark`, `MarkFails`, `Finish`, `FinishFails` (`Raise`) | `RequestRecalc`, `RecalcFinished` and the gateway's background recalculation around them |
| `LoadFails`, `Enter` (`Join`, `Turn`, `Take`), `Return`, `WaitOn`, `RunNext` | `recalcRequest`, `passQueue.runRequest` |
| `EndPass` (`Kept`, `Woken`) | the deferred function of `passQueue.runPass` |
| `Lock`, `LockFails` | `lockPasses` |
| `Plan`, `PlanFails`, `Panics`, `Begin`, `Skip`, `Complete`, `Errs`, `Unrecorded`, `PassEnds` (`Region`, `Store`) | `recalcPass`, its workers and `incremental.plan` |
| `TimesOut`, `Crash` | the 30-minute context, the process |

`RecalcPromise` is what the comment over `passQueue` promises and nothing of how
it is kept: a pass serves exactly the requests that were waiting when it began,
and a request is answered when its pass has ended. `KeepsPromise` is the
refinement. Abstracted: metrics do not read one another (their order is
`metricformula.Plan`'s); a pass reads its inputs at its plan or as late as the
write of a metric's results, and both are allowed. The lock lasts as long as the
pass: that its connection is lost in the middle of one, which frees the lock while
the pass goes on to write, is not modelled, and `NeverStaler` does not cover it. `Keep` is 64 in the code and 0
in the instance, where the errors that are forgotten are within reach.

### NotificationOutbox and TaskReminder: replicas that remind and deliver

`NotificationOutbox` has the rows of the outbound channels and one dispatcher per
replica; `TaskReminder` EXTENDS it with the reminder loop that feeds it, and is
the module that is run: the two loops of a replica share its crashes, the failures
and the rows.

| Actions | Code |
|---|---|
| `Send`, `MarkRead`, `SetEnabled` | `Service.Send`, the read routes, an administrator's switch |
| `DropDisabled`, `Claim`, `ClaimUnread` (`Due`, `Batches`, `Taken`) | `claimOutbound`'s two statements |
| `Deliver`, `Refused`, `AnswerLost`, `SettingsUnread` | `RunOnce`, `deliver` |
| `RecordDelivered`, `ReadAttempts`, `GiveUp`, `Retry`, `Unrecorded` (`Exhausted`) | `recordDelivered`, `recordFailure` |
| `Lapse`, `LapseInFlight` | time: `next_attempt_at` passes |
| `ComesNear`, `ComesDue`, `Decide` | the due time of a step, as the longest lead and as its own tenant's lead see it; its decision |
| `FindDue`, `SkipMuted`, `Ask`, `Tell`, `Queue`, `MarkReminded`, `ReminderFault` (`DueSteps`, `Earliest`) | `Reminder.RunOnce`, `dueSteps`, `assignees`, `Notify`, `markReminded` |
| `Crash` | the replica, with both loops |

Abstracted: `next_attempt_at` is what set it (due, a claim, a backoff); message
texts, brands and channel settings are the choice between delivery and refusal.
Deleting a notification only hides it from the list (queued mail still goes out,
as the handler's comment says) and touches nothing modelled; marking one read
does take a queued row from the dispatcher. A reworked step keeps its
`reminded_at`, so its second round is not reminded about; the model has each step
once. `DueIsReminded` carries one exception the code has: `dueSteps` reads the
earliest hundred steps that are due by the longest lead of any tenant, before it
looks at the settings of each. Steps of tenants that have reminders off stay in
that list for ever, and those of tenants with a shorter lead for a while, so
enough of them keep the later ones out of the batch (`Crowded`). A dispatcher's
pass over an outbox with nothing queued changes nothing and is left out.

`faults` counts what the bounds allow for. That is failures (a crash, a failed
statement, a lost answer) and also batches that outlast their claim, which is not a
failure: fifty webhooks of fifteen seconds each, or mail, which has no limit, take
longer than five minutes in ordinary operation. `DeliveredOnce` and `RemindedOnce`
are what the documentation promises and the code does not keep (`outbox_slow`,
`reminder_replicas`). `NoDuplicateStorm` and `NoDrip` are the weaker promises of the
comments ("never a duplicate storm", "never a drip every pass"), which do hold:
duplicates do not multiply, and passes do not add up.

## Runs

| Run | Shows | Bounds |
|---|---|---|
| `runqueue_safe` | `ExclusiveAttempt`, `CancelOutlivesWorker`, `OneEventPerRun`, `KeepsLedger`, `TypeOK` with heartbeats that get through and statements that work | two workers, three claim loops (two share a worker id), one run, two pages, two failures |
| `runqueue_faults` | `EffectsMatchStatus` and `EveryRunSettles` under every kind of failure | two workers and a gateway, every kind of run, one failure |
| `workflow_sequential` | routing, joins, sweeping, rework, record and execution, and that an attended run ends | every publishable workflow of three steps that opens with a task and has no join on a loop, and six larger ones, one with a notification that has no routes; requests one after the other, unbounded |
| `workflow_concurrent` | `CopyOncePerRound`, `DecisionStands`, `EndedStays` | two handlers, three requests, one failure, interleaved at every statement |
| `workflow_skip`, `workflow_cancel` | `RoutedIsNotSkipped`, `CancelAsksNothing` are violated | one workflow each |
| `schedule_one` | `FireOncePerDue`, `IndexSwallowsNothing`, `NoOverlap`, `KeepsGoing`, `TypeOK` | one ticker, four plans, seven ticks, two edits, one failure |
| `schedule_replicas` | `FireOncePerDue` is violated by two replicas | two tickers, one plan |
| `recalc_passes` | `Recalculated`, `ErrorReachesAll`, `DirtyOutlivesGateway`, `GapCloses`, `NeverStaler`, `EveryRequestReturns`, the refinement `KeepsPromise`, `TypeOK` | two gateways, two metrics of two cells, three workloads of up to three requests, one failure of any kind |
| `reminders` | `BoundedAttempts`, `NoDuplicateStorm`, `OutcomeIsTrue`, `SettledMovesInFlight`, `MarkedMeansTold`, `NoDrip`, `NeverASilentGap`, `DueIsReminded`, `TypeOK` | two replicas; two notes, or two steps with two assignees, or one replica with both loops; two attempts; one failure of any kind, or one slow batch |
| `reminder_replicas` | `RemindedOnce` is violated by two replicas | two steps with two assignees, no failure |
| `outbox_slow` | `DeliveredOnce` is violated by a batch that outlasts its claim | two replicas, two notes, one slow batch, no failure |

Why the bounds are enough. A run needs one reclaim to meet its own earlier
attempt and a second failure to disturb the reclaim; a second run only competes
for slots, and every claim takes one row. Two pages tell "before the first", "between"
and "after the last" apart. A cap of one rework has a first round, a capped round
and the failure. Three steps already have a fork, a loop, a condition's untaken
side and a join; the larger graphs add joins in a row and joins behind
conditions. Seven ticks of half a minute hold three fire times and the minute
boundaries between them.

The recalculation workloads hold a merge of cells with a whole metric, a pass of
another gateway between a write and its pass, a durable mark, and two counters in
flight; a third request is the first that can wait for a pass not yet begun
while one ends. Two attempts are the first number with a retry and a giving up;
the muted step that comes first fills a batch of one.

Deadlock is not checked: runs settle, instances end, the clock stops, requests are
answered and notes delivered.

Fairness. `RunQueue`: weak fairness of each attempt's next step (it is a
goroutine that returns), of each claim loop (it polls), of an unattended lease
running out, of starting a pod; none for users or failures.
`WorkflowEngine`: of each handler's next statement, and, for `RunEnds` only, of
someone deciding what is in an inbox. `ConnectorSchedule`: of each ticker.
`RecalcQueue`: of some step of a caller or a pass, which is enough since every
request takes finitely many; users and failures owe nothing. `TaskReminder`: of
both loops of each replica, a failed pass being followed by the next, and of time.
A worker is shut down or crashes only while another of its kind is up or to be
started, which is what the orchestrator provides.

## What the violations say

1. A join reached by a rejection is not fired by reconciliation
   (`workflow/store.go:1242`) and the step behind it is skipped.
2. A cascade that is under way when a run is cancelled revives a step of the
   cancelled run (`workflow/store.go:867`).
3. Two workers that read a due schedule in different minutes both enqueue it
   (`cmd/integration/main.go:172`), and `DueSchedules` advances nothing.
4. Two replicas that find a step due before either has marked it both remind its
   assignees (`notification/reminder.go:98`), without any failure;
   `docs/NOTIFICATIONS.md:144-147` says once.
5. A batch that outlasts the five minutes of its claim is claimed again and
   delivered by a second replica (`notification/dispatch.go:439`), without any
   failure; `docs/NOTIFICATIONS.md:130-131` says that replicas never deliver a
   notification twice.

Met while modelling, and not stated by a run of its own:

- A step without routes inside a routed definition falls back to list order
  (`workflow/store.go:792`), so a rejection can open the approve branch. The
  developer manual documents the fall-through (`50-workflows-triggers.html:51`); a
  comment of the decision handler denies it (`gateway/handler.go:2830-2832`).
- `RecalcFinished` takes the greatest number finished for all before it
  (`calculation/pending.go:31`): of two recalculations the later one, finished
  first, ends the grid's "pending" while the earlier one is under way, against the
  comment of `gateway/recalc_state.go:10-14`. `GapCloses` says what does hold, that
  the gap is closed once nothing counted is under way.
- `maxReworks` caps the rounds of one step (`workflow/store.go:856-859`); the
  developer manual says "At most 20 reworks per instance"
  (`50-workflows-triggers.html:68`). `TypeOK` states the cap as the code has it.
- `docs/NOTIFICATIONS.md:134` says that a notification is marked failed after five
  attempts. `attempts` is counted by the claim and compared by `recordFailure`, so
  a claim whose outcome was not recorded, or not in time, allows one more;
  `BoundedAttempts` is the bound with these.
- `Execute`, whose comment says that it "persists the result" (`runner.go:138`),
  does so on the context whose end it may be reacting to (`runner.go:141`), so a
  timed-out run stays running until its lease lapses and is executed again from its
  start (in the model, `Finish` without a live context persists nothing).
- `fireRule` says that it reports the "real status" of an instance that is already
  closed (`workflow/store.go:2747`) and reports a failed one as completed.
- A pass's `MarkClean` wipes a dirty mark made while it calculated the metric, the
  exception of `DirtyOutlivesGateway`.
- The search for loops in `validate.go:221` misses one that is closed through a
  finished node; at run time the cap of `reworkStep` ends it.

## Proofs

`RunQueueProofs` proves, for all constants that satisfy `RunQueueAssumption`:

| Theorem | States | Assumes |
|---|---|---|
| `TypeCorrect` | `[]TypeOK` | nothing |
| `LeaseExclusion` | `[]ExclusiveAttempt` | heartbeats get through |
| `FinishedForGood` | `SettledIsFinal` | heartbeats get through |
| `CancelHonoured` | `[]CancelOutlivesWorker` | heartbeats get through, statements do not fail |
| `EventOnce` | `[]OneEventPerRun` | heartbeats get through, statements do not fail |
| `SuccessIsEarned` | `[]EffectsMatchStatus` | nothing |
| `QueueKeepsLedger` | `KeepsLedger`: the queue implements `RunLedger` | heartbeats get through, statements do not fail |

"Heartbeats get through" is `"heartbeat" \notin Faults`. It is needed: a lease
that lapses under a live attempt lets a second one in, and nothing in `Finish`
looks at the lease. `"db" \notin Faults` is needed since a failed read of the
cancel flag reads as "not requested" and a failed `Finish` still dispatches.

Mutual exclusion is not inductive by itself: the state has to say why a claim
cannot meet a live attempt. `LeaseInv` adds that only running rows are leased and
that a live attempt holds the lease of its run until `Finish` has settled it
(`AttemptHoldsLease`); hence what is `Claimable` has no live attempt
(`ClaimedIsFree`) and a settled run is not claimable, which also gives
`FinishedForGood`. `CancelInv` adds that the request an attempt was claimed with
is still on the row when it looks (no other live attempt can have reset it), and
`EventInv` that nothing was dispatched for a run that is unsettled or whose
attempt has yet to dispatch, and that what it will dispatch is what `Finish`
wrote. `EffectsInv` follows an attempt towards its success: a push without errors
so far has delivered every batch before its page, a pull that reports has
committed. Writes only accumulate, so no other attempt can take this back, and no
assumption on failures is needed. The steps of an attempt that leave the rows alone are one lemma
(`QuietSteps`).

`QueueKeepsLedger` rests on all of these. A claim is a `Take` because what is
`Claimable` has no holder; a commit or a delivery is a `Write`, and a `Finish` with a
live context a `Settle`, because of `AttemptHoldsLease`; a dispatch is an `Announce`
because of `EventInv`. What a dead context does maps to a stutter, and crashes,
timeouts, shutdowns and the return of a slot map to `LetGo`. `FinishedForGood` says a
part of the ledger, that a settled run stays as it is, and needs less for it:
statements may fail.

`RecalcQueueProofs` proves, for all constants that satisfy `RecalcAssumption` and
with no assumption on the failures:

| Theorem | States |
|---|---|
| `TypeCorrect` | `[]TypeOK` |
| `ResultsNeverGoBack` | `NeverStaler` |
| `CallersAreRecalculated` | `[]Recalculated` |
| `DirtyMarksSurvive` | `[]DirtyOutlivesGateway` |
| `ErrorsReachTheirCallers` | `[]ErrorReachesAll` |
| `GapAlwaysCloses` | `[]GapCloses` |
| `QueueKeepsPromise` | `KeepsPromise`: the queue implements `RecalcPromise` |

The invariants are layered. `QueueInv` ties the numbers together (the pass under
way is the one after the last finished, a request waits for that one or the next,
one caller runs a pass), `BatchInv` says that what a request asked for is in the
batch of the pass it waits for, and `LockInv` that a pass holds the lock from its
plan to its end. With the lock, `SeenInv` follows: a result the pass under way has
yet to replace has seen no more than that pass has, whence `NeverStaler`.
`RecalcInv` is `Recalculated` together with how it stands in the middle of a pass:
a metric that is still to be calculated and was clean has the writes of every
caller that was answered, and one already calculated has those of the callers
being served. `DirtyInv` is the same for durable marks. `ErrorInv` says that kept
errors are those of finished passes, `GapInv` that the counters bound the numbers
given out. The refinement maps a request to its phase and a running pass to the
requests with its number that have no verdict; `QueueInv` makes these exactly the
ones that waited when it began.

`TaskReminderProofs` (with the lemmas of `NotificationOutboxProofs`) proves, for
all constants that satisfy `OutboxAssumption` and `ReminderAssumption`, with no
assumption on the failures:

| Theorem | States |
|---|---|
| `TypeCorrect` | `[]TypeOK` |
| `AttemptsAreBounded` | `[]BoundedAttempts` |
| `NoStorm` | `[]NoDuplicateStorm` |
| `OutcomesAreTrue` | `[]OutcomeIsTrue` |
| `SettledForGood` | `SettledMovesInFlight` |
| `MarkedAfterTelling` | `[]MarkedMeansTold` |
| `RemindersAreBounded` | `[]NoDrip` |

A bound on attempts or deliveries is not inductive: what matters is how many may
still come. `Paid` counts them: a row that is or will be up for a claim, plus the
dispatchers that hold it (or are about to hand it out again, or may still deliver
it), plus what has happened already, never exceed one (or `MaxAttempts`) and one
more per failure. A claim moves one from the first count to the second, a delivery
from the second to the third, and only a failure makes a held row claimable.
`Sure` says that a note whose outcomes all came in time has one holder whose claim
stands, which gives `OutcomesAreTrue`. `InTurn` is the same argument for
reminders: the replicas that may still tell a user of a step (`MayTell`) and the
times they were told never exceed the replicas and the failures. The counts are
cardinalities, hence the assumption that `Gateways` is finite. A slow batch counts
as a failure here, too.

`ConnectorScheduleProofs` proves, for all constants that satisfy
`ScheduleAssumption`:

| Theorem | States | Assumes |
|---|---|---|
| `TypeCorrect` | `[]TypeOK` | nothing |
| `FiresOnce` | `[]FireOncePerDue` | `OneTicker` |
| `NothingSwallowed` | `[]IndexSwallowsNothing` | `OneTicker` |
| `RunsDoNotOverlap` | `[]NoOverlap` | `OneTicker` |

`OneTicker` is needed: `schedule_replicas` shows what two do. The argument is about
minutes: what `computeNext` gives is in a later minute than the time it was given
(`NextIsLater`; for a cron plan because its period is a multiple of the minute,
for an interval because none is shorter), and a ticker's clock does not go back,
so the next fire is in a later minute than every run so far, unless the ticker is
about to advance it (`AheadInv`). Hence the minute of a fire that is due is still
free, and its fire time lies after those of all earlier runs (`FiredInv`).
`CheckedInv` says that what the check for an active run found still holds at the
INSERT: nobody but the ticker enqueues scheduled runs.

`WorkflowEngineProofs` proves, for all constants that satisfy
`WorkflowAssumption`, so for every definition, and for any interleaving of the
handlers' statements and any failures:

| Theorem | States | Assumes |
|---|---|---|
| `ShapeCorrect` | `[]Shape` | nothing |
| `EndedStaysHolds` | `EndedStays` | nothing |
| `DecisionStandsHolds` | `DecisionStands` | nothing |
| `CopyOncePerRoundHolds` | `[]CopyOncePerRound` | nothing |
| `ReworkBounded` | `rework_count` passes the cap by fewer rounds than there are handlers | finitely many handlers |
| `TypeCorrect` | `[]TypeOK` | one handler |

That the frames on a stack are of the right kind is not inductive: a frame that
reads for a join returns to the frame below it, so `Calls` says which frames stand
at the top and what is under them. `RowsInv` adds that rows are inserted once and
in order, that only a row that is there is sent back, and that facts are copied
for finished steps only; every statement then either moves a row that is open or
opens one again (`Moves`), which is `DecisionStands`. `reworkStep` reads the count
in one statement and raises it in another: `ReworkInv` counts the handlers in
between (`Reviving`), each of which has found the count below the cap. So two
cascades that send one step back together do pass the cap, and `TypeOK`, which
states the cap, is a theorem for one handler.

`WorkflowCascadeProofs` proves what the requests have brought about when they have
returned. It assumes that no statement fails: the cascade is not a transaction
and its errors are dropped, so a request that is cut off strands the run (the
hazard at `workflow/store.go:368`). Two theorems hold for any number of requests
at a time; the others assume `Serial`, requests taken one at a time, because a
second request in the middle of a close opens a step of a run that ends (the
hazard at `:1270`).

| Theorem | States | Assumes besides |
|---|---|---|
| `RunningIsAskedHolds` | `[]RunningIsAsked`: a running run has a step in progress | nothing |
| `RecordSettlesHolds` | `[]RecordSettles`: the record fits the end of its run | `Patient` |
| `RunningHasWorkHolds` | `[]RunningHasWork` | `Serial` |
| `RecordFollowsRunHolds` | `[]RecordFollowsRun` | `Serial`, callers keep to their inbox (`~Direct`) |
| `JoinWaitsHolds` | `[]JoinWaits` | `Serial`, `~Direct`, `Wired` |
| `ExecutionFollowsHolds` | `[]ExecutionFollows`: `ExecutionMirrors` with one exception | `Serial` |
| `ExecutionMirrorsHolds` | `[]ExecutionMirrors` | `Serial`, `FirstWaits` |

The definitions are arbitrary here too, loops of automatic steps and joins on
loops included, and the number of requests is not bounded. The argument is one
about phases: a stack is a cascade over a check for idleness over what the caller
does at the end, and only that check, when it finds nothing in progress, puts the
three closing statements there (`Phases`). `WorkInv` follows a run through them: a
run is at work, or on its way to the check or to its end, as long as it is
running, and once it is found idle nothing opens a step again. Its first half
(`AtWork`) survives interleaving: a handler leaves a run open only when it has
just seen a step in progress, and whoever finishes that step brings a check of
its own. That is `RunningIsAsked`, what is left of `RunningHasWork`. The second
half does not, and what is left of `RecordFollowsRun` is `RecordSettles`: under
review while the run runs, back with its creator after a cancel, no draft after
a completion. The status of the last decision is lost when two approvals drive
the record at once. `Patient` is needed: a cancel that overtakes the start drives
the record to draft, and the start then submits it.

- `RecordInv` ties the record to the instance and to the run events still on the
  stack. `VerdictInv` says that the standing approval decisions are linearly
  ordered by the time they were taken, also after a rework has withdrawn some of
  them, so that `driveRecords`'s last decision exists and is the one the property
  names.
- `JoinInv` says what the reads of a join's predecessors have established so far
  (`Checked`), and that a step about to be opened again has no completed join
  behind it: `Downstream` of a step holds the joins it leads to, and with a
  predecessor of a join the join. `Wired` (a definition with a join routes every
  step and opens with another step) is needed because the fallback of a step
  without routes opens the next pending step whatever its type, and a person then
  completes the join; publishing does not exclude it. With `Direct` calls a pending
  join can be completed at any time.
- `ExecInv` pairs the statements: what ends the instance is followed by what ends
  the execution (`EndsBoth`), what fails it by what fails the execution
  (`FailsBoth`), and what is to be recorded is how the instance is (`ReadAtEnd`).
  The exception: `fireRule` (`workflow/store.go:2745-2757`) reads an instance that is
  neither running nor cancelled as completed, so one that reaches the rework cap in
  the cascade of its own start is recorded as completed. That takes a first step
  that nobody decides, and in a publishable definition, where a person's step is
  on every loop, more than `maxReworks` automatic ways to one step. `FirstWaits`
  excludes it: a start whose first step waits finishes no step, hence moves
  nothing on (`Starts`).

`WorkflowReachProofs` proves two theorems. `PendingIsReachableHolds`: with `Serial` and
`~Direct`, for every definition without a join on a loop (`JoinsAhead`) and
without a reject branch into a join (`RejectsPass`), `PendingIsReachable` holds in
every state of a run that has sent nothing back (`reopened = {}`). Each condition
is needed:

- a join on a loop waits for itself. With `1 -> 2, 3` and a join 2 that routes to
  itself, TLC finds 2 pending and reachable from nothing but the finished step 1;
- a join all of whose finished branches were rejected does not fire, and is not
  skipped either (`workflow_skip`);
- a rework sets the steps behind it back to pending, also the ones that another,
  finished branch routes to. When the step that was sent back is then rejected to
  the end, `reachableSteps` keeps them because of that finished branch, and nobody
  opens them again. Five steps are enough: `1 -> 2, 3, 5`, `2 -> 4`, approval 3
  to 4 or to the end, approval 4 to the end or back to 3. The run still ends: it
  is found idle when 5 is done, and 4 is skipped.

The property only speaks of the time between requests, and is not inductive.
`ReachInv` says what holds in the middle of a cascade:

- only approvals are rejected (`Rejected`), the first step does not wait
  (`FirstOpened`), and no route that can still be taken leads to a skipped step
  while one waits (`Clean`): skipping is never taken back;
- a step that a finished one routes to is opened by a frame that is still on the
  stack (`Carried`);
- a frame of pass p has at most `Len(wf.type) - p` steps waiting (`Within`), and a
  pass that has changed something at most one fewer; a pass that has changed
  nothing has left none unreachable, and no join it has looked at can fire
  (`Passing`, `Asking`). Every pass but the last skips or fires a step, so the limit
  of `reconcileInstance`, one pass for each step, is never what stops it;
- reconciling comes after all other work of the cascade (`ReconsLast`), and is
  always ahead while there is any (`ReconsAll`);
- when it is over, the fixpoint is reached (`Settled`): what waits is in
  `Reachable`, and no join can fire.

`SettledReaches` then goes from `Reachable`, which starts from finished steps too,
to what the property states. A waiting step that no step in progress leads to is
in `Reachable` only through a join that a finished step routes to, since any other
step it routes to would have been opened. Take such a join with the fewest joins
before it. It cannot fire although a branch into it has completed, so a
predecessor still waits; that one is reached through such a join as well, which
has fewer joins before it. `Closure` is the least closed set, so these are
arguments about closed sets (`ClosureIs`), without induction over paths.

`RoutedIsNotSkippedHolds` states `RoutedIsNotSkipped` under the same conditions:
while nothing is sent back, no step is skipped that an ended step routes to. It does
not hold for every definition: in `workflow_skip` a reject branch leads into a join.
Two actions skip steps of a run that goes on to an end of its own (`SkippedBy`). A
sweep skips what is outside the set it has just read, and every step that a finished
one routes to is in that set (`SweepSkips`). When a run with routes is found idle, no
step waits (`CloseFindsNone`): the passes have reached their fixpoint, so whatever
waits could be reached from a step in progress, and there is none. Hence the close
skips nothing. In runs that send steps back the property is checked on the
definitions of `workflow_sequential`.

Only model-checked, because they are out of the prover's reach: liveness
(`EveryRunSettles`, `RunEnds`, `KeepsGoing`, `EveryRequestReturns`,
`NeverASilentGap`, `DueIsReminded`).

## Plan

Done: `RunQueue` with `RunLedger`, `WorkflowEngine`, `RecalcQueue` with `RecalcPromise`,
`NotificationOutbox` with `TaskReminder`, and `ConnectorSchedule`, all with proofs.

1. `RuleSchedule`: claims, misfires and retries of cron rules, with the tick that
   a crash after the claim loses.
2. `GraphValidation`: the depth-first search of `validate.go` against a reference
   definition of an automatic loop, over all small graphs.
3. The composition of `ConnectorSchedule` with the run queue, by way of `RunLedger`.
4. `OAuthConnection`, SFTP pulls (the hash of the imported file), the wake-up of
   tenant databases; then import idempotency and migrations.
5. Theorems: what remains true of `JoinWaits` when requests interleave; which
   steps a rework can leave pending.

## Not modelled

The gateway's HTTP layer, access rules and identity decide per request and keep
no protocol state; formulas, rollups and reports are data transformations with
unit tests; SCIM, SSO, mail and object storage are adapters around libraries;
the web client is presentation. `PROJECT.json` lists them with the reason for
each.

By lines the repository is mostly generated: the OpenAPI server and client of
`internal/gateway/oas` alone are more than half of it, and the gateway's handlers
over the stores are the next largest part. Neither keeps state that outlives a
request, so the modules cover a small share of the lines and most of the code
that runs concurrently over shared rows: leases, schedules, workflow state, the
recalculation queue and the outbox.
