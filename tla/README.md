# The Open CRM: models, checks and proofs

This directory holds TLA+ models of the backend of The Open CRM
(`src/backend`, Node.js with Express and PostgreSQL), TLC configurations that
check them on small instances, and TLAPS proofs of what matters most for all
instances. `PROJECT.json` is the index: components, runs, the source lines of
every definition (`map`), the mutants every property is tested with, the
hazards, the findings and the theorems.

Contents: 1 the system; 2 how the code becomes a model; 3 the modules;
4 the runs; 5 the fairness; 6 the proofs; 7 where the code and its comments
disagree; 8 what is not modelled; 9 the plan.

Source paths below are relative to `src/backend`.

## 1. The system

One or more instances ("pods", Cloud Run) of the same process serve HTTP
requests and run the periodic workers; `index.js` mounts the routes and starts
the timers. All shared state is in PostgreSQL. Instances share nothing else:
a few caches and counters live in the memory of one process. There are hardly
any transactions; a handler is a chain of single statements with an `await`
between them, and what protects it is nearly always a guarded statement: an
`INSERT ... ON CONFLICT DO NOTHING RETURNING`, or an `UPDATE ... WHERE
<expected state> RETURNING`, whose winner goes on. That is where the
concurrency is, and what the models are about.

### 1.1 Inventory

| Component | State it keeps | Operations | Interacts with |
|---|---|---|---|
| **E-mail sequences** `services/sequences.js`, `routes/sequenceRoutes.js`, migrations 132, 133 | `sequences`, `sequence_steps`, `sequence_enrollments` (status, current_step, next_send_at) | create, update (replaces the step list), delete, enroll, stop, `processDueEnrollments` | contacts, suppression list, `email_sends`, transport, notifications; driven by the sequence worker |
| **Worker lease** `services/workerLease.js`, migration 098; used by the sequence, recurring task, weekly summary, plugin schedule, Graph sync workers and the meter push | `worker_runs` (worker, period_key) | `claim`, `release` | every leased worker |
| **AI billing state** `routes/billingRoutes.js`, `middleware/requireAiBilling.js`, `services/stripe.js` | `organizations.ai_*` (status, subscription, limits, halt), `stripe_webhook_events` | Stripe webhook, `/ai/start`, `halt`, `resume`, `comp`, `start-trial`, `threshold`; the gate in front of AI routes and its 30 s cache | Stripe, the threshold worker, metering |
| **AI threshold worker** `services/aiThresholdWorker.js` | the same row (`ai_halted_*`, `last_warned_period`) | hourly `runOnce` on every instance, without a lease | metering (usage of the month), notifications |
| **AI metering** `services/aiMetering.js` | `ai_usage_events` | `computeCost`, `recordUsage`, `summarizeMonthForOrg` | AI routes |
| **Meter push** `services/aiBilling.js`, migration 152 | `ai_billing_posts`, `lastRunYM` in memory | `pushMonthlyUsageToStripe` once a month | lease, Stripe |
| **Platform budget** `services/platformBudget.js` and worker, `platformSettings.js`, `selfServeOrg.js` | `platform_settings`, alert claims | `checkAndAlert`, `canProvisionTrial`, `effectiveHardCap` | sign-up, threshold worker |
| **Quotas** `services/quotaEnforcer.js`, `tierLimits.js`, `usageMeter.js` | counters per month | check before a call, record after it | AI routes, plugin runner |
| **Plugin runner** `services/pluginRunner.js` | `plugin_runs`; `concurrentRunsByOrg` in memory | `run`: cap, row, slot, quota, plugin row, isolate, finalize | quota, plugin events, SDK, proposals |
| **Plugin events** `services/pluginEvents.js` | `plugin_trigger_dedupe`, streak and status of `plugins` | `emit`, `dispatch`, `claimDedupe`, `recordTriggerOutcome` with the automatic pause | runner, every route that emits events, the schedule worker |
| **Plugin schedule worker** `services/pluginScheduleWorker.js` | none of its own | a leased tick that runs scheduled plugins, sweep of old dedupe rows | lease, plugin events |
| **Plugin proposals** `services/pluginActions.js`, `routes/pluginRoutes.js` and generator | `plugin_runs.proposed_actions`, `applied_at` | apply under `FOR UPDATE`, generate, install | CRM tables |
| **One-click e-mail actions** `services/emailActions.js` | `email_action_tokens` (used_at) | mint, apply (claim, act, give back on error), sweep | tasks, deals |
| **Recurring and overdue tasks** `services/recurringTasks.js`, `overdueTaskWorker.js` | `tasks` | spawn the next occurrence, remind | task routes, lease |
| **Automation rules** `services/automation.js` | `automation_runs` | scan, act, record; on every instance | tasks, e-mail, surveys |
| **Stage transitions, deals** | `deals` and friends | checked moves between stages | automation, plugin events, webhooks |
| **Outbound webhooks, notifications, digests** | notification rows | best-effort delivery | all routes |
| **Mail, calendar, drive sync; OAuth** | cursors, tokens | incremental sync with external providers | lease |
| **Auth, SSO, SCIM, API keys** | users, sessions, tokens | request-local checks | all routes |
| **Organizations, retention, provisioning** | organizations, flags | seeding, nightly sweeps | all |
| **CRUD of the CRM** (contacts, companies, leads, quotes, contracts, cases, surveys, portal, reports) | their tables | mostly one statement per request | all |
| **AI assistant** | none that outlives a request | prompts, tool calls | metering, gate |
| **v2 dual write, QuickBooks, frontend** | shadow tables, none, none | hooks; external calls; pages | |

### 1.2 What is hard, and what makes each part correct

*Sequences.* Two ticks hold the same due row; the sequence is edited, paused or
deleted, the contact opts out or disappears between any two statements of a row;
statements and processes fail. Correct: no step goes out twice, an ended
enrollment stays ended, an opt-out bites soon, nothing gets stuck.

*Lease.* Claims, work and releases of several pods overlap, each may fail.
Correct: one pod per period, and work that failed is done again.

*AI billing.* Stripe delivers at least once and in any order; handlers fail half
way; admins and an hourly worker on every instance write the same status column,
each by rows read earlier. Correct: an event is processed once, the row follows
the subscription of the event that wrote it last, nobody pays without one, the worker takes no organization from the admins, one warning
per month, the cap stops spending and the new month lets go.

*Plugins.* An in-memory counter is read before an `await` and written after it;
rows are counted in one statement and inserted in another; events are emitted
again; outcomes of concurrent runs race with an admin. Correct: code runs once
per event, the quota is kept, the counter locks nobody out, the plugins that
keep failing, and only they, are paused.

*Meter push.* One lease and one memory of the month per instance decide who
bills; money is charged at Stripe first and recorded here after, and the key that
makes the call repeatable expires after a day. Correct: nobody is billed twice
unless a record was lost, a record is never untrue, and an organization's error
does not cost the others their bill.

*Tasks and e-mail links.* A completed occurrence spawns the next by an `INSERT
... WHERE NOT EXISTS` that two transactions evaluate without seeing each other,
from the PUT, the links and an hourly sweep; a link is claimed, acts, and is given
back when the action fails. Correct: open occurrences do not pile up, the series
goes on, a link acts once.

*Automation.* Every instance runs every rule and records what it did afterwards,
with no lease or claim. Correct: a match is served, and served again only where
passes overlap or a record was lost.

*Budget and trials.* Claim-then-act with a crash in between; not modelled yet (9).

The full list, each at its line, is `hazards` in `PROJECT.json`.

## 2. How the code becomes a model

* An action is what happens between two `await`s: one statement and the
  assignments around it. A chain of statements is a program counter per worker,
  handler or call, and what was read earlier is kept in that record: it may be
  stale when it is used, as in the code.
* A guarded statement is one action with the guard evaluated in it.
* A statement that throws has an action of its own. Where the code cannot know
  whether it was committed, both outcomes are there. A crash loses the record of
  the process, and keeps the tables. Faults are bounded by `MaxFaults`.
* Data is reduced to what a guard tells apart: a time is "due", "later" or
  "null"; a step list is the list of its delays; usage is a small number; the
  many ways a plugin can fail are one.
* Variables named *history* record what happened for the properties (how often a
  mail was accepted, how often an event was processed) and no guard reads them.
* `map` gives the lines of each definition. Mutants stand in the module beside
  the definition they alter and are used by no specification.
* Where two statements of one transaction, or one `INSERT ... SELECT`, do not see
  what another transaction is about to commit (READ COMMITTED), the reading and
  the writing are two actions.
* Users, recipients and Stripe are nondeterministic: they may do at any time what
  the routes let them.

## 3. The modules

### 3.1 `DripSequences`: the sequence engine

Variables `seq`, `contact`, `suppressed`, `enr` are the tables; `tick[w]` is a
running `processDueEnrollments` with its snapshot `due`, the `row` under way and
the `steps` it read; `sends`, `mail`, `notified`, `late` are history.

| Code | Actions |
|---|---|
| `createSequence`, `updateSequence`, `deleteSequence`, `enroll`, `stop`; contact PUT and DELETE; the unsubscribe link | `CreateSequence`, `UpdateSequence`, `DeleteSequence` (with `CascadeDelete`), `Enroll`, `Stop`, `EditContact`, `DeleteContact`, `Unsubscribe` |
| the due scan and the loop | `StartTick`, `LoadSteps`, `FinishTick` |
| a row: no step left, no address, suppression check, opt-out | `CompleteEmpty`, `StopNoEmail`, `CheckSuppression`, `FlipUnsubscribed` |
| the atomic advance | `ClaimStep`, `LoseClaim` |
| token and `email_sends` row under foreign keys, transport, notice | `RecordSend`, `RecordViolatesKey`, `Transport`, `TransportFails` |
| `catch` of the loop; a dying process | `RowThrows`, `Crash` |

`enroll` reads the sequence's list in one statement and inserts in another;
`Enroll` is the INSERT, with the list that was read as a parameter. It may be any
list: users may save every list at any time, and put the present one back between
the two statements, which changes nothing else. So the gap is in the model without
a request that waits in it. (A sequence deleted in the gap makes the INSERT throw.)

`DripPromise` is the abstract specification: one enrollment with a status, a
position and what was delivered; a step is consumed once, delivered at most once
and only after it was consumed. `DripSequencesProps` instantiates it (`KeepsPromise`:
status and position are the columns, delivered is what the transport accepted)
and states the properties. `MCDripSequences` has the step lists the run chooses
from: lists of up to three steps with delays 0 and 1, and the empty list.

| Property | What would violate it |
|---|---|
| `NoDoubleSend` | two ticks send the same step |
| `LossesAreFaults` | a step that is passed over, not mailed, and no fault of its own to blame |
| `OptOutWindow` | more than one mail per running tick after an opt-out |
| `NoticeMeansCompleted` | the owner is told of a completion that did not happen |
| `TerminalStays` | a stale tick revives or relabels an ended enrollment |
| `KeepsPromise` | any step of the engine the promise does not allow |
| `Progress` (liveness) | an active enrollment of an active sequence stays at a step for ever |

### 3.2 `WorkerLease`: the lease and its users

`runs` is `worker_runs`, `pod[p]` a tick with its period key, `open` whether the
run hour of the period lasts, `memo` the processes that remember the period;
`finished` and `orphaned` are history. Two constants select among the ways the
workers are written:

| Constant | Value | Workers |
|---|---|---|
| `Memory` | `"never"`: no run hour, no memory | sequence, recurring task, plugin schedule, Graph sync |
| | `"after"`: one hour a week; `lastFiredISOWeekKey` written when the claim is lost or the work is done | weekly summary |
| | `"before"`: one hour a month; `lastRunYM` written before the claim | meter push |
| `ReleaseOnClaimError` | `TRUE`: the claim is inside the `try` whose `catch` releases | sequence, recurring task, plugin schedule, Graph sync |
| | `FALSE`: before it | weekly summary, meter push |

| Code | Actions |
|---|---|
| the timer's callback: hour, memory, key | `Tick`, with `Note` |
| `claim` | `ClaimWins`, `ClaimLoses`, `ClaimThrows` |
| the work, and the `catch` around it | `WorkDone`, `WorkThrows`, `Release`, `ReleaseFails` |
| a process dies and is replaced | `Crash` |
| the clock | `HourEnds`, `NextPeriod` |

A process that dies forgets. The weekly summary worker ticks again five seconds
after its start, perhaps in the same hour; the timer of the meter push fires an
hour after it, when the run hour is over, so its process counts as one that
remembers.

| Property | What would violate it |
|---|---|
| `OnePodPerPeriod` | two pods work on a period, at once or one after the other |
| `RowsAccounted` | a row turns every later tick away though nobody runs the period or ran it, and no failure is to blame |

There is no liveness property of the lease: released work is done again only if a
timer fires once more within the hour, on a process without a memory of the period,
and nothing guarantees that. Proved and not checked by a run: `LeaseInv`, the
reason for the first property; and `RunsBounded`, which holds with either `catch`:
a period is run at most once more than there were faults.

### 3.3 `AiBilling`: webhook, admins, threshold worker

`org` is the row, `ledger` is `stripe_webhook_events`, `handler[d]` a delivery,
`checker[c]` a threshold run with everything it has read, `resume[a]` an
`/ai/resume` between its two statements; `stripe`, `sent`, `acked` are Stripe's
side; `applied`, `last` (the event that wrote the row last), `crossed` (that event
took the subscription off the row while a resume was under way), `warned` and
`rearmed` are history. Every statement is about one
organization, so one is modelled. Stripe's actions (`Subscribe`, `ChangeSub`,
`CancelSub`) are external and made from the events and statuses the handler
distinguishes. Events are delivered in any order, and with `Resends` also after
they were acknowledged. `Starts` says how the organization is found: new, in a
trial, or with a first subscription already bought and processed. A threshold run
forgets what it will not read again (`Known`), which merges states and nothing else.

| Code | Actions |
|---|---|
| `POST /webhook` | `Deliver`, `RecordEvent`, `IgnoreDuplicate`, `ProcessEvent`, `HandlerFails` |
| `/ai/halt`, `comp`, `start-trial`, `threshold`, `resume` | `Halt`, `Comp`, `StartTrial`, `SetThreshold`, `SetHardCap`, `ResumeRead`, `ResumeWrite` |
| `runOnce` | `StartRun`, `SelectStale`, `AutoResume`, `ReadOrg`, `CheckCap`, `AutoHalt`, `CheckSoft`, `ClaimWarn`, `Warn`, `CheckerFails` |
| usage, the month, the end of a trial | `Spend`, `NextMonth`, `TrialEnds` |

| Property | What would violate it |
|---|---|
| `ProcessedOnce` | two deliveries of one event are both processed |
| `SubFollowsStripe` | the newest event of a subscription wrote the row last, and the row names that subscription though it is dead, or does not though it is live |
| `PayingMeansSub` | an organization pays with no subscription on record, and no resume was under way when it was cancelled |
| `WorkerLeavesAdmins` | the worker overwrites what an admin decided after it read the row |
| `OneWarnPerMonth` | two instances warn for the same month |
| `CapStops` (liveness) | the gate stays open over the hard cap |
| `RolloverResumes` (liveness) | an organization stays halted for an earlier month |

`LedgerInv` (why an event is processed once) and `DropsAreFaults` (an event that no
retry can save cost a fault) are proved and not checked by a run.

### 3.4 `PluginRuns`: runner and trigger events

`plugin` has status and streak, `rows` counts the month's `plugin_runs`,
`dedupe` is `plugin_trigger_dedupe`, `inFlight[h]` the entry of
`concurrentRunsByOrg` in process `h`, `call[c]` a `run()` or a dispatch around
it; `ran`, `executed`, `broken`, `pardoned` are history.

| Code | Actions |
|---|---|
| `POST /:id/run`, `emit`/`dispatch`, `PUT /:id` | `RunByHand`, `Emit`, `SetStatus` |
| loop over the listeners, `claimDedupe` | `ClaimDedupe`, `SkipDuplicate`, `ClaimFails`, `EndDispatch` |
| `run`: cap, row, slot, quota, plugin row, isolate, `finally` | `CheckCap`, `Refuse`, `CreateRunRow`, `CreateRunRowFails`, `TakeSlot`, `CheckQuota`, `LoadPlugin`, `Execute`, `RunnerFails`, `LeaveSlot` |
| `recordTriggerOutcome` | `RecordOutcome`, `RecordOutcomeFails`, `AutoPause`, `AutoPauseFails` |
| a process restarts | `Restart` |

`CheckCap` reads the counter and `TakeSlot` writes that value plus one, two
statements later: this is what the findings of section 7 are about.

| Property | What would violate it |
|---|---|
| `TypeOK` | among others, a counter below zero or over the cap |
| `NoLockOut` | a process that refuses runs while none is in flight |
| `OncePerEvent` | an event runs a plugin's code twice |
| `QuotaHolds` | concurrent counts and inserts admit more runs than the quota |
| `HealthyStaysOn` | refusals or rejections pause a plugin, or a single error of the runner counts for more than one failure |
| `StreakPauses` | a plugin gets past the threshold and nobody pauses it |

### 3.5 `MeterPush`: the monthly bill

`EXTENDS` nothing of the project and composes `WorkerLease` by `INSTANCE`: its
variables `now`, `open`, `runs`, `pod`, `memo`, `finished`, `orphaned`, `faults` are the lease's,
and the actions of the scheduler are the lease's actions conjoined with what the
push does at that moment. `memo` (the lease's, with `Memory <- "before"`) are the processes whose `lastRunYM` is this month, `push[r]` a push
with the organization it is at, `post` the rows of `ai_billing_posts`, `live` the
idempotency keys Stripe still knows; `charge`, `lost`, `spared`, `failed`,
`abandoned` are history.

| Code | Actions |
|---|---|
| the hourly timer in the run hour, `claim`, `release` | `Tick`, `Claim`, `Release` |
| a push somebody starts (no lease) | `RunByHand` |
| `pushMonthlyUsageToStripe`: who has usage; status; recorded already? meter event; INSERT; end | `Start` in the claim or `RunByHand`, `ReadOrg`, `CheckPosted`, `Send`, `Record`, `EndPush` |
| the `try` of one organization, and of the push | `SendFails`, `RecordFails`, `SkipAllOrgs` and `SkipOrg` in it; `PushThrows` |
| a process dies; the run hour ends; the month turns; Stripe forgets a key | `Crash`, `HourEnds`, `NextMonth`, `KeyExpires` |

Assumed of time: a push takes less than a day, so no key it used expires under
it. The timer of an instance may miss the run hour, and that of a process that
restarts does (its first tick comes an hour later). The paths that
only log what would be sent change no state and are left out.

| Property | What would violate it |
|---|---|
| `ChargedOnce` | two pushes, by timer or by hand, or one after the key expired, bill an organization twice although no record was lost |
| `RecordMeansCharged` | a record that stops all later pushes of a charge that never happened |
| `FinishedMeansBilled` | an instance finishes the push of a month and an organization was forgotten |
| `RecordedIsFinal` | a push with a stale read charges after the record |
| `KeepsLease` (refinement) | a step of the push that the lease does not allow |
| `EveryMonthBilled` (liveness) | in a month some instance claimed, an error at one organization leaves others unbilled |

`ChargesBounded` (an organization is charged at most once more than there were
failures) is proved and not checked by a run.

### 3.6 `TaskSeries`: recurring tasks and one-click e-mail links

One series: `status[i]` and `recurs[i]` of its occurrences, numbered as they are
made; `act[a]` a PUT, a click or a sweep under way, `token[k]` a link;
`reopened`, `mutated` are history. Due dates are left out, and with them which
of several completed occurrences is the source: any may be.

| Code | Actions |
|---|---|
| `spawnNextOccurrence`: the question and the row of its one INSERT | `AskNotExists`, `InsertSuccessor` |
| `PUT /tasks/:id`, bulk status, DELETE | `PutRead`, `PutWrite`, `BulkSetStatus`, `DeleteTask` |
| the hourly sweep | `Sweep`, then the spawn |
| `mint`, the GET and POST of a link, `task.complete`, `task.snooze`, the token given back | `Mint`, `Click`, `ClaimToken`, `RunComplete`, `WriteComplete`, `RunSnooze`, `GiveBack` |
| statements that fail, with and without effect | `Abandon`, `PutAnswerLost`, `ClickThrows`, `ClickAnswerLost` |

A link is minted without a look at the task, which may be done or deleted by then.
A bulk route is one UPDATE of many rows; per occurrence of one series that is a
choice of the row. `StoppedSeries` adds a history variable for what the user did
and is used by one violation run.

| Property | What would violate it |
|---|---|
| `OpensBounded` | open occurrences multiply beyond the spawns that can overlap, round after round |
| `ActsOnce` | two clicks, or a click after the token was given back, both complete the task |
| `SeriesGoesOn` (liveness) | a deletion, bulk edit or failed spawn leaves a series without an open occurrence for good |

### 3.7 `AutomationRules`: the engine of triggered rules

Rules touch disjoint rows of the ledger, so one is followed; its `kind` is chosen
in `Init` from the seven ways the rules act (a task, an issue after a question,
an invoice or a mail with a mark stored after it, a survey, a stage, a note).
`matches` is what the conditions of the scan select, `ledger` is
`automation_runs` within the window, `mark` the column a rule sets on its target;
`pass[r]` is a `runAll` with the rows it scanned; `effect`, `overlapped`, `lost`
are history. `Broken` are targets on which the rule always fails.
The question before an issue compares `org_id` and the title: it finds none for the
`Orgless`, whose `org_id` is NULL, and may miss an open one of the `Retitled`
(`Answers`). `Seen` are the other targets.

| Code | Actions |
|---|---|
| the scan with its LIMIT | `Scan` |
| a row, by kind | `MakeTask`, `AskIssue`, `MakeIssue`, `PostInvoiceOrMail`, `StoreMark`, `AlreadyFired`, `FlipStage`, `Notify`, `RecordRun` |
| a statement throws, before or after its effect; the process dies | `RowFails`, `AnswerLost`, `Dies` |
| users; the window of the ledger | `Change`, `CloseIssue`, `MoveStage`, `WindowPasses` |

| Property | What would violate it |
|---|---|
| `FiredOnce` | a target served twice with no two passes on it and no record lost |
| `IssuesOnlyByOverlap` | a second open issue of a target in `Seen`, after a lost record or a window alone |
| `EveryMatchServed` (liveness) | rows that always fail, or were served and match again, starve the rest under the LIMIT although they do not fill it |

`ServedBounded` (a target is served at most once per instance and once per mishap,
open issues of a target in `Seen` once per instance) is proved and not checked by a run.

## 4. The runs

| Run | Config | Result | Question and bounds |
|---|---|---|---|
| `drip` | `MCDrip.cfg` | pass | Two ticks, one sequence, one contact, three lists of up to three steps, one fault, under `FairSpec`. One enrollment is enough because no statement of the engine relates two; two ticks because every guard compares one tick's snapshot with what somebody else did; three steps so that a list can grow and shrink on both sides of a position. |
| `lease_guarded` | `LeaseGuarded.cfg` | pass | The weekly summary worker: run hour, memory after the work, claim outside the `try`. Three pods, two periods, two faults: one pod fails or restarts and two others race for what it left, in and after the hour, across a change of the period. |
| `lease_claim_error` | `LeaseClaimError.cfg` | violation | The sequence worker and its siblings: two pods, one failing claim. |
| `ai_webhook` | `AiWebhook.cfg` | pass | A new organization or one in a trial; two handlers, three events of up to two subscriptions, which may be live at the same time; any order, redelivery after a 2xx; two admin actions, one of which may be an `/ai/resume` whose write comes later; one fault. Three events are a life of one subscription (created, changed, deleted) or two that cross, and two handlers overtake each other. One month and no usage: threshold runs never write the column, and cancelling under an `AutoResume` is in `ai_threshold`. |
| `ai_threshold` | `AiThreshold.cfg` | pass | A subscribed organization; two instances, two months, usage up to 2, a soft limit of 1 and a hard one of 2 (1 if an admin starts a trial): under, at and over each limit, and the turn of the month. One handler and one event besides the purchase: a failed payment or a cancellation at any point, also under a resume. One admin action or `/ai/resume`, one fault. Acknowledged events are not sent again (`Resends` FALSE): that question is `ai_webhook`'s. |
| `ai_dropped` | `AiDropped.cfg` | violation | One handler, one fault. |
| `plugin_runs` | `PluginRuns.cfg` | pass | Three calls on one process, cap 2, quota 3, threshold 2, four requests, one fault, one plugin, three events. Three calls reach the cap with one to spare; the quota is reached with runs in flight; the streak passes the threshold with two failures at once. Processes share only tables, which any two calls do as well, so one process is enough. |
| `meter_push` | `MeterPush.cfg` | pass | Two instances and one push by hand, two organizations, two months, one failure of the lease and one of a push: both instances meet at the claim, the push by hand runs beside and after them, a timer misses the hour, a key expires between two pushes, one organization fails and the other does not, a month is left behind. |
| `task_series` | `TaskSeries.cfg` | pass | One PUT, two clicks on one link, one sweep, three occurrences, one fault: three spawners can overlap at one question, and a link can be claimed, fail and be clicked again, whatever has become of the task it was minted for. |
| `automation` | `Automation.cfg` | pass | Two passes, three targets with a LIMIT of two, one of them broken and one whose title is edited, one mishap, all seven kinds: the broken one takes one of two places and leaves one for the rest, and of an open issue both answers are possible. |
| `series_stopped` | `SeriesStopped.cfg` | violation | One PUT, one sweep, three occurrences, no fault. |
| `invoice_twice` | `InvoiceTwice.cfg` | violation | Two passes, one deal, no mishap. |

Every passing run checks its module's `TypeOK` (`ai_threshold` leaves it to
`ai_webhook`). Deadlock checking is on for `lease_claim_error` and `invoice_twice`, and off
elsewhere: everything may be deleted, every request made and every bound used
up, and then nothing is left to do. Symmetry is used only where no liveness
property is checked. Each property has a mutant that TLC finds violating it
(`mutants`).

One constant restricts what is checked because a statement fails without it
(section 7): `RunsFitInMonth` in `ai_threshold`, for `OneWarnPerMonth`. All other
constants are bounds of the instance; nothing is assumed of the order of events,
of the number of subscriptions or of `/ai/resume`.

## 5. Fairness

Every scheduler is a `setInterval` started by `index.js` that is never cancelled
while a process lives, and its callback is an ordinary promise chain that node
runs to its end. So a tick that has started goes on, and where a worker ticks at any time another
one starts, on each instance, and time passes:

* `DripSequencesProps!Fairness`: weak fairness of `StartTick` and of the rows of
  each tick, and of a "later" time becoming due.
* `AiBillingProps!Fairness`: of every instance's threshold run and the month.
* `MeterPush!Fairness`: of the claim, the release and the push of an instance whose
  timer has fired. The timer itself is under none, because it may miss the run hour,
  nor is a push by hand, which somebody has to start.
* `TaskSeries!Fairness`: of the sweep, which runs hourly under the lease, and of the
  spawn it started. Requests and clicks need not go on.
* `AutomationRules!Fairness`: of each instance's scan and of the work on the next
  row, which ends well or throws.

Users, Stripe and faults are under no fairness. The liveness properties are
written so that they say nothing about a system somebody keeps changing: an
enrollment may be paused and resumed for ever, a limit may be raised again and
again. `EveryMonthBilled` is about months some instance has claimed, and excepts
those whose push threw or died: the code has no remedy for these within the month,
and none if every timer missed the hour.

## 6. The proofs

TLAPS checks the theorems below for all values of the constants that satisfy the
named assumption of each module (`ConstantsAssumption`, `LeaseAssumption`,
`BillingAssumption`, `PluginAssumption`, `PushAssumption`, `SeriesAssumption`,
`AutomationAssumption`: bounds are naturals, switches Booleans, the cap and the
threshold of a plugin and the LIMIT of a scan positive, calls and actors that are
counted finitely many, sets of different actors disjoint). What a theorem needs
beyond that is in its statement and in the table.

| Module | Theorem | States |
|---|---|---|
| `DripSequencesProofs` | `TypeCorrect` | `TypeOK` (with `RowInv`, `NextInv`) |
| | `ClaimsHold` | `ClaimInv` |
| | `NoStepTwice` | `NoDoubleSend` |
| | `NoStepSkipped` | `LossesAreFaults` |
| | `EndedForGood` | `TerminalStays` |
| `DripPromiseProofs` | `PromiseKept` | `KeepsPromise`: the engine implements `DripPromise` |
| | `NoticesAreTrue` | `NoticeMeansCompleted` |
| | `OptOutBites` | `OptOutWindow`, for finitely many ticks |
| `WorkerLeaseProofs` | `LeaseTypes` | `TypeOK` |
| | `OnePod` | `OnePodPerPeriod`, if claims that throw release nothing |
| | `RowsHaveOwners` | `RowsAccounted`, for each kind of worker |
| | `RunsCostFaults` | `RunsBounded`, for finitely many pods and with either `catch` |
| `AiBillingProofs` | `BillingTypes` | `TypeOK` |
| | `LedgerHolds`, `EventsProcessedOnce` | `LedgerInv`, `ProcessedOnce` |
| | `DropsCostFaults` | `DropsAreFaults` |
| | `RowFollowsStripe` | `SubFollowsStripe`: for every order of events, redelivery, fault and number of subscriptions |
| | `AdminsKeepTheirOrgs` | `WorkerLeavesAdmins` |
| | `OneWarning` | `OneWarnPerMonth`, for finitely many instances, if runs end within their month |
| | `PayersHaveSubs` | `PayingMeansSub`: for all instances and all `/ai/resume` requests |
| `PluginRunsProofs` | `TypeCorrect` | `TypeOK` |
| | `NeverLockedOut` | `NoLockOut` |
| | `EventsRunOnce` | `OncePerEvent` |
| | `QuotaIsKept` | `QuotaHolds` |
| | `StreaksPause` | `StreakPauses` |
| | `HealthyPluginsStayOn` | `HealthyStaysOn`: its own failures, less one per error of the runner |
| `MeterPushProofs` | `PushTypeCorrect` | `TypeOK` |
| | `PushKeepsLease`, `OneInstanceBills` | `KeepsLease`, and hence one pod per month |
| | `ChargesAccounted`, `PaysOnce` | `ChargeInv`, `ChargedOnce` |
| | `RecordsAreTrue`, `RecordedStays` | `RecordMeansCharged`, `RecordedIsFinal` |
| | `FinishedPushBilled` | `FinishedMeansBilled` |
| | `ChargesCounted` | `ChargesBounded` |
| `TaskSeriesProofs` | `SeriesTypeCorrect` | `TypeOK` |
| | `TokensHeldOnce`, `LinksActOnce` | `TokenInv`, `ActsOnce` |
| | `OpenOccurrencesBounded` | `OpensBounded` |
| `AutomationProofs` | `AutomationTypeCorrect` | `TypeOK` |
| | `TargetsServedOnce` | `FiredOnce` |
| | `IssuesServedOnce` | `IssuesOnlyByOverlap`, which is about deals in `Seen` |
| | `DoublesDoNotPileUp` | `ServedBounded`, for finitely many instances; open issues of deals in `Seen` |

**No step twice.** `NoDoubleSend` alone is not inductive: from a state in which
two ticks both hold a claim of the same step it is lost. `ClaimInv` adds the
reason that does not happen: all that was recorded, accepted or claimed lies
below `current_step` (`SentInv`, `HoldInv`), and the claim's predicate lets only
the step *at* `current_step` pass and moves it on. A stale snapshot therefore
cannot win, whatever it contains, and only one tick holds a claim. The proof
splits the actions into those that touch none of this (`UserQuiet`,
`WorkerQuiet`), the claim, the record and the transport.

**No step skipped.** `Lost` are the steps below the position of an enrollment that
were not mailed and that no tick holds. `LossStep`: a step of the program adds
nothing to them, or one element and a fault: a claim moves the position past the
one step its tick then holds, the transport mails what it holds, and only a
fault makes a tick let go. Two things need an invariant: a tick's insert is
refused (`RecordViolatesKey`) only when the enrollment is gone with its sequence
or contact (`ParentsInv`), and such an enrollment, whose steps are not counted,
does not come back (`RemovedStays`).

**The promise.** With the types and `ClaimInv`, each action maps to a step of
`DripPromise` or a stutter: the claim is its consumption of a step, the transport
its delivery, the routes and the contact's deletion its ends and removals. What
makes the map work is that only a claim moves a position, and that what a tick is
about to send lies below it, so it has been consumed and not delivered.

**Notices.** `NoticeInv` carries a completion from the statement that wrote it to
the notice sent after it: a tick that holds a claimed last step holds an enrollment
its claim completed, and a completed one stays so until it is removed with its
sequence or its contact.

**Opt-out.** `OptOutInv` counts: mails sent to a contact after the opt-out, plus
the ticks that are past their check of a row of that contact, never exceed the
ticks there are. A tick has one row, so a mail that goes out late takes its tick
off the second number; after the opt-out no check succeeds.

**One pod.** `LeaseInv`: the row of a period stands while a pod works on it and
once its work is finished; a claim needs it gone; only the pod whose work threw
may delete it. The last part is false when a claim that throws releases, which
is the assumption of the theorem and the finding of section 7.

**Rows and runs.** `RowsAccounted` is inductive with the types: whoever leaves a row
without finishing deletes it or is a failure. `RunsBounded` counts with either `catch`:
pods at a period, pods that finished it, and one while its row is missing, take
no more than one plus the faults. A claim needs the row gone and puts it back; a
release that is not a pod's own is that of a claim that threw, which is a fault.
So the finding of section 7 costs one error for each run too many.

**Processed once.** `HookInv`, the ledger invariant with the types it needs: an
event that was or is about to be processed is in the ledger, with one handler at
most; a handler gets there only by the insert that found the id missing.

**Dropped.** The events in the ledger that were not processed and that no handler
holds grow by one element at most, the event of the handler that failed
(`DropStep`); deliveries, duplicates, admins and runs add none. This is the finding
of section 7 at its worst.

**The row follows.** `StripeInv`, of Stripe's side: the newest event of a subscription
that the handler acts on tells whether it is live. `RowInv`: the row is what the
event that wrote it last says, the subscription that event names, or none if it is
a cancellation. Only `ProcessEvent`, and a handler that fails after its statement,
write that column (`SubElsewhere`, `RowKeeps`); events Stripe sends later leave it
alone (`EmitKeepsStripe`). When no later event of the same subscription is there,
the last one that wrote is its newest, and the two meet. Nothing is assumed of
order, redelivery, faults or a second subscription: they are in the property's
premise only as far as they concern that one subscription, and section 7 says what
they do.

**Admins.** `WorkerLeavesAdmins` follows from each statement of the worker: the
status in its `WHERE` is the status at the moment of the write.

**One warning.** `WarnInv` is a budget: warnings sent for this month, runs that
claimed one and have not sent it, and one more while the row's marker is not this
month's, take no more than one for the month and one per re-arming. The claim's
`IS DISTINCT FROM` moves one unit between the terms, `Warn` another, the route
that resets the marker pays for it, and the turn of the month starts with all
runs idle: that is where the assumption of the theorem enters.

**Payers.** `PayInv`: if the organization pays with no subscription on record, or a
resume has decided for "active" while none is on record, then `crossed`. A resume
decides for "active" only with the subscription in hand, and the one statement that
removes it is that of a cancellation, which sets `crossed` exactly when such a
resume is under way. As long as nobody else writes the row's subscription the
decision and `crossed` stay as they are; the next event recomputes both.

**No lockout.** With the types (the counter is at most the cap because it is
written as a value below the cap, plus one), `NoLockOut` is inductive: the write
that can raise the counter to the cap is that of a call which is then in flight,
a call that leaves puts it below the cap, and all else leaves both alone. So the
lost updates of section 7 can make the counter too high, but not high enough to
refuse everything.

**Once per event.** `DeliveryInv`: a delivery is in the dedupe table from before
the run until for good, one call at most holds it before the run, and none
after it.

**Quota.** `QuotaInv`: every run that executed, or may still, has a row
(`executed + |Rowed| <= rows`), so whoever is let through by `rows < RunLimit`
sees the rows of all that were let through before, and its own: the count is
taken after the insert, and no interleaving gets one more run past it.

**Streaks.** Inductive with the types: the statement that raises the streak to
the threshold or past it is followed by the pause in the same call; `pardoned`
has the plugins whose pause was lost to a fault or undone by an admin.

**Healthy plugins.** The code counts an error of the runner's own statements as a
failure of the plugin, so failures of the plugin's code (`broken`) and of the runner
are counted apart. `FaultInv`: the streak plus the calls that failed and are not yet
counted never exceed the plugin's own failures plus the faults so far. A
streak at the threshold therefore has the plugin's own failures behind it, but for
one less per fault; refusals, rejections and concurrent outcomes add nothing.

**The lease under the push.** Each action of `MeterPush` is an action of
`WorkerLease` or leaves its variables alone; `PushKeepsLease` follows, and with it
the lease's own theorem applies (`LeaseFacts` is an instance of its proofs):
`OneInstanceBills`.

**Charged once.** `ChargeInv`: a charge nobody recorded is about to be, under a
key that is still good, or its record was lost; a push about to send for an
organization recorded meanwhile has a key that makes the call no second charge;
an instance pushes only while its lease row stands, so it never overtakes itself.

**Finished means billed.** `PassedInv`: the organizations a push has behind it are
settled: charged, exempt, met an error, or recorded, which `ChargeInv` makes
charged. A pod finishes when its push has them all behind it.

**Charges counted.** `BoundInv`: an organization is charged at most once per failure,
and once more while its record stands or a push is about to write it (`Kept`).
Whoever stops keeping it has failed (`KeptOrFailed`), which pays for its charge; and
while it is kept, no push charges it again.

**Links.** `TokenInv`: a token that one click holds is used, no second click
holds it, and it has not acted; giving it back is the only way to make it fresh
again, and only a click that has not acted does it.

**Open occurrences.** Each open occurrence nobody reopened and each spawn under
way is charged to a spawner. A spawn passes its question only when nothing is
open, so the sum never exceeds the spawns that asked at that time; a link counts
once however many clicks it gets, because they hold its token one at a time.

**Rules.** `LedgerInv` is the conjunction of `Exclusive` (passes on one row at one
time have marked it as overlapped) and, per target, `Sound`: an effect is
recorded, about to be, or excused. A scan leaves recorded targets out, so a
second effect needs an excuse. For issues in
`Seen` the question before the insert takes the place of the record.

**Doubles do not pile up.** `Counted`: what was done to a target, plus the passes
that may still act on it, is at most the number of passes plus the mishaps; and
while the scan would select the target again, what was done to it is still being
written down (`Doing`) or was paid for by a mishap. So when a scan does select it,
the passes about to act and those writing down are different ones, and there are
only so many. `Written` covers the one rule with two marks: an invoice is in the
ledger only after its id is on the deal. Open issues
of targets in `Seen` do not even pay for mishaps.

Only model-checked: liveness (`Progress`, `CapStops`, `RolloverResumes`, `EveryMonthBilled`, `SeriesGoesOn`, `EveryMatchServed`), which is
out of the prover's reach. Every other property of a passing run is proved.

## 7. Where the code and its comments disagree

Shown by a run (`findings`):

* **A claim that throws releases somebody else's lease** (`lease_claim_error`).
  In four workers `claim` is inside the `try` whose `catch` deletes the row.
* **A failed Stripe event is dropped** (`ai_dropped`). The id is recorded before
  the work, so the retry the 500 asks for is answered as a duplicate; the
  comment says the 500 is there not to drop it.
* **A stopped series goes on** (`series_stopped`). The switch is a column of each
  occurrence and the form changes one; the sweep takes any completed occurrence
  that still has it on as its source. Migration 129 says completed occurrences
  never spawn then.
* **Two invoices for one deal** (`invoice_twice`). The id is stored after the
  invoice is made, and every instance scans; the comments say it is stored "so we
  don't double-fire" and that a trigger fires once per target.

Met while modelling, with no run of their own: a few contradict a comment, quoted
where they do, on a point the models leave out or a property bounds already; for
the others no document says more than how it is meant in general:

* A paused sequence still sends the rows of a tick that is running: the due scan
  (sequences.js:463) asks for `is_active` and the claim (546-554) does not; migration
  132:22-23 says the worker skips them.
* A mail may leave after an opt-out, one per running tick (`OptOutWindow`).
* A list that grows between a tick's read and its claim completes the enrollment
  early; two steps with delay 0, claimed by two ticks, may be sent in the wrong
  order.
* `/ai/resume`, and the worker's `AutoResume`, decide by a subscription read one
  statement earlier and leave an organization active with none if it was cancelled in
  between, until the next event of a subscription: the exception in
  `PayingMeansSub`. `/ai/resume` also lifts this month's halt by the
  worker, which the next run puts back.
* Stripe events out of order: an older one can put a cancelled subscription
  back, until a later one comes: `SubFollowsStripe` excepts events that
  are missing or were overtaken. Any event of a subscription overwrites "halted" and
  "comped".
* A threshold run that is under way when the month turns warns twice.
* `/ai/start` does not ask for an existing subscription. Of two that are live the row
  names the one whose event came last, and when that one is cancelled it names
  none although the other goes on.
* The seven days of grace are measured from `updated_at`, which any write moves.
* The concurrency cap of plugins is not one, and its counter leaks: the count is
  read before the row is inserted and written back after (pluginRunner.js:572),
  so concurrent starts overwrite each other and undo each other's decrements;
  102-103 and 568-570 say neither can happen. The lockout the second comment
  warns of is excluded nevertheless (`NoLockOut`, proved).
* The plugin quota counts the run's own row and the rows of refused runs, so one
  run less than the limit executes; a database error in the runner counts as a
  failure of the plugin and can pause it (`HealthyStaysOn` says how many are needed).
* An event whose run is refused (cap, quota, paused) is not delivered again.
* Meter push: after a crash between the meter event and the INSERT
  (aiBilling.js:147-152) a push by hand a day later charges again, which the key
  of migration 152:14-19 prevents only while Stripe knows it. An organization
  that failed is never tried again by the timer, and a lease released after a
  push that threw is not claimed again by that process, whose memory has the
  month already (199, 234). The timer asks for the very hour, so "a missed
  03:00 fires at 04:00" (173-174) is not what happens.
* Tasks: recurringTasks.js:17-20 says at most one row wins; under READ COMMITTED
  two spawns that ask at the same time both insert (`OpensBounded` says how many
  at most). A mail action that was committed and whose answer was lost is
  repeated by the next click.
* Weekly summary: its process may claim again after work that threw, but only if its
  timer fires once more in the run hour; a process that lost the claim remembers the
  week, and does not take over when the winner releases.
* Automation: `ensureIssueForDeal` says "find an open issue for this org + deal + title"
  (automation.js:75-82). `issues.org_id` and `deals.org_id` may be NULL (migrations
  040:10, 033:12; dealRoutes.js:115 makes such deals), and `org_id = NULL` is never
  true; the title holds the deal's or vendor's name, which users edit. For these
  deals the question finds nothing, and every window of the ledger and every lost
  record adds another open issue: `IssuesOnlyByOverlap` and `ServedBounded` leave
  them out, `FiredOnce` does not.
* Automation: renewals are deduplicated after the LIMIT, so contracts that were
  moved back fill it; rows that always fail do so too (`Blocking` in
  `EveryMatchServed`); overlapping passes send a survey or a mail twice.
* Platform budget: a trial that is halted drops out of the number of active trials
  and its spending out of the unbilled sum (platformBudget.js:74-88); the alert
  at 100% is claimed before trials are paused (163), so a crash in between
  leaves them open for that month. The setting read by `canProvisionTrial` falls
  back to TRUE on a database error, though the comment (127) says it fails
  closed.

## 8. What is not modelled

* Within modelled components: templates, merge fields and statistics of
  sequences; the CRM's own paid tier, invoices, the seven days of grace and the
  cache of the gate in billing; the kill switch, the missing sandbox and the
  automatic Apply in the runner; trigger filters and the deletion of plugins.
  In the meter push the dry runs; in tasks the due dates; in links the actions on
  deals and contacts (single UPDATEs behind the same claim); in automation
  `set_hot_flag`, which may be repeated without harm, and the conditions of the
  scans.
* The isolate and its SDK are external (a run succeeds or fails), as are the mail
  transport, QuickBooks and Stripe.
* The remaining components are listed with their reasons in `PROJECT.json`:
  single-statement CRUD and reports, text generation, external providers,
  request-local checks, bulk jobs in single transactions.

## 9. The plan

Done: `DripSequences` first (the largest protocol, and mail that cannot be taken
back), `WorkerLease` (everybody's mutual exclusion), `AiBilling` (money, and the
most writers of one row), `PluginRuns` (in-memory state and quotas); then
`MeterPush` (money again, composed with the lease), `TaskSeries` (recurring tasks
with the links in e-mails) and `AutomationRules` (act, then record, on every
instance).

Next, in this order:

1. `PlatformBudget`: alert claim, pause of trials, cached settings, sign-up.
2. `GateCache`: the 30 s cache of the gate against `bustCache` and the writers.
3. `PluginApply`: proposals under `FOR UPDATE`, by hand and autonomous.
4. `SequenceWorker`, composing `WorkerLease` and `DripSequences`: what the lease
   adds to the claim, and what is left of it when it fails.
5. The queue of notification digests and its worker.

Theorems next: the shape of `checker` that ties a halt by the worker to its month
(`haltedFor`), which `RolloverResumes` rests on; the bound of `OneWarnPerMonth` when
a run crosses the turn of the month; how many open issues a deal outside `Seen`
collects.
