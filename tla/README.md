# OpenPing, specified

TLA+ modules, TLC runs and TLAPS proofs kept beside the OpenPing code. Paths
below are relative to the repository root.

## 1. The system

OpenPing is an uptime monitor that runs as one Cloudflare Worker and one D1
database per owner (`src/`), and a hosted platform that runs many such installs
(`platform/`). There are no threads and no shared memory: every actor is an
invocation of a Worker (a scheduled run, a request), an actor sees the database
only through round trips, a D1 batch is one transaction, and between two round
trips any other invocation may commit. An invocation can disappear at any await.

### 1.1 Components, their state and their operations

| component | state it keeps | operations | talks to |
|---|---|---|---|
| monitor state and incidents (`src/worker/checks/state.ts`, `db/incidents.ts`, `db/intervals.ts`) | `monitor_state`, `incidents`, `status_intervals` | one *plan* per kind of event: check result, beat, missed beat, paused state, warm-up, alert repair | called by the scheduler, the heartbeat route, the first check; queues outbox rows |
| scheduler run (`scheduler.ts`, `lib/lease.ts`, `lib/cadence.ts`) | the `locks` row, `cron_runs` | take the lease and read; probe; read the write context; write; finish and release | all monitors, outbox, upkeep |
| write plan (`lib/batch.ts`) | none | everything in one batch, then smaller and smaller ones | D1 |
| run budget (`lib/budget.ts`) | counters of one invocation | tickets for checks, reserves for writes and notifications | scheduler, probes, dispatcher |
| outbox and dispatcher (`db/outbox.ts`, `notifications/dispatcher.ts`, `enqueue.ts`) | `notification_outbox` | enqueue with an event key; claim due; send; mark sent, failed, deferred | channels, push |
| heartbeats and first check (`routes/heartbeats.ts`, `checks/first-check.ts`) | the same rows as a run | record a beat; check a new monitor once | monitor state, without the lease |
| probes (`checks/http.ts`, `tcp.ts`, `dns.ts`, `cert.ts`, `domain.ts`, `region.ts`) | none | ask the target | network |
| schedule, maintenance, cadence | windows, `next_check_at` | what is monitored now, and when next | scheduler |
| schema migration (`lib/migrate.ts`, `routes/platform.ts`) | `d1_migrations`, its lock row, each isolate's memos | bring the database to the bundle; report | every platform call, the release runner |
| key rotation (`lib/rekey.ts`, `routes/rekey.ts`) | none: a cursor the client keeps | re-encrypt a page of rows; report what needs the previous key | every row with a sealed value |
| history (`history/rollups.ts`) | `summaries`: hour, day and month rows | count a check; roll up and prune | the end of a scheduler run |
| weekly and monthly mails (`notifications/weekly.ts`, `monthly.ts`) | when each was last tried and sent | send one when it is due | the end of a scheduler run |
| reports | none | numbers of a time range | mails, routes |
| owner sign-in, tokens, passkeys | sessions, nonces, rate limits | single-use links, ceremonies | routes |
| REST, public pages, MCP | none | reads and single-row edits | everything above |
| platform scheduling (`platform/src/scheduling.ts`) | `tenants.schedule_*`, `scheduler_stats` | claim due tenants, queue, start, call, record, finish | one install's run each |
| platform provisioning (`provisioning.ts`, `provisioning-queue.ts`) | `tenants`, leases, attempts | database, upload, migrations, address; undo | Cloudflare API, a queue |
| platform releases (`releases/runner.ts`) | rollouts, per-tenant release rows | canary, batches, rollback | upload, migrate |
| platform billing and lifecycle (`billing/`, `lifecycle/`, `account-deletion.ts`) | subscriptions, grace, jobs, exports | webhooks, suspension, export, deletion | Stripe, provisioning |
| platform sign-in, keys, admin, pages | accounts, sessions, audit | | |

### 1.2 What is hard, and what makes each part correct

* **Monitor state.** A run plans from rows it read at its start and writes them
  at its end, seconds later; beats and first checks write in between without
  the run's lease; a batch can fail having committed; a group that cannot be
  written whole is written in parts. Correct means: the incident pointer never
  dangles and agrees with the incidents table, an alert is about an incident
  that exists, is queued once and not after the recovery, a beat is not undone,
  the timeline catches up, a lost alert is made up for and an outage's incident
  ends.
* **Scheduler run.** One run at a time although the platform or cron may start
  two; a dead run's lease expires; a slow run must not release its successor's.
* **Run budget.** Checks run side by side on a budget of subrequests nobody can
  exceed, and the writes of the run must still be affordable when all have
  spent theirs; a check that waits for room must be woken or refused.
* **Outbox.** At least once, not unboundedly many times; a row claimed by two
  runs; a delivery that happened but could not be recorded.
* **Schema migration.** Calls of two bundles arrive together; one that dies or
  is slow leaves a lock that expires under it. Correct means: no migration is
  applied twice or out of order, and nobody is told that a schema is there that
  is not.
* **Key rotation.** The pass reads a row and writes it a round trip later, page
  by page, while the app writes the same rows, some of it under the key it began
  with. Correct means: nothing saved is lost or unreadable, and a whole pass
  leaves nothing that needs the old key.
* **History.** A pass recomputes only what may have changed since the last one
  that landed whole, and prunes what it summed up; its statements fail one by one.
* **Mails.** Each is sent once for its week or month: not twice, although it is
  noted after it went out, and not never, although the other may be due in the
  same run and a run may have nothing left for it.
* **Platform scheduling.** Claims, starts, answers, leases and retries of many
  tenants race between overlapping invocations.
* **Provisioning, releases, billing, lifecycle.** Long sagas over an external
  API, interrupted anywhere, resumed by another invocation, cancelled midway.

PROJECT.json lists the hazards with the line where each bites.

## 2. The modules

| module | what it is |
|---|---|
| `MonitorStore` | the rows of one monitor and what each statement of a write group does to the rows it finds |
| `MonitorCycle` | the actors: scheduler runs, heartbeat requests, first checks, the owner and the world |
| `MCMonitorCycle` | the model values and symmetry of TLC's runs |
| `MonitorCycleProofs` | theorems about `MonitorCycle` and their proofs |
| `PlatformScheduling` | the platform's side of running a tenant: overlapping crons, the queue, consumers |
| `MCPlatformScheduling`, `PlatformSchedulingProofs` | its model values, its theorems |
| `RunBudget` | what one scheduler run spends: checks side by side, then writes, retries, deliveries, mail, record |
| `AlertDelivery` | what the outbox promises of each alert, without runs, rows or failures |
| `Outbox`, `OutboxProofs` | the outbox rows and the runs that drain them, shown to implement `AlertDelivery`; its theorems |
| `SchemaMigration` | how an install migrates its database on the platform's calls |
| `KeyRotation` | the pass, the report and the owner's steps, beside the app's own writes |
| `Rollups` | one monitor's hours, days and months under passes that fail in part |
| `SummaryMails` | the weekly summary and the monthly report a run may send at its end |
| `MCInstall` | the instances of the six above |
| `InstallProofs` | theorems about the parts of an install, and of all of them together |
| `Provisioning`, `ProvisioningProofs` | a tenant's way to ready and its removal; its theorems |
| `Billing`, `BillingProofs` | an account's subscriptions at Stripe and in the platform's rows, and the end of the account |
| `Lifecycle` | when a tenant is deleted, behind which export |
| `Releases`, `ReleasesProofs` | shipping a version to every tenant; its theorems |
| `MCPlatform` | the instances of the four above |
| `PlatformProofs` | theorems about `Lifecycle`, and of all four together |

`Outbox` takes its alerts as `MonitorCycle` queues them: one `Enqueue` per event
key. `Provisioning`, `Billing`, `Lifecycle` and `Releases` each take what the
others do to a tenant as given, at any time: `MarkForRemoval` is what billing,
the jobs and the owner ask of `Provisioning`; `TenantGoes`, `SignsUp`,
`GetsReady`, `IsRemoved`, `Suspends` and `PaysAgain` are what it and billing do
to the others.

### 2.1 How the state corresponds to the code

`row` is the monitor's `monitor_state` row: `state`, `last_beat_at` (`beat`),
`active_incident_id` (`ptr`) and, for `updated_at`, the write that stored it
last (`by`). `inc` is the `incidents` table (`notified`, `flapping`, `missed`
for `error = 'heartbeat_missed'`), `alerts` the event keys in
`notification_outbox`, `line` the state of the open `status_intervals` row.
`lease`/`live` are the `locks` row: its holder, and whether its TTL has not
passed. `enabled`, `maint`, `active`, `health` are what the owner and the world
decide. Request times are numbered by `clock`; `stale` is the deadline: a beat
numbered below it is overdue.

Each actor has a program counter `pc`, the rows it read (`snap`), what it
decided to do (`work`), what the probe said (`outcome`), the plan it made
(`plan`) and, for a run, the alert it may have to repair (`repair`).

### 2.2 How the actions correspond to the code

An action is one round trip and everything the actor computes up to its next.

| action | code |
|---|---|
| `RunStart` | `runScheduled`, round trip 1: lease, rows, classification |
| `Probe`, `Recheck` | `runMonitorCheck`, its confirmation re-check |
| `RunRead` | `readWriteContext` and the `plan...` functions |
| `Whole`, `Together`, `Alone`, `Core`, `Alert`, `Fallback`, `Extras` | `runWritePlan`, `writeGroupAlone`, one per batch they can send |
| `Repair` | the tail unit of `planAlertRepair` when sent alone |
| `OutOfBudget` | `skipped`: `canSpend` refuses a retry |
| `RunFinish` | round trip 3: finish and release |
| `BeatArrives`, `RequestRead` | the `/hb/:token` route and `recordHeartbeat` |
| `FirstCheck`, `RequestRead` | `runFirstCheck`, `applyCheckResult` |
| `Crash` | the isolate ends at an await |
| `LeaseExpires` | the TTL in the `WHERE` of `acquireLeaseStatement` |

`Transition`, `planCheckResult`, `planHeartbeat`, `planHeartbeatMissed`,
`planPausedState`, `planWarmHeartbeat`, `Unnotified` and `Repaired` are the
functions of the same names in `state.ts` (`planIncidentTransition`,
`planAlertRepair`). A batch that reports an error may have committed (`Fails`).

### 2.3 Platform scheduling

`PlatformScheduling` follows one tenant, since tenants share no row. `row` is
its `tenants` row: `schedule_next_at`, `schedule_claim`, `schedule_running`,
`schedule_lease_until`, and `ok` for the three conditions of `SCHEDULABLE`;
`stats` is its `scheduler_stats` row. Times are what remains of them, so 0 means
"now or earlier" and `Pass` counts them down. A run id is a token that is fresh
when a cron reads, and may be reused when nothing names it any more.

| action | code (`platform/src/scheduling.ts`) |
|---|---|
| `CronRead`, `CronClaim`, `CronSend`, `CronReturn` | the round trips of `enqueueDue`: `DUE_SQL`, `CLAIM_SQL`, `sendBatch`, `UNCLAIM_SQL` |
| `Deliver`, `LoseMessage` | the queue |
| `Load`, `Start`, `Answer`, `Record`, `Finish` | `runOne`: `loadForRun`, the start's UPDATE, `callScheduled`, `recordRun`, the finish's UPDATE |
| `CronDies`, `ConsumerDies` | the invocation ends between two round trips |
| `Suspend`, `Pass` | billing or the owner; time |

A round trip may fail having committed. A failure before the call retries the
message (`Requeued`), one after it retries the bookkeeping (`BookkeepingFails`).
`AtLeastOnce` chooses between a queue that delivers once and refuses what it says
it refused, and one that may repeat a message and may take a batch it reports an
error for, as Queues' at-least-once delivery allows.

### 2.4 The run budget

`RunBudget` is `lib/budget.ts` with every caller a run has. `usage`,
`committed`, `reserved` and `fetches` are the fields of `RunBudget` and
`UsageCounter`; a `ticket` is a `CheckTicket` and the promise of `startCheck`
behind it. Between two awaits nothing else runs, so an action is a callback.

| action | code |
|---|---|
| `StartCheck`, `ProbeEnds`, `RecheckEnds` | `startCheck`, `tryConfirm` and `end` as `scheduler.ts` calls them from `mapLimit` |
| `ReadContext`, `Reread` | the write context's batch and its retries |
| `WritePlan`, `WriteTogether`, `WriteAlone`, `WriteTail`, `TailAlone` | the round trips of `runWritePlan`, each retry behind `canSpendD1` |
| `Deliver`, `Email`, `FinishRun` | the dispatcher's loop, the email jobs, the record and the release |

### 2.5 The outbox

`row` is the status and attempts of each row of `notification_outbox`, `line`
the keys of the due ones by `next_attempt_at`. A `drain` is a run of
`processOutbox`: the entries it copied and where it is with the first of them.

| action | code |
|---|---|
| `Enqueue`, `Prune`, `DeleteMonitor` | `enqueueStatements`, retention, the cascade |
| `Claim` | `claimDueStatement`: a read, not a lock |
| `Attempt` | the channel's or the push call and the reads before it |
| `Mark`, `Book`, `Catch` | `markSent`/`markFailed`/`markDeferred`; `recordChannelResult`; the catch of the loop |
| `Crash`, `ComesDue` | the run ends; `next_attempt_at` passes |

### 2.6 Provisioning

`tenant` is the tenant's row, `cloud` what exists at Cloudflare under its names
(a database by number, so that a second one of the same name differs),
`slugHeld` the `slug_holds` row. A run (`prun`) is one call of
`provisionTenant`; each of its Cloudflare calls is an action of its own, since
it may stall before any of them.

| action | code (`provisioning.ts`) |
|---|---|
| `Acquire`, `Renew`, `Load`, `Release` | the lease and the step loop |
| `FindDatabase`, `CreateDatabase`, `FindAgain` | `stepCreateDatabase` |
| `Call` | `stepUpload` ("clear", "upload"), `stepMigrate`, `stepVerify`, the calls of `stepTeardown` |
| `Advance`, `Remove` | `advance`; the batch that deletes the rows |
| `StepFails`, `RecordFailure` | a throw in a step; `recordFailure` |
| `MarkForRemoval`, `Unpause` | `markForRemoval` and its copies; the admin's retry |
| `Dies`, `LeasePasses`, `Stalls` | the Worker is gone; its lease runs out; it runs out under a live run |

### 2.7 Billing

`stripe` and `events` are Stripe's truth and what it tells; `row` and `standing`
are what the platform saved of it (`subscriptions`, the tenant's status), `lock`
is the `billing_locks` row, `job` a delivery inside `processEvent`, `closer` the
work of `settleAccountBilling` and `scrubAccount` on an account being deleted.

| action | code |
|---|---|
| `TakeEvent`, `Fetch`, `Judge`, `Cancel`, `Refund`, `Save`, `Apply`, `Refetch` | `webhook.ts`: claim and lock; the rounds of `processEvent`; `state.ts` |
| `Refused`, `Throws`, `DeliveryDies`, `ClaimPasses`, `LockPasses` | its catch; a death; the claim's and the lock's minute (`lock.ts`) |
| `Checkout`, `Pays`, `Turns`, `TrialEnds` | `checkout.ts`, the customer, Stripe, `endTrials` |
| `RequestDeletion`, `SettleReads`, `SessionExpires`, `SettleOne`, `Settled`, `Scrub`, `TenantGoes` | `account-deletion.ts` and the jobs that carry it on |

### 2.8 Lifecycle

`customer` is what billing and the owner made of the tenant, suspensions
numbered; `dump` the newest deletion export, `bucket` what is stored whole,
`tick` a run of the jobs under `tickLock`.

| action | code (`lifecycle/`) |
|---|---|
| `StartTick`, `TickEnds`, `TickLockPasses` | the jobs' lock |
| `Warns`, `FindsDue`, `TrustsExport`, `MarksTenant` | the warning, `dueForDeletion`, `trustedExport`, the guarded mark |
| `LooksAtLeaver`, `TrustsLeavers`, `MarksLeaver` | the same for an account being deleted |
| `Exports` | `advanceExport`, to its end |

### 2.9 Releases

`releases` and `member` are the tables `releases` and `release_tenants`; `fleet`
has each tenant's version twice, in its row and in the script that runs;
`current` is `releases/current`. A `roller` is a call of `advanceRelease`, from
the cron or the console; `desk` the handler of a request. `proven`,
`unrecorded` and `moved` are history the properties refer to.

| action | code (`releases/runner.ts`) |
|---|---|
| `TakesRelease`, `Begins`, `Turn`, `EndsRun` | the lease, the bundle, the loop with `renewLease` and what it reads, `releaseLease` |
| `LooksAtTenant`, `Uploads`, `UploadFails`, `RecordsVersion`, `MarksUploaded`, `HealthAnswers`, `WritesHealth` | one tenant's step |
| `CallsScheduler`, `CanaryIsBusy`, `PointsAtProven`, `CanaryRan` | the canary's scheduled run and what follows it |
| `ChoosesBatch`, `NotesBatch`, `LooksBack`, `RepairsPointer`, `FinishesRelease` | the next batch, the last look, done or paused |
| `TakesRequest`, `StartsRollout`, `StartsRollback`, `PointsNew`, `ChangesActive`, `RefusesRequest` | the console's requests: what they read, then their guarded write |
| `RunThrows`, `HandlerDies`, `LeaseRunsOut` | failures |
| `SignsUp`, `GetsReady`, `IsRemoved` | provisioning and removal meanwhile |

### 2.10 Schema migration

`applied` is `d1_migrations`, by number, `lock` the row of `d1_migrations_lock`
with the attempt that holds it, `isCurrent` and `hasFailed` what each isolate
remembers while it is fresh. `call[c].names` are the names a call read under the
lock. `disturbed` records that a database call failed or outlived the lock.

| action | code (`lib/migrate.ts`) |
|---|---|
| `Ensure`, `Wait`, `CallFails` | `ensureSchema`: the memos, the loop, its catch |
| `ReadApplied`, `LookAtLock`, `TakeLock` | the three round trips of `attempt` before it migrates |
| `Apply`, `ApplyFails`, `Release` | one migration's batch, its catch, the `finally` |
| `PublicLook`, `Forgets` | `schemaIsCurrent`; the memos' times and `forgetSchemaCheck` |
| `ReportHealth` | what `GET /__platform/health` answers (`routes/platform.ts`) |
| `Dies`, `OrphanEnds`, `LockExpires` | the request ends, with a batch under way perhaps; `MIGRATION_LOCK_TTL_MS` |

### 2.11 Key rotation

`step` is what the owner deployed: the old key alone, the old one also as
previous, the new with the old as previous, the new alone. `stored[r]` is the set
of a row's values, each only the key and format it is sealed with; `request` is a
request of the app with the keys it began with and the values it carries, `pass`
a client of the pass with its cursor. `clean` are the rows of a call that nobody
wrote since it read them, which is what the compare-and-swap asks.

| action | code |
|---|---|
| `Restarts`, `Answered`, `CallEnds` | the client's loop (`EncryptionCard.tsx`, or the runbook's) |
| `BeginCall`, `SelectRows`, `WriteRows` | `POST /rekey`, `runRekeyBatch`'s loop |
| `Arrives`, `ReadsRow`, `SavesRow`, `InsertsRow`, `SealsOnRead`, `DeletesRow` | the app's requests: `updateChannel`, `createChannel`, `decryptRecord`, `deleteChannel`, and their like for monitors, push and the outbox |
| `Reports` | `rekeyStatus` |
| `SetsPrevious`, `SetsMaster`, `DeletesPrevious` | steps 4, 5 and 8 of `docs/SECURITY.md` |

### 2.12 Rollups

`hours`, `days` and `months` are one monitor's `summaries`, a row's totals being
the hours it covers; `since` the last run's start whose `compacted` flag is set,
`upkeep` the pass of the run that holds the lease.

| action | code (`history/rollups.ts`) |
|---|---|
| `CheckLands` | `checkSampleStatement` |
| `BeginPass` | `compactionStatements`, with `compactionWindow` (`DaysWindow`, `MonthsWindow`) |
| `RollDays`, `RollMonths`, `StatementFails` | the two recomputing statements |
| `PruneAndRecord`, `RunDies` | the prunes that land, and the finish row with `compacted` |

### 2.13 The weekly and monthly mails

`settings` are `weekly_summary_last_attempt` and `..._last_sent` and the same two
of the monthly report; a `mailRun` is the end of a scheduler run, with the
settings it read at its start. `mailed` is what the provider
took: the days whose summary, and the months whose report, went out.

| action | code |
|---|---|
| `Begins`, `NotDue`, `TooFewQueries` | `RUN_SETTINGS`; the gates of `sendWeeklySummary` and `sendMonthlyReport`; `canSpendD1` |
| `TriesMail`, `Sends`, `Records` | the note of the try, `sendEmail`, the note of the sending |
| `MailRunDies`, `Passes` | the run ends; time, in which some run came to its end |

## 3. The runs

| run | instance | checks |
|---|---|---|
| `cycle_probed` | certificate monitor, 2 runs within the TTL, 2 incident ids, 3 faults, maintenance and pauses | `PointerAgrees`, `OneRunAtATime`, `TimelineCatchesUp`, `NoLateAlert` |
| `cycle_beats` | heartbeat monitor, 1 run and requests at a schedule boundary, 2 faults | `AlertsAreTrue`, `BeatsStand` |
| `cycle_overrun` | HTTP monitor, 2 runs, a first check, leases may be outlived | `AlertedIsNotified` |
| `cycle_live` | fair runs, 2 faults | `AlertCaughtUp`, `OutageEnds` |
| `find_first_check`, `find_maintenance_alert`, `find_missed_race` | | three promises of the repository the code does not keep (section 6) |
| `scheduling_safety` | 2 crons, 2 consumers, 3 run ids, 3 faults, a queue that delivers once | `OneCallAtATime`, `ClaimOutlastsCall` |
| `scheduling_live` | 1 cron, 2 consumers, 1 fault, a queue that may deliver twice | `CalledAgain` |
| `find_two_calls` | the safety instance with a queue that may deliver twice | `OneCallAtATime`, refuted (section 6) |
| `install_tail`, scene "budget" | 3 checks (one without a re-check) on 7 fetches and 9 queries | `WithinCap`, `ReservesHold`, `RunEnds` |
| `install_tail`, scene "outbox" | 2 alerts, 2 runs, 2 attempts, 1 fault | `KeepsPromise`, `RepeatsHaveACause`, `GivenUpWhenTried`, `EveryAlertSettles` |
| `install_tail`, scene "schema" | an isolate whose bundle has 1 migration and one whose has 3; a scheduled call and a health call | `SchemaAnswersAreTrue` |
| `install_tail`, scene "rotation" | 2 rows of 2 classes, 1 row a call, 1 value tried by the report; a client, a request | `RotationIsSafe` |
| `install_tail`, scene "rollups" | days of 2 hours, months of 2 days, kept for 2 and 3 days; 8 hours, checks in two of them | `BucketsAddUp` |
| `install_tail`, scene "mails" | days of 4 units, weeks and months of 3 days, two months and the beginning of a third; 2 runs that may overlap, 1 slip, 1 mail refused | `MailsComeOnce` |
| `platform`, scene "tenant" | 2 runs, 2 attempts, 1 death, 1 stall, a removal and retries at any time | `ReadyIsWhole`, `NothingLeftBehind`, `RemovalStands`, `TenantComesToRest` |
| `platform`, scenes "two plans", "an end" | 2 subscriptions and deliveries; a subscription and the deletion of its account | `LastWordIsStripes`, `OnePays`, `KeepsOne`, `StruckIsRepaid`, `ScrubbedIsFree`, `BillingSettles` |
| `platform`, scenes "lapses", "overruns" | 2 suspensions under one run at a time; two runs at once in one | `NothingDeletedUnsaved` |
| `platform`, scenes "batches", "ship", "overlap", "retry" | 3 tenants, 2 versions, 2 releases, 2 requests, 1 mishap, 2 runs | `CanaryFirst`, `BatchesInOrder`, `DoneIsShipped`, `ReleaseEnds` |

`MCInstall` and `MCPlatform` also check `TypeOK` of all their modules. Their
modules share no state, so one behaviour studies one of them, its *scene*, and
leaves the rest at their start. The types of `MonitorCycle` and
`PlatformScheduling`, and `PointerIsKnown`, are proved (section 4) and not run.

**Bounds.** `MaxFaults` failed round trips and crashes, `MaxArrivals` requests,
and as many incidents as `Ids`; when the ids are used up an incident that would
open is treated as an unreadable one (`Exhausted`). Two incidents are enough to
tell the old one from the new one, two runs are enough for a successor, and two
faults are enough to lose both a batch and its retry. `FlapThreshold` is 2
instead of 3 so that flapping incidents occur within two ids. Deadlock is
checked in the runs that cannot stop, and switched off where the bounds end the
behaviour.

In `PlatformScheduling` the times are small numbers that keep their order in the
code: the queue lease may be as short as the call's timeout, and the run lease
is longer than the timeout and the delay of the start's write together
(`SchedulingAssumption`; 10 seconds in the code). Two crons with a run each still
leave an older run to interfere; `MaxTries` is 2 instead of 4, `Waits` 1 instead
of 3, enough for one retry that follows and one that gives up.

In `RunBudget` 3 checks are the fewest where one waits for two that run, 7
fetches refuse a third check or a re-check, and 9 queries refuse retries but
admit deliveries. In `Outbox` two alerts show the order of the line, and 2
attempts (5 in the code) one that follows and one that gives up.

In `SchemaMigration` the newer bundle has two migrations more, so that a call
can die or lose its lock between them, and the database may begin at any
version; a third call adds 1.8 million states and no other outcome. In
`KeyRotation` two classes of one row, read one row at a time, have a page that
ends at a class's end, and one request is enough to come between a read and its
write; a report that tries one value meets a value it did not try. In `Rollups`
8 hours pass both horizons, and the checks fall in the last hour of a day of
each of the first two days, so one lands around midnight. In
`SummaryMails` the summary's day is the first of the month too, so both mails
fall due in the same run, and the gap between summaries is half a day less than
a week, as in the code.

`MCPlatform` bounds each scene to where its cases meet. `StartsFirst` lets, of
actors that are all at rest, only a named one start: they are interchangeable,
so nothing is lost. *Provisioning:* one death and one stall are enough to leave
half a step behind for the next run and to have two runs at work. *Billing:*
"two plans" has one change of a paid subscription and one slow delivery on top
of the two subscriptions, "an end" either a change, a slow delivery or a fault
of one subscription whose account is deleted. *Lifecycle:* "lapses" has two
suspensions, so an export or a warning of the first can be taken for the
second's; "overruns" lets two runs work at once. *Releases:* "batches" ships to
three tenants, batch after batch; "ship" is one run at a time on two tenants, one
of which may sign up, with two requests between the runs; "overlap" is two runs
at once on one tenant, one of them past its lease, with two requests; "retry" is
one run at a time with all that may fail short of its death. Two versions, two
releases and two requests make a rollback of an unfinished rollout, a rollout
after a rollback, and a pause with a resume; `MaxChecks` is 2 (3 and 5 in
the code) and `MaxRequeues` 1 (3), enough for one try that follows and one that gives up.

**Fairness** (`LiveSpec` of `MonitorCycle`). Runs start again and again (cron, or the platform),
every round trip is answered or fails, a crashed holder's lease expires, and a
monitor that keeps being due is checked, since `next_check_at` is one interval
away at most. Faults are bounded, so they end; nothing is assumed of requests,
the owner or the world.

**Fairness** (`LiveSpec` of `PlatformScheduling`). Crons fire, consumers work and
time passes. Again and again a claim succeeds, and a message of the claimed run is
delivered, loaded and started while the claim stands: a claim stands for three
minutes, a delivery takes seconds. Without that, deliveries that are always later
than the next claim would starve the tenant; the code has no defence against a
queue that slow, and the fairness says so. One cron is enough here: two that
keep stealing each other's claim before they send are the same starvation.

**Fairness** (`Spec` of `MCInstall`). Probes, queries and deliveries time out, so
a run comes back from each await; a row's next attempt arrives; runs follow one
another with room for an alert (`ClaimAlone`). `EveryAlertSettles` excuses an
alert that is itself put off for ever.

**Fairness** (`Spec` of `MCPlatform`). A run, delivery, roller or handler that is
at work goes on (its calls time out); Stripe delivers an event until it is
answered, for days, and the cron starts provisioning, jobs and rollers every few
minutes; a lease, lock or claim that was left behind passes. A behaviour stays in its
scene, so one weak fairness over the corresponding actions of all scenes is, in
each, the fairness of that scene's action; merging them keeps the temporal
formula small. `TenantComesToRest` excuses a tenant whose calls or writes fail
for ever; mishaps of the other scenes are bounded, so they end.

## 4. The proofs

`MonitorCycleProofs` proves for all values of the constants (any number of
runs, requests, incident ids and faults, every kind of monitor):

| theorem | property |
|---|---|
| `TypeCorrect` | `TypeOK` |
| `PointerNeverDangles` | `PointerIsKnown` |
| `AlertsTellTheTruth` | `AlertsAreTrue` |
| `AlertsAreMarked` | `AlertedIsNotified` |
| `RunsExcludeEachOther` | `OneRunAtATime` |
| `ReleaseNeedsTheHolder` | `ReleaseIsOwn` (proved; no run checks it) |
| `PointerIsRight` | `PointerAgrees`, for `Probed` |
| `NoAlertTooLate` | `NoLateAlert`, for `Undivided` |
| `BeatsAreKept` | `BeatsStand` |
| `TimelineIsCaughtUp` | `TimelineCatchesUp` |

from `NullAssumption` and `CycleAssumption`, and two of them from a premise more.
`Undivided`: no request writes beside the run, and runs end within their lease.
`Probed`: that, for a monitor that is probed and whose schedule window neither opens nor closes.

**The invariant.** None of the first four is inductive: a batch writes a plan
that was made from rows read long before, so one must know what a plan may still
rely on when it is written. `IInv` adds, for every actor (`ActorOK`):

* `Sound(plan)`: an opening alert comes with an incident to open, a recovery with
  an existing incident to resolve and none to open, the pointer to store is the
  incident opened or an existing one, and only plans without a guard announce;
* the incident in the snapshot's pointer, and the one to repair, exist;
* between core and alert (`Landed`), the incident opened exists and the one
  announced as recovered is resolved.

Each refers only to facts no write takes back (`GrowsTo`: an incident is never
deleted, reopened or unmarked), so a step of one actor keeps `ActorOK` of all
others (`Undisturbed`). The proof then has three layers: the plan operators
return sound plans (`CheckPlan`, `BeatPlan`, `MissedPlan`, ...), each write keeps
the rows right and grows the incidents (`CoreWritten` ... `WholeWritten`), and
one lemma per action. The two lease theorems use a small invariant of their own,
`LeaseInv`: a run in flight holds a live lease, unless runs may overrun.

**The pointer.** A run's batch may land late, twice or in parts, and the plan in
it was made before. `Fits(inc, plan, snap)` says of the plan alone that whenever
it lands the incident it leaves open is the one its pointer names: a plan that
opens points there and resolves nothing; one that touches incidents resolves
all that is open but what it points to; one that does not, resolves none. With
`OneOpen` (the pointer names the one open incident, if there is one) and
`UpToDate` (a run that did not plan yet knows the row as it is) it is inductive
(`PointerInv`), since nobody else writes between a run's read and its last part.
The premise is not a convenience. A request writes without a guard on the
pointer (`find_first_check`); and when a schedule window may close, the pointer
of a paused monitor goes astray: a row update that only lands its fallback
stores `scheduled_off` without the pointer, and the next run, whose state did not
change, resolves the incident and leaves the pointer. TLC shows it as soon as
"schedule" joins `Turns` in `cycle_probed`.

**Late alerts.** `OpenInv`: between its core and its alert, what a run opened is
open, and an incident it found unalerted is open and not among those its plan
resolves, unless its work is of the kind that says nothing (`Suppressing`).

**Beats and the timeline.** Neither needs a premise. `BeatsStand` is a fact about
the guard in the batch: a plan of kind "paused" or "warm" that finds another beat
than its snapshot's leaves state and beat alone, in each part it lands in.
`TimelineCatchesUp` needs only that a check's or a beat's plan always sends its
interval (`LineInv`), and that a batch that succeeds writes both.

**Only model-checked:** both liveness properties, `AlertCaughtUp` and
`OutageEnds`, which are beyond the prover.

`PlatformSchedulingProofs` proves, from `SchedulingAssumption`, for any number
of crons, consumers, run ids and faults and any times:

| theorem | property | assumes |
|---|---|---|
| `TypeCorrect` | `TypeOK` | |
| `CallsExcludeEachOther` | `OneCallAtATime` | `HonestQueue`: `AtLeastOnce` is false |
| `CallsKeepTheirClaim` | `ClaimOutlastsCall` | `HonestQueue` |

Exclusion is not inductive: nothing in the row says that only one consumer holds
its run. `OneHolder` says it: a run id is held by one cron, one message or one
consumer. `CallerOwnsRow` says that the row names the run of an open call, for
longer than the call may last. A claim needs a lease that ran out, so it cannot
hit a caller; a claim given back, a start and a finish name their own run, so
they cannot either. The assumption is needed: `find_two_calls` refutes
`OneCallAtATime` without it.

`CalledAgain` is liveness and only model-checked.

`OutboxProofs` proves, from `OutboxAssumption`, for any alerts, runs, attempts and
faults:

| theorem | property |
|---|---|
| `OutboxTypeCorrect` | `OutboxTypeOK` |
| `GivenUpOnlyWhenTried` | `GivenUpWhenTried` |
| `OutboxKeepsPromise` | `KeepsPromise`: `Outbox` implements `AlertDelivery` |
| `RepeatsOnlyByFaults` | `RepeatsHaveACause` |

A run works from a copy that was true when it claimed. `EntryOK` says what
stays true of it: the alert was queued, and the attempts it counted were made or
are paid for by a fault. `AnswerOK` says what an answer in hand proves: "accepted" that a
provider took the alert, "expired" and "gone" that its device or channel is
gone. With the two, each mark is a step of `AlertDelivery` or changes nothing it
sees; the refinement is one lemma per action.

That nobody is told twice without a fault is a count. `CauseInv` charges every
attempt to the row's counter, to a run that still has the alert ahead of it, or
to a fault. `TakenOK`: what was accepted, plus the runs that still have it to
try, is at most one more than the faults, and at most the faults while the row
is queued and no run is about to mark it. `TriedOK` does the same for the attempts
against `MaxAttempts`. A claim adds a run only when the lease of the last one is
over, which is a fault already counted; a mark moves the attempt into the row.

`InstallProofs` proves, of `SchemaMigration`, from `SchemaAssumption` and `NobodyAssumption`,
for any isolates, bundles and calls:

| theorem | property |
|---|---|
| `SchemaTypeCorrect` | `SchemaTypeOK` |
| `SchemaAnswersStayTrue` | `SchemaAnswersAreTrue` |

A call goes by the names it read under the lock, which may be old once the lock
ran out. `ReadIsApplied` says that what it read is applied for good, so the
first migration it misses has no gap below it, and the unique name refuses it if
another call was faster. `Exclusive` is needed for the last part, that a race
alone fails nobody: until a database call fails or outlives the lock, whoever may
write a migration holds the lock and read all there is.

Of `RunBudget` it proves, from `BudgetAssumption`, for any number of checks, writes,
retries and messages and any limits:

| theorem | property |
|---|---|
| `BudgetTypes` | `BudgetTypeOK` |
| `RunsStayWithinCap` | `WithinCap` |
| `ReservesAreKept` | `ReservesHold` |

Nothing in the state says that the fetches reserved are the sum of what the
checks hold. `Totals(f)` says it without recursion: there is a running total `f`
from 0 to `reserved` whose steps are the holds (`TicketOK` says how much each
stage of a check may hold). With it a check at work always finds its hold in
`reserved`, and `fetches + reserved` never exceeds the limit. For the queries, the checks
that were committed to (`Paid`) bound the write units to come, and
`QueriesInv` carries the margin left for the claims and the tail from phase to
phase, as `SendsInv` does for the sends.

Of `KeyRotation` it proves, from `RotationAssumption`, `RotationKeepsAll`
(`RotationIsSafe`) for any rows, classes and page sizes. `RotationInv` has four
parts: a row holds no key but those of its time, bar what late requests wrote
(`RowOpens`); a row in plain text holds nothing else (`PlainAlone`); a pass that
began on the new key has cleared of the old one everything its cursor has behind
it (`PassOK`, and `CallClears` while a call of it is at work); and once the report
says so, every row is clear. That the pages leave no gap is a lemma on finite
sets of rows (`PagesHaveNoGap`, `PageIsWhole`), and `Writes(rs)` says once what a step that
writes the rows `rs` leaves true of the others and of every pass.

Of `Rollups` it proves `RollupsMissNothing` (`BucketsAddUp`), from
`RollupAssumption` and one premise, `HourlyDays <= DailyDays`. `RollupInv` says what the next
pass may leave alone: every open day before the day the last whole pass
began in covers what landed in it (`DaysRight`), every such month the days in it
(`MonthsRight`), and so for what the present pass has done; hours that landed and have no row are
of no open day (`RowsCover`). "Open" is measured by the cut of the pass, which
grows from one to the next. The premise is the code's default (64 and 400 days),
but the settings do not enforce it: with hours kept longer than days, TLC finds a
pruned day row that a full recompute would make again from its hours, and the
next pass does not. `RollupTypeCorrect` (`RollupTypeOK`) needs no premise.

Of `SummaryMails` it proves, from `MailAssumption`, for any days, hours, waits and runs
at once:

| theorem | property |
|---|---|
| `MailTypeCorrect` | `MailTypeOK` |
| `RepeatsArePaid` | `repeats <= slips` |
| `TriesAreSpaced` | `hasty <= slips` |
| `SummaryComes` | `SummaryWentOut`, assuming `RoomToSend` |
| `ReportsCome` | `ReportsCatchUp`, assuming `MonthHasRoom` |
| `MailsAllCome` | `MailsComeOnce`, assuming both |

`RepeatsArePaid` and `TriesAreSpaced` count. `TriesInv`: every run
at the gates but one paid for its overlap with a slip, and so did that one if another
has tried since it read its settings. `RepeatsPaid` adds to the repeats what may
still come: one for each run that has not sent, and one for each mail that the note
left when all runs are through would let go out again (`Exposed`): because a note was
lost, because a run is about to write an older one over it (`BadNote`), or because
one will, having sent behind a later mail (`Doomed`). All of it is covered by the
slips, but for one run that goes by the present note while nobody is ahead of it
(`OneIsFree`). It rests on `DueIsNew`: a mail that is due is of a later day, or month,
than the one noted, as the gap between summaries (6.5 days) is a day or more.

That each mail comes is a safety property here, since a unit of time passes only when a
run came to its end in it (`Passes`): it says that the runs of a day, or a month, are
enough. Both proofs count what may still keep a mail waiting against the time
that is left. They rest on `TruthInv`: what a run read and what is noted of a mail
sent is true, and only a summary of its day is ever noted (`NotesTrue`), and every
run but one at work was paid for by a slip (`WorkPaid`).
`SummaryInv` says of a day whose summary is still to come, and on which nothing went
wrong, that nobody tried it but a run that is about to send it (`NotTried`), and that
near the end of the day the units left outnumber the runs busy with something else
(`UnitsLeft`). So the day's last unit cannot pass without it.
`ReportInv` adds up what a month has lost: each unit since the report was due
is charged to a slip or a refusal, which cost a wait of `RetryAfter` each, to a
summary that took the report's place on its day (`DaysOut`), or to a repeat of
one; what is still to be charged is in hand with the runs at work and the wait left
before the next try (`Spent <= Allowed`). A month whose days are more than all of these has its report.

Neither holds for every value of the constants, and what is assumed of them is
what a reader would ask of the settings. `RoomToSend`: after the summary's hour
the day has two units more than there are slips, and the gap between summaries and
the wait between tries are each shorter than a week by more than the slips.
`MonthHasRoom`: a month is longer than its
mishaps' waits and its summaries together. Run `install_tail` satisfies both.
With the code's values (a cron every 12 minutes, so 120 units a day, and waits of 5;
a gap of 780 in a week of 840) `RoomToSend` admits 3 slips at the latest hour a
summary may be set to, 23, and 28 at 18, in the whole behaviour; `MonthHasRoom`
590 slips, or 700 refusals. They are needed: with any one of the
three parts of `RoomToSend` false, or `MonthHasRoom`, there are instances of
`SummaryMails` for which TLC finds a mail that does not come.

`ProvisioningProofs` proves, from `ProvisioningAssumption`, for any number of
runs, attempts, deaths and stalls:

| theorem | property |
|---|---|
| `ProvisionTypeCorrect` | `ProvisionTypeOK` |
| `RunsExcludeEachOther` | `OneRunWorks` (of the model; no run checks it by itself) |
| `ReadyTenantIsWhole` | `ReadyIsWhole` |
| `RemovalIsComplete` | `NothingLeftBehind` |
| `RemovalAlwaysStands` | `RemovalStands` |

Two parts of the invariant hold always: what a run saw of the row is a state the
row may have left since but not in any order (`SeenOK`), and what a teardown
has done stands for a tenant that served (`TornOK`). The rest holds while nobody
stalled: a run at work holds a lease that is not over (`Alone`); what exists at
Cloudflare fits the row's state, one call ahead (`ChainOK`); and so does what the
one run at work is about to do (`LoneOK`). `RemovalStands` needs none of the
latter: each write asks for the state that was read.

`PlatformProofs` proves, from `LifecycleAssumption`, `LifeTypeCorrect` and
`DeletedOnlySaved` (`NothingDeletedUnsaved`) for any number of overlapping runs
and suspensions. A run carries three promises from step to step: the suspension
it found was due, at the latest when it found it (`DueOK`); the export it trusted is in
the bucket, of that suspension or a later one (`TrustedOK`); and a leaver's is,
or was not needed when it looked (`LeaverOK`). None of them can be taken back,
and the mark's own condition supplies the rest.

`ReleasesProofs` proves, from `ReleasesAssumption`, `NobodyBeforeTheCanary`
(`CanaryFirst`) for any fleet, versions, runs and bounds, also when runs stall
past their lease, die, or have their release paused, cancelled or rolled back under them.
`CanaryFirst` is not inductive, since a stalled run acts on what it read long
ago. `CanaryInv` adds what it relies on: a release that may go to everybody is
`Shown` (a rollback, one without a canary, or one whose canary ran clean) and
its version is `Good` (`RowOK`); a run is at a step for everybody only with a
`Shown` release, and sets `releases/current` only after a clean scheduled call
(`RollerOK`); so for a request a handler has read (`DeskOK`). None of it is ever taken back
(`GoesOn`, `Kept`), so the lease is not needed for this property. It is for the
other two:

| theorem | property |
|---|---|
| `ReleaseTypeCorrect` | `ReleaseTypeOK` |
| `NobodyBeforeTheCanary` | `CanaryFirst` |
| `BatchesFollowInOrder` | `BatchesInOrder` |
| `WhatIsDoneIsShipped` | `DoneIsShipped` |

`BatchesInOrder` compares tenants, and needs the row between them: `OrderInv`
says that nobody who was touched is ahead of the row's batch, and that one who
is behind it and not well was put back as often as is allowed (`MembersOK`). It
needs the run that holds the lease to be right about its tenant, and, when it
chooses or notes the next batch, about the one before (`WorkOK`). That
holds for the holder only, so every write of another run, which must fail, and every
take, loss and pause of a release is a case of its own (`HoldOK`, `OthersWrite`);
a request that resumes a release must have found it paused, and it still is
(`WaitsOK`), or it would change tenants under a run at work.

`DoneIsShipped` is about one step, the last of a run, and what the run relies on
then was read three steps before. `ShipInv` carries it: nobody was left to
choose and nobody had strayed among the tenants whose row did not change since
(`LookedOK`, of the holder only, which one other run at most can be:
`OneActive`, `OnlyOneHolds`); a script that differs from its row was uploaded by
a release whose record failed or came too late (`ScriptSays`). What the others
see of a step is stated once (`OthersSee`, `VersionsStay`), and each step is
then held against what it leaves to its next one (`Ships`). The exceptions that
`DoneIsShipped` names are the cases in which the last step has nothing to rely
on. Without `moved`, `Unnoted`, `TornByOther` or the failed, run `platform`
violates it; a tenant that is `Forgotten` takes four requests (a rollback that
is paused and resumed), more than that run's bound.

`BillingProofs` proves, from `BillingAssumption`, all safety of `Billing` for
any number of subscriptions, deliveries, rounds, stalls, deaths and throws:

| theorem | property |
|---|---|
| `BillTypeCorrect` | `BillTypeOK` |
| `TheLastWordStands` | `LastWordIsStripes` |
| `OneIsPaidFor` | `OnePays` |
| `OnlyASecondIsStruck` | `KeepsOne` |
| `WhatIsStruckIsRepaid` | `StruckIsRepaid` |
| `DeletedIsNotCharged` | `ScrubbedIsFree` |

That the last word is Stripe's is a fact about what nobody can see: whether the
answer a delivery holds is the latest. `FollowsInv` says so by the events: the
lock's holder may know an older answer only while the subscription's last event
waits that nobody took (`FreshHolder`), since taking it takes the lock, and the
lock, once lost, is never had again for the same work; a row that differs from Stripe has
its last event open (`RowFollows`); and whoever has the last event at hand, and
saved, left the row as Stripe has it, whatever others save then (`SavedLast`).
`StandingInv` does the same for the tenant's status: while it is wrong, an event
is open that no delivery is past applying. For the rest, who judged under the
lock saves alone (`OneInv`), what was struck is repaid or at hand (`RefundInv`),
and what the deletion of an account still owes shrinks (`EndInv`). Steps are
sorted by what they do to these: those that save and tell nothing (`QuietStep`,
`WorldStep`), those Stripe tells of (`TellStep`), and take, save and done.

**All of them together.** `MCInstall` and `MCPlatform` put the parts side by side,
and the runs check properties of their `Spec`. `InstallHasItsParts` and
`PlatformHasItsParts` carry every theorem above over to it: `Spec` implies the
specification of each part, since a part rests or takes a step of its own, and the bounds
of a scene only leave steps out. `InstallTypeCorrect` and `PlatformTypeCorrect` are their
`TypeOK`; `InstallIsSafe` and `PlatformIsSafe` are all other safety that runs
`install_tail` and `platform` check, in one theorem each about that `Spec`: the
first with the premises on the constants named above, the second without any.

**Only model-checked:** liveness, and nothing else: `AlertCaughtUp`,
`OutageEnds`, `CalledAgain`, `RunEnds`, `EveryAlertSettles`, `TenantComesToRest`,
`BillingSettles` and `ReleaseEnds`. Every one is a leads-to or an eventuality
under fairness, which takes ENABLED; this prover cannot. Every invariant
and every action property of a passing run is a theorem.

## 5. Abstractions

`degraded` is folded into `up`, and payloads, errors, latencies and timestamps
into what the plans test of them. The alert repair looks back 24 hours and at
most 10 incidents; the model has no such horizon, so `AlertCaughtUp` assumes a
run within it. Samples, certificate warnings, the outbox claim and the
weekly and monthly mails of a run write rows no plan reads, and are left out
there.
The other monitors of a run appear only as a batch that fails.

In `PlatformScheduling` the claim tests the lease at the time of its write, the
code at the time of the cron's read, so the model admits more; a message of a
tenant the owner suspended is dropped at the load instead of at the start; day
totals, minute metrics and the rounds of 100 tenants are left out. A consumer that
dies takes its call with it as far as the platform can tell; the tenant may go
on with it, and its own lease (`OneRunAtATime`) then refuses the next.

`RunBudget` takes what a probe fetches from tables (`probeFetchLimit`) and the
length of a retry's list of groups as open; `planBudget` only picks constants.

`Outbox` folds waiting for `next_attempt_at` into `ComesDue` (any time) and
the kinds of channel into the answers they can give.

`SchemaMigration` makes the two reads of the health report one step, and takes a
migration's SQL to succeed or fail whole, as a D1 batch does. A rollback to an
older bundle is an isolate of that bundle.

`KeyRotation` takes one sort of row for the five storage classes, whose updates
are all compare-and-swaps; the encrypted values of a configuration that is
also sealed whole are not told apart, and the report reads all rows in one
transaction. A missing or malformed key, which the pass refuses, is left out.

`Rollups` counts in hours: a pass starts in the hour or after it, and a bucket
starts before or after it. One pass runs at a time, as the lease has it
while runs end within its TTL; an overlap of two is not modelled. Check logs, samples, intervals
and records are pruned by the same pass and no pass reads them back.

`SummaryMails` folds the queries between the note of a try and the mail into that
note, since they change nothing, and an owner who edits the settings is left out. So are
time zones and the change of the clock: days are of one length.

`Provisioning` takes the next attempt to be due at any time (backoff, and the
admin's forced one), and leaves out a tenant's own address and the tags of
Durable Objects; that D1 names are unique in the account, and that deleting what
is not there succeeds, is Cloudflare's, as the code relies on it.

`Billing` merges what no other actor can tell apart: the claim of an event with
the lock, the release with the mark, and the reads of the deletion and of the
other subscriptions, which `Judge` makes at once. Checkout is one step under its
lock; the request's own settling is the tick's. Plans, packs, prices, invoices,
dunning mails, the portal and `changeSubscription` are left out.

`Lifecycle` leaves out the lease on an export and its expiry, the customer's own
exports, and the mails that decide nothing.

`Releases` merges `renewLease` with the reads that follow it, `loadTenant` with
`stillHeld`, and the loop that requeues stragglers; a retry that waits (health,
upload, a busy canary) is due whenever a run looks; handlers of requests run one
at a time. Dry runs, a rollback to a named version, the audit and
`canary_state`'s display value are left out, and what `checks.ts` compares
before a request is accepted is a refusal that may come at any time.

## 6. Differences between what the repository says and does

Four are refuted promises, each with a run that finds it (PROJECT.json, findings): a missed
mark overwrites a beat stored after its fresh read; a run that finds a monitor
in maintenance repairs the alert of the incident it resolves in the same batch;
a first check running next to a scheduler run clears the pointer of the
incident that run opens; and a message the queue repeats is "a new attempt" of a
run that is being called when one of its copies failed to load, so the tenant is
called twice at once, and only its own lease keeps the runs apart.

Smaller observations, without a run: a warm-up clears the incident pointer
without resolving its incident, which a suppressed beat had kept open (the next
beat reads the open incident and resolves it); `planPausedState` of a monitor
already in the target state resolves the incident its pointer names and leaves
the pointer; a missed mark's interval is only sent when the state changed, so a
lost one waits for the next beat; the event of a repaired alert is derived from
the incident's error at the time of the repair. On the platform, a consumer that
dies while it calls is delivered again as a new attempt and calls a second time
for one run, which the header of `scheduling.ts` excludes and the comment in
`wrangler.jsonc` admits; and `RECORD_SQL` compares with the last run only, so a
late record of an older run between a newer run's record and its retry makes
the newer run count twice.

The others were met while a property was being stated: TLC refuted the promise as the
repository words it, and the property that is checked names what it excuses. PROJECT.json quotes each.

* *Install.* A run may make two queries more than its plan's (`WithinCap`):
  the tail's first batch and a lease released apart do not ask. A put-off alert
  loses an attempt after all when noting it on its channel fails
  (`GivenUpWhenTried`).
* *Mails.* A weekly summary that was skipped or refused "stays due until it is
  sent" only until its day is over (UTC); then it is not sent that week
  (`MailsComeOnce`). The monthly report does catch up.
* *Key rotation.* A request that began on the replaced key neither opens values
  under the new one nor writes with it: "there is never a moment in which stored
  values are unreadable" leaves it out (`RotationIsSafe`). It may drop a secret
  it could not open, or write one under the old key after the report said that
  the old key may go.
* *Provisioning.* A run past its lease still makes its next Cloudflare call: it may
  delete the script of a tenant that another run made ready (`ReadyIsWhole`), or
  create the database of one that is gone (`NothingLeftBehind`).
* *Billing.* A refund that throws after the cancellation took effect is never
  made up for (`StruckIsRepaid`); a delivery that judged a first payment before
  the deletion was asked for can save it after the settling read the rows
  (`ScrubbedIsFree`); a second subscription is cancelled on the word of saved rows that
  Stripe has not caught up yet (`KeepsOne`).
* *Lifecycle.* A leaver's tenant that becomes ready between the job's read and
  its mark is deleted without an export (`NothingDeletedUnsaved`).
* *Releases.* A batch that was inserted and not noted is never shipped, and the
  release is done without it; an upload whose record is missing is invisible to a
  rollback; a straggler that failed for good keeps the batch it was in, so the
  rollout does not stop for it (`BatchesInOrder`) and a resume that "tries it
  again" is done without trying it, as with every tenant that failed in a batch
  of a rollback before the present one; a record that comes after a later
  upload's makes a release of the older version pass the tenant over (all
  `DoneIsShipped`; the last two were met while proving it, beyond the run's
  bounds); `releases/current` is
  set without asking for the lease, so a run whose release was rolled back
  points new tenants at the version again, which `CanaryFirst` admits since a canary ran clean on it.

Smaller, and without a property: fetches may pass the plan's subrequests by two
(the Android app's token and the email), a margin `PLAN_BUDGETS` keeps; room for
alerts is one less than the constant says, since the tail reserve is kept
whole after part of it was spent (`ReservesHold`); an alert to a device that
expired is recorded as sent; a run that claimed a row sends it although the
monitor was deleted since. A pause or cancel whose guarded update matched no row
still reports that it was done; "roll back to undo them" does not hold for a
rollout cancelled before its canary passed; and a tenant that becomes ready between the last
choice and the end stays on the old version.

## 7. Not modelled

PROJECT.json lists every component with its status. What is left out, and why:

* **Probes, channels, push, Cloudflare and Stripe clients**: one network call
  each and a parser of its answer; the modules take the answers as the
  environment's choice.
* **Schedule windows, cadence, reports**: arithmetic on dates and time
  zones without a protocol. `MonitorCycle` lets a window open and close, and a
  check come due, at any time, so nothing here depends on their results.
* **REST, public pages, MCP, admin, the clients**: validation, single-row edits
  and views. They are most of the repository's lines.
* **Sign-in, tokens, passkeys, hand-off**: one conditional statement on one row
  each, which one transaction decides.
* **Cryptography and codecs**: no state.

## 8. What may follow

1. `schedule.ts` and `cadence.ts` as operators against a reference definition.
2. `RoomToSend` per day instead of per behaviour: what went wrong last week takes no
   time from today.
3. Composition: `Billing` and `Lifecycle` over one tenant's row, `Releases` over
   `Provisioning`'s upload.
