# HEVN: specifications and proofs

TLA+ specifications of the parts of HEVN whose correctness depends on the order
in which processes, handlers and users act: the durable job queue, the worker
that scans, polls and dispatches, reminders and follow-ups, the way from a webhook
to a reply, the set-up of a new user, the delivery of speech and text, the calendar
with its external events, quizzes and study plans over the connection pool, and the
search for free time. TLC checks them on small instances; TLAPS proves the safety
of the queue, the worker's polls, reminders and follow-ups, the circuit breaker and
the delivery over it, the accounts and sync tokens of the calendar, the set-up and the
conversation, and quizzes, plans, mastery and their connection pool, for every instance.

File names without a directory are relative to `src/src/`.

## 1. The system

HEVN is an assistant that talks to its users over Telegram and WhatsApp. Two
processes share a PostgreSQL database: the web server (`index.ts`, webhooks,
conversation turns, OAuth, administration) and any number of workers
(`scheduler/worker.ts`). They interact through tables only. A row written by a
conversation turn (a task, a follow-up, a recurring task) is found by the
worker's scan, becomes a job in `job_queue`, is claimed by a poll, and its handler
sends a message and writes back to the domain table. Meanwhile the user answers,
which changes the same rows through the web server.

| Component | State | Operations | Hard behaviour | What makes it correct |
|---|---|---|---|---|
| Durable job queue (`core/jobs`) | `job_queue`: status, attempts, run_at, lease, keys | enqueue, claim, complete, fail, recover, replay | several workers, crashes, lapsing leases, statements in doubt, read-then-write | exclusive execution under a lease, keys looked up before they are used, attempts accounted for, every job settles |
| Worker (`scheduler/worker.ts`) | `activeJobsCount`, `isShuttingDown`, jobs in flight, batches of a scan | scan, poll, process, shut down | overlapping polls and scans, claim in flight at shutdown, stale batches, one try/catch | exact count, no claimed job dropped, termination, everything due is reached |
| Reminders (worker, `core/tasks`) | task row, deduplication log | scan, dispatch, snooze, edit, complete | every await a window for the user and other calls | one reminder per due time, none lost without a fault |
| Follow-ups (worker, `core/followup`) | status, attempt_count, scheduled_at | schedule, dispatch, five answers, buttons | as above, with an unguarded relative update | one inquiry per attempt, the limit, answers stay |
| Notification deduplication (`core/notifications`) | `notification_dedup_log` | claim, record outcome | claim before delivery | one taker per key |
| Notification policy | none (reads log and profile) | evaluate | hourly count read before the send | limits hold under concurrency |
| Circuit breaker (`core/voice/CircuitBreaker.ts`) | state, failures, probe flag | execute, success, failure, reset | results of calls from an earlier state | only the probe decides, no lock-up |
| Audio synthesis and delivery (`core/voice`, `adapters`) | cache, breakers, platform | synthesize, deliver, send with retries | lost answers, fall-back, overlapping syntheses | what is reported was received, no copy without a lost answer |
| Recurring tasks (`core/recurring`) | next_run_at, status | create, scan, advance | payload contract between scan and handler | a due task is advanced |
| Conversation (`orchestrator`, `api/webhookRouter.ts`) | turns, processed updates | webhook, turn, tool rounds | concurrent turns, acknowledged before handled | no lost and no doubled message, complete histories |
| Onboarding (`core/onboarding`, `core/users`) | user row, daily check-in | getOrCreate, six states | calls on an old user object | no way back, everything asked for, one daily check-in |
| Quizzes (`core/study/QuizService.ts`) | quiz status, index, score, answers | generate, answer | read-then-write, quiz replaced meanwhile | one open quiz, score equals right answers |
| Study plans and courses (`core/study`) | plans, sessions, linked tasks, mastery | create, reschedule, complete | nested transactions on two connections | sessions and tasks agree, mastery is backed |
| Calendar (`core/calendar`) | accounts, tokens, calendars, links, sync tokens | connect, disconnect, push, delete, reconcile, find slots | external effect before record, late refresh, token advance | tokens agree with consents, every duplicate has a cause, no skipped change, slots free |
| Database access (`db/pool.ts`) | connections, transactions | withUserScope | nested scopes, retry after a doubtful COMMIT | no deadlock, at most one effect |
| Everything else | | CRUD, wording, network I/O, read-only aggregation | | listed in `PROJECT.json` with the reason it is left out |

`PROJECT.json` lists every component with its status, and under `hazards` what can
go wrong in this code that a test would hardly reach, each at its line with the
properties that would catch it, or a note where none does yet.

## 2. Plan

Done, in this order: `JobQueue` with its contract, refinement and proofs;
`Reminders` and `FollowUps` with proofs; `WorkerPool` with proofs; `CircuitBreaker`, and
`Delivery` over it; `DomainScan`; `Calendar` with proofs; `Onboarding` and
`Conversation` over it, with proofs; `Study`, which contains the connection pool, with proofs; `Availability`.

Each module has one passing run that checks its safety and its liveness together, so that
the whole project stays quick to check.

Left:

1. An at-most-once channel as abstract specification that `Reminders` and `FollowUps`
   both implement.
2. The arithmetic of `NotificationPolicyService` (hourly limit under concurrency, quiet
   hours in the user's time zone), which needs a calendar with time zones.
3. The CalDAV provider, once an account of it can be connected.

## 3. Modules

| Module | Models | Builds on |
|---|---|---|
| `JobQueue` | `JobQueueService` and `processJob`, one SQL statement per step | |
| `JobContract` | what the queue promises: jobs wait, run, end done or dead | |
| `JobQueueRefines` | the refinement mapping | `JobQueue`, INSTANCE `JobContract` |
| `Reminders` | `handleReminderDispatch`, the scan of one task, snooze and edits | the queue at its promise |
| `FollowUps` | `FollowUpService`, `handleFollowUpDispatch`, buttons and answers | the queue at its promise |
| `DomainScan` | `enqueueDueDomainWork` over all four kinds of rows | the queue at its promise |
| `WorkerPool` | `pollAndProcessJobs`, `gracefulShutdown` | |
| `CircuitBreaker` | `CircuitBreaker.ts` and the timeout around each call | |
| `Delivery` | `deliverResponse`, `synthesize`, the sending adapters | EXTENDS `CircuitBreaker` |
| `Calendar` | accounts, links, sync tokens against Google | |
| `Availability` | `checkAvailability`, `findAvailableSlots` | |
| `Onboarding` | `getOrCreate`, `handleOnboardingMessage`, `ensureDailyCheckinTask` | |
| `Conversation` | webhook and orchestrator | EXTENDS `Onboarding` |
| `Study` | quizzes, plans, mastery, assessments; `withUserScope` over a bounded pool | |
| `MC...` | instances for TLC | |
| `...Proofs` | theorems | |

### JobQueue

`row` is the table; `executing` holds the calls of `processJob` with the place they
have reached; `enqueuing` the calls of `enqueueJob`. `enqueueJob` is three steps
(its SELECT, the SELECT of `enqueue`, the INSERT with both unique indexes; `known` is history: the rows of the key when the last SELECT ran), `failJob`
two (read attempts, write). `claimJobs` takes any set of due rows up to the limit:
SKIP LOCKED passes over rows another statement has locked, so priorities do not
determine the set. Status `cancelled` is written by no code and is absent. run_at and
locked_until are kept as the time that remains. `Crash`, `CompleteJobError` (the UPDATE
may have taken effect), `FailJobError` and a `Tick` at which a lease lapses under its
handler are counted in `crashes`, `dbErrors` and `overruns`, which the properties refer to.

### Reminders and FollowUps

One task with its reminder, or with its follow-ups. Each await of the handler is a
step, named after the call. The job queue is reduced to what `JobContract` promises
(one live row per singleton key), with two things added that the contract excludes:
a lease may lapse under a running call (a fault), and then a second call runs on the
same job. `mine` says whether a call's job is still the live row of its key. A
deferral re-enqueues under the key of its own live row and is suppressed, as in the code. Quiet
hours and the hourly limit are the flag `held`; other tasks matter only through it.
`ripe` and `due` replace the clock; `sentFor` is history: the due time whose call set `reminder_sent_at` last. A failing send may have reached the user. In
`FollowUps` the deduplication log is a function over the keys that were taken, a key being a follow-up and the
attempt_count that was read. `ButtonDone` and `CallbackId` keep the order of the parts of the callback
data, because what a press does depends on it: the worker writes one order, the webhook reads
the other, and the press changes nothing. That a follow-up or its user row is gone, or
that follow-ups are turned off, is not modelled.

### WorkerPool

One process. `due`, `handling`, `settled` and `orphaned` count rows; `JobQueue` says
what becomes of each. A poll is three steps: read the free slots, the claim commits,
the answer arrives; `Claimed` is the rows between the last two. Both signals may come; each starts a wait loop and a timer.

### CircuitBreaker

`failures` counts timestamps by age, `openFor` is the time since it opened, capped at the cool-down.
JavaScript runs `getState`, the admission, and each `record...` to its end; only the
await of the provider call is a window. `left` is the time the race against the
timeout leaves a call.

### DomainScan

A scan goes through the kinds in the code's order: read a batch, then for each row look for a
live job of its key and insert one. Scans overlap (cron does not wait for the last one, and there may be
several workers). The insert that loses a race, like a failing statement, ends the whole scan: there is one
try/catch. The queue is only the set of keys with a live job. A *stuck* row is due and no job
can take it out of the query: its deduplication key was claimed by a run that did not end. What the
other two handlers do is what they do with the payload they are given: nothing. The rest of
`handleRecurringTaskAdvance` behind its early return is reached by no job and not modelled, and neither is the
priority of a job.

### Delivery

`msg` is where each call of `deliverResponse` is; `heard` and `shown` are what reached the user; `lost`
counts requests that took effect and were not answered. The first provider has its breaker in
detail (the variables of `CircuitBreaker`, whose actions are used as they are); the breakers of the others may answer
anything. The cache is the sequence of its entries, with eviction, replacement and expiry. Telegram
is asked `MaxRetries + 1` times; WhatsApp uploads first and is asked once.

### Calendar

One user's Google accounts. An operation reads its account, awaits Google, and writes; these
are separate steps of `call`, so operations overlap with each other, with a new consent, with a disconnection and with a
withdrawal of consent at Google. Tokens are written as the number of the consent that gave them. What
happened at Google (`event`, `changes`) is part of the model, so that the links can be compared
with it. The read of the account and that of its calendars at the start of an operation are one step.
`fetchWithRetry` may send a creation again whose answer was lost: a creation that takes effect may take effect up to
`MaxRetries` times more, each counted in `faults`. `reconcileAccount` is modelled as its tests call it; its only caller,
`scheduler/worker.ts:357`, swaps the arguments (which is in `DomainScan`).

### Onboarding and Conversation

A call acts on the user object it has read, however old, and writes one field and the state in two
statements. `Conversation` puts the webhook around it: record the update, transcribe a voice note, get or create the user, then
set-up, button, or a turn of the orchestrator: read the history, ask the model up to `MAX_TOOL_ROUNDS` times, run the
tools, and store the turns with their pruning in a transaction. Several messages in one request, of which the
adapter parses the first, repeated deliveries, failures of a statement at any step and a crash of the
server are actions. The language model answers anything; a tool either adds a row for a wish or does not. A
message carries, as `after`, the stored turns whose update had its reply when it was sent: what the user had seen answered.

### Study

A step is one awaited statement, or the last statements of a scope with its COMMIT. `held` and
the depth of a call's open scopes make the connection pool explicit: a nested scope takes a second connection of the same
pool while the first is kept. `Taken` is the set of connections in use, `Holdable` those the running calls may keep while they
wait for one more. A scope whose connection is lost, also at COMMIT, runs its function once more.
Mastery counts in steps of five points. Row locks between two UPDATEs, the model's answer before a quiz and the
reads before a plan only delay and are left out. `createCourse`, `createTopic` (whose
MAX(ordering)+1 may be taken twice) and the reads are not modelled.

### Availability

One question of one user over every world of the bounds: events with and without transparency,
commitments, quiet hours. The three reads are steps that may fail; after them a step is one round of a loop of the code: an interval
is merged, a gap is passed, a slot is offered. `taken` are the intervals that went into `merged`, any of those that start together
coming first. `pointer` is also `slotStart`, which starts from it and stays before the next busy interval. What is checked is the
answer against the points in time that are busy, a definition that knows nothing of sorting, clipping or merging.

## 4. Model checking

One tick is 10 s in `JobQueue` (lease 3 ticks, first retry 2 ticks); `Delivery` has a cool-down and
a window of 2 and a call limit of 1.

| Run | Asks | Bounds |
|---|---|---|
| `job_faults` | exclusive work, leases, the inductive invariant, every job settles | 2 jobs of one key, 2 workers of one slot, 2 enqueuers, jitter, delayed jobs; 1 crash, 1 failing statement, 1 lapsed lease; max_attempts 2 |
| `job_contract` | keys, attempts, stable ends; refinement of `JobContract` | 3 jobs: two share a singleton key, two an idempotency key; 1 crash, 1 failing statement, 1 replay, no lapsed lease |
| `reminders` | one dispatch per due time; what a mark stands for; arrival | 2 overlapping calls, 2 due times, 1 edit, 1 hold, 2 faults |
| `followups` | one dispatch per attempt; backed counts; progress | 1 follow-up, 2 overlapping calls, limit 2, 1 answer, 1 hold, 2 faults |
| `domain` | everything due is reached; the last kind too; needless jobs bounded | 2 scans; 2 reminders with a batch of 1, 1 recurring task, 1 account; 1 fault |
| `delivery` | received as reported; copies paid; cache; the breaker under deliveries; ends | 2 deliveries, one per platform; 3 texts, one too long; cache of 1, 1 retry, threshold 2 |
| `pool` | count, conservation, overload; what an exit leaves; end without the timer | 3 overlapping polls, concurrency 2, 8 jobs, both signals |
| `calendar` | accounts against tokens; links against events; sync token | 2 overlapping operations, 4 begun, 2 commitments, 1 address and NULL, 2 consents, 2 events, 1 retry, 1 trouble |
| `conversation` | nothing forgotten; histories; rows and set-up | 3 updates, 2 at a time, 2 wishes, 1 tool round; user new, at the last question or set up; 1 trouble |
| `study` | quiz rows, mastery, plans, tasks, pool | 2 overlapping calls of 3, pool of 4, 2 questions, 2 topics; 2 troubles, 4 events |
| `availability` | slots free and complete; stretches exact | window of 6 in a day of 8; up to 3 events, every choice of commitments and quiet hours in the cfg, 2 durations, 2 buffers |
| `recurring_advance` | a due recurring task is advanced (expected to fail) | 1 scan |

Why the bounds are enough: every conflict in these protocols is between two calls, two
rows of one key, or a call and one actor from outside, so two of each show it, and a
third job (`job_contract`) shows that keys of different kinds do not interfere. max_attempts 2 has an
attempt that is retried and one that ends in the dead letter. One fault of each kind lets
faults combine (a crash after a failed completion). In `reminders` and `followups`
two faults exhaust the attempts of a job, so the last one, after which only a new scan
helps, is reached. Eight jobs are more than three polls of two can claim at once. In `domain` a batch of one is
smaller than what is due, so one stuck row is enough to crowd out the next. In `delivery` a cache of one evicts with every second text, and two failures trip the breaker while another call is under way.
In `calendar` two consents are a reconnection of the same address or a second account, and one trouble is a lost answer,
a crash or a failing statement at every place. `conversation` has a third update to follow the two that
overlapped, with a history of two turns and three kept, so that both pruning and a full history happen. In `study`
the deepest call has three scopes, so two of them need more than the pool of four, and one more call fits beside
one; a third call follows the two that overlapped. In `availability` the window begins at the start of a day and passes beyond its end, so quiet hours cross
both edges; three events merge, touch, nest and leave gaps, and a limit of two cuts one off.
The theorems below remove the bounds for what matters most.

The bounds on replies, edits, holds, replays, consents, events and faults are environment bounds; where
they are used up the system may come to rest, so the runs set CHECK_DEADLOCK FALSE wherever it does.

Several properties count: a duplicate, an orphan, an extra row is *paid for* by a fault or by an overlap that the
model counts. They say that nothing else causes one, and how many one cause can make; without faults and overlaps they say that
there is none.

### Fairness

- The clock advances; due times come and quiet hours end.
- The poll runs every 2 s, the scan every 30 s, the recovery every 60 s, as long as
  there is a worker: weak fairness of `ClaimJobs` (for each job), `ScanDue`,
  `EnqueueScanned`, `RecoverStaleJobs`. A claim that is fair to each job supposes that
  the queue is not saturated for ever by jobs of higher priority.
- A call of a handler goes on until it ends: weak fairness of the steps of each
  call. Nothing makes a fault, a crash, an enqueue or an answer happen.
- `DomainScan`: the steps of each scan are fair (cron starts one every 30 s), and so is the job of each row: five
  jobs every 2 s are more than a scan enqueues.
- `Delivery`: a provider answers or times out, a request ends. `Synthesize` needs strong fairness, because
  `getState` is a step of its own in the model, with which others interleave; in the code nothing comes between it and the
  admission that follows.
- `WorkerPool`: `gracefulShutdown` looks at the count again every 500 ms. Handlers and claims may hang and the 10 s timer
  may be late; `ShutdownDrains` has the end of the handlers as its premise. That the timer ends a process which hangs is
  not a property: it would only repeat that the timer fires.

`followups` has one follow-up. With two that compete for one call, a job could be passed
over for ever unless claims were in order of age; the code orders them by priority and run_at,
which the model leaves open. `Calendar`, `Conversation`, `Study` and `Availability` claim no liveness: no
timer or retry of the code brings a broken-off operation there to its end, and for the pool, which must not lock up,
`SomeoneProceeds` is the safety form.

### Disagreements with the documentation

`recurring_advance` is expected to fail: `docs/DATABASE_ACCESS_ARCHITECTURE.md:59` says the worker advances
occurrences, and the counterexample is a task whose jobs complete, again and again, without doing so.

The following are behaviours of the models, and of the code, that contradict a document or that a reader would not
expect. They have no run of their own; the properties are stated so as to allow exactly them.

Jobs and dispatch:

- A 30 s lease that nothing renews lapses under a slow handler, and the job runs twice
  (`docs/TECHNICAL_DEBT.md:35` speaks of no duplicate execution). The properties of the queue are stated up to `overruns`.
- `enqueueJob` "suppresses singleton collisions cleanly" (`core/jobs/JobQueueService.ts:136`), but the INSERT of the slower of
  two enqueuers raises on the singleton index (in `EnqueueInsert` the call ends and no row is written); `KeysHonoured` says when
  this may happen; overlapping polls exceed the concurrency (`Overload` says by how much at most);
  a clean exit leaves the rows of a claim in flight active (`JobsConserved` counts them as orphaned, `CleanExitDrains` says there are no others).
- A delivery that fails after its key was claimed is lost (`ReminderArrives` excepts faults). A task that is snoozed, or moved, during the
  dispatch is marked as sent by the call for the old due time (`core/tasks/TaskService.ts:275` looks at the id alone): the user is
  never reminded of the new one, without any fault. `RemindersServed` names this case (`Overmarked`); without the exception TLC finds it violated.
- "Done" during the dispatch is overwritten by `markDelivered` or the cancellation (`docs/ARCHITECTURE.md:114`). "Tomorrow" resets
  the attempts, and attempt 0 has a taken key, so it is never asked again (`core/followup/FollowUpService.ts:143`).
  A stale batch can enqueue one inquiry beyond max_attempts. The worker's buttons carry `fu:done:<id>`, the webhook reads
  `fu:<id>:<action>` (`docs/ARCHITECTURE.md:127`).
- Every calendar reconciliation job gets its arguments swapped and does nothing (`scheduler/worker.ts:357`).
- The hourly daily check-in sweep sends at an exact hour, remembers nothing, and one failing user ends it for those after.

Calendar:

- `core/calendar/CalendarReconciliationService.ts:276` writes `deleted_remotely`, which the CHECK of `schema.sql:242` refuses; the error is
  swallowed and the token goes on.
- "Idempotently" (`core/calendar/CalendarService.ts:800`) ends where `fetchWithRetry` repeats a POST (`utils/http.ts:92`), an INSERT of a link fails, or two pushes overlap.
- Commitments are pushed when they are created through the tool and never again; nothing calls `deleteCalendarEvent`. A discovery that fails after
  the consent is not repeated.
- Quiet hours are taken as UTC, and equal start and end block the whole day here but mean none in
  `core/notifications/NotificationPolicyService.ts:242`. A read that fails counts as free.
- A meeting that ends exactly when the window begins, or a commitment due just before it, is not listed, so its buffer is not kept. The 100 listed events are cut before
  transparent ones are left out. An all-day event ends, for Google, on the day after, which counts as busy too
(`core/calendar/GoogleCalendarProvider.ts:313`). The fallback slots of `core/study/StudyPlanService.ts:108` look at no calendar.

Conversation and study:

- "Mind trying that again?" is sent after tools took effect; trying again adds a second row (`RowsPaid`).
- Two quizzes generated at once, or an answer in flight while one is generated, leave two live quizzes. Completing a
  session twice credits it twice; rescheduling a completed one leaves its task done. A plan that is rolled back leaves its tasks, with
  their reminders.
- Five overlapping completions, or ten plans or reschedulings, hold all ten connections while each waits for one more; `SomeoneProceeds` says that fewer never do.
- Other rows are read and then written without a lock: `storeMemory` can store a memory twice, and a syllabus is left stored
  in part when a statement fails.
- `updateTask` moves due_at and keeps `reminder_sent_at` (`core/tasks/TaskService.ts:98`), so a rescheduled task is not reminded of again.
- `ensureDailyCheckinTask` sets the user's check-in hour as an hour of UTC.

Invariants that belong together are checked as one conjunction, whose parts are defined and commented one by
one in the module: `LeasedWork`, `KeysHonoured`, `AttemptsPaid`, `CountsBacked`, `DeliverySound`, `PoolSound`,
`ScansSound`, `AccountsSound`, `PushesPaid`, `SetUpSound`, `HistorySound`, `QuizzesSound`, `PlansSound` and
`SlotsSound`, which take in the types, and `RemindersServed` and `DeliveriesEnd` of liveness.

## 5. Proofs

All theorems hold for every value of the constants that satisfies the ASSUMEs of the module.

Where a property counts (copies, rows, live quizzes), the model counts with the cardinality of a set and not with
a fold over a function, so that the facts of `FiniteSetTheorems` apply.

**JobQueueProofs.** `IndInv` is inductive. The safety properties speak of executions;
what an execution may write depends on its row, so the invariant ties them together:
`RunLocked` (a call's row is active under an unexpired lease in its worker's name, or was
completed by a statement in doubt), `ReadIsFresh` (the attempts `failJob` read are still
the row's), `OneRunPerJob`, and `WithinBudget` (a row nobody executes has an attempt
left of max_attempts plus faults). These are `Guarded` by `overruns = 0`: once a lease lapsed under its
handler nothing of this holds. `SingletonExclusive`,
`IdempotencyUnique`, `CallsFresh` and `RunsPresent` hold regardless. There is one lemma per action; steps of
`processJob` share `RunStepStructure` and `RunStepGuarded`. From `IndInv` follow `ExclusiveWork`,
`LeaseHeld` (together `LeasedWork`), `DeadLetterExhausted` and `AttemptBudget` (`AttemptsPaid`), and, from the
invariant and one step, `TerminalStable`. That the two unique indexes keep their keys is not a property of the service (the database
refuses what would break them), but part of the invariant. What the service adds is that it looks first: `KeysHonoured`. Its proof needs
`KnownStaySettled`: the rows of its key that a call's SELECT has seen were settled, and they stay so
until its INSERT, so the index can be met only on a row inserted since. `RetryAdmitted`, its other part, follows from
`IndInv`: the row of a retry is still live, so the index already kept others off its key.
`ContractImplemented`, in the same module: with `MaxOverruns = 0` every step of the
queue is a step of `JobContract` or a stutter. An active row nobody executes maps to
*waiting*; a completed row that a call still has maps to *done, in doubt*.

**ReminderProofs.** `OneTaker`: a free key has no dispatch and no deliverer, two
deliverers never share a due time, and whoever is past its delivery has one to
show. `OneDispatchPerDue` and `SentMeansDispatched` follow (the due time a mark stands for is the history variable `sentFor`), with lapsed leases, crashes and edits.

**FollowUpProofs.** The same argument for `OneDispatchPerTry`, over the keys of all attempts: the attempt a call
has read may be stale, and whatever is answered, rescheduled or counted meanwhile changes which key is tried, not who may
take it. `CountsBacked` needs two more parts. `Backed`: attempt_count and the calls that have asked and not yet counted it
are at most the inquiries made. `Loaded`: a follow-up has one live job or working call, plus one for each fault (a lease that lapses leaves a
call behind), none while its job is settled; and attempt_count, that load and a place in a scanned batch are together at most
max_attempts + 1 + faults. The 1 is the stale batch.

**WorkerProofs.** First the pool. A poll's claimed rows are numbered from 1, so the rows of all polls are one set of pairs and
what a poll is given or gives up is a set difference. `PoolInv` bounds them by the slots each poll read, which makes
`JobsConserved` and `Overload` inductive together with `CountExact`. That a clean exit cuts no handler short, and leaves only rows
of a claim in flight, follows from it and one step, because `gracefulShutdown` looks at the count only.
Then the scans. A query's LIMIT bounds its batch because the rows it returns, but the last, are earlier than the last (`FirstBounded`).
`ScansPaid` is the invariant of the needless jobs: once `Watched` is closed no query returns it any more, so the needless jobs that ran, the one that is
queued and the scans that still carry the row in a batch are together at most the number of scans and one. A scan that passes the row on, inserts
its job or ends gives up its place for it, and `ScansSound` follows. No other property of the scan is one of safety.

**DeliveryProofs.** First the breaker alone. `OnlyProbe` needs `StaleRunOut`: while the breaker is open, the
time a call has left and the time since opening add up to at most CallLimit. With
`BudgetAssumption` (CallLimit < CoolDown, 10 s against 30 s) no earlier call is left when
it half-opens. `ProbeDecides` follows from the invariant. With a longer timeout the properties fail.
`BelowThreshold` counts the failures of the window as a set (`Recent`): a tick moves each to the next age, and a
success or a trip forgets them. Then the deliveries: `Delivery` takes its steps of the breaker from `CircuitBreaker` as they are, so
what is proved of the breaker alone carries over. `DeliveredOnce` (the properties
`ReportedIsReceived` and `CopiesPaid`) needs `UnderWay`: who has not come to an end reached the user only by
requests whose answer was lost, so the request that is answered adds the one copy that is not paid for. `DeliverySoundHolds` adds the
cache, whose entries stay within the limit and of different keys through replacement, eviction and expiry; `VoiceNeverLoses`
says that only the last attempt to send the text makes a delivery fail.

**CalendarProofs.** `IndInv` adds to the properties what a call carries. `OperationsSound`: a call's
token is a consent that was given, its account has a row, the sync token it is about to store passes only deletions that were handed
on or that Google's answer could not contain, and the event it links exists. `InsertionsApart`: the row a callback is about to insert is
nobody's, and no other callback's. `TokensSound` is the sync-token property with the bound it needs. There is one lemma per action; the
invariant needs all parts at once because a late refresh or a late `reauth_required` writes to whatever became of its account meanwhile.
From it follow `ActiveHoldsToken`, `RefreshForgotten` and `OneRowPerEmail` (with the types, `AccountsSound`), `NothingSkipped` and, from the invariant and one step,
`OnlyConsentRevives`, for any number of operations, accounts, events, consents and faults.
`PushInv` is the invariant of the pushes, from which `PushesPaid` follows. `Few` bounds, for one commitment and one calendar, its live events
(`Entries`) with the calls that may make one more (`Makers`) by one and what faults and overlaps pay for (`Slack`), and both with the
calls that have not looked yet (`Lookers`) by `Free` and that: two while an event is linked, the event and one push that will find it;
one while none is linked and some push is at it; none otherwise, since an event that nobody is about to link was left by a fault. Each look, creation, lost answer, link and deletion moves a call or
an event between those sets, which are lemmas about finite sets alone (`FewDrops`, `FewBegins`, `FewLooks`, `FewMakes`, `FewLinks`, `FewGoes`).
`Loose` are the deleted events that are linked with nobody about to unlink them, or about to be linked: they grow only with `Slack`. Steps that take no
part in pushes are `Quiet`, and one lemma covers them. The set of operations in flight is finite.

The same module proves what is said of `Availability`; the loops are steps, so their invariants are invariants of the specification (`SearchInv`).
`QuietCovered` is the arithmetic: a point of the window is quiet by its own day or by the night that began the day before, and `DaysCover` says
that both are scanned, for every window and length of a day. `BusyCovered` adds clipping: the intervals that are merged cover exactly the busy points.
`MergedSound` says that so do the merged ones and those that are left, and that the merged ones do not touch (`JoinKeeps`). Then a gap has no busy
point and is bounded by busy ones or by the window (`GapClear`), so the gaps are the stretches of free time (`FreeStretches`). For the search, `SlotsClear` keeps
the slots behind the pointer and `NonePassed` says that no place is left there: a place that begins before the pointer contains the point before
it, which is busy or offered.

**ConversationProofs.** `OnbInv` is the invariant of the set-up: a call acts on a state whose earlier answers the row
has (`Carried`), while no calls overlapped it acts on the state the row still has (`Sequential`), and while no two looked for the
daily check-in at once there is one and nobody is about to insert another (`OneInserts`). `CallInv` is that of the webhook:
whatever was delivered or recorded is answered, lost or with a call (`Remembered`), which is `NothingForgotten`, and a call that has
not asked the model has added nothing (`Fresh`). `RowsBacked` makes `RowsPaid` inductive by counting what may still be added, calls that
have not asked the model and updates that are not recorded, as if it had been; a wish has one row to give while one of its
updates is neither dropped nor answered with an invitation to try again. `TurnInv` is that of the history: turns are stamped apart
(`Stamped`), what a transaction is about to prune has enough newer turns with the one it adds (`Pruned`), what a user saw
answered is stored or has enough newer turns (`Followed`), the table without what a transaction is about to prune has room for its
turn, but for one of each other call that does not commit an older one (`Fitting`), and a reply is delivered after both turns were stored
(`Recorded`). Pruning by age is reduced to one fact about sets: the n newest of a finite set of turns are at most n, and whatever is older has n newer ones.

**StudyProofs.** `Typed` is the invariant of the rows and of every place a call can be at; whether a step goes on, leaves a scope, throws its
scope back for one more run, or ends is stated once and used by the four arguments.
*Pool.* A call that waits for a connection holds one fewer than it has scopes, so if all wait, `Taken` is a subset of `Holdable`, which
is smaller than the pool: one connection is free (`SomeoneProceeds`).
*Quizzes.* `OnePaid` looks ahead: for every set of generations under way, the quizzes that stay live or are reopened when they have inserted theirs,
with those insertions and the answers that have yet to read their quiz, are at most one more than `overlaps`. `AckPaid` does the same for
answers: for every set of answers under way to one quiz, what was acknowledged and that set are at most one more than
the index each of them counts from, plus `overlaps`. One step of one call is then one element of such a set.
*Plans.* `Own`: each session has a task of its own and so has each task a call has created but not linked. `FewAdrift`: each trouble sheds at most what the
running calls own. `Follows`: while nothing overlaps or goes wrong the task is ahead of its session only between
the two statements of one call.
*Mastery.* `LevelPaid` bounds a level, and every level that was read and not yet written, by `Slack`: the sessions worked for, less the completions
that have still to add their step, and less all but one of the completions under way, since one crash ends them all without completing a session;
twice the quizzes answered, less the answers that may still finish one or have and have yet to add, with one for an answer that counts from
its row; each repeated completion once, and each overlap and trouble twice. No step lowers `Slack` below what it adds.

Assumptions are on constants only; `PowerAssumption` (2^a is a natural number) is there because the
provers have no facts about exponentiation, and TLC evaluates it. The sets of calls and of polls are finite
where something is counted over them: a process has finitely many handlers under way.

Only model-checked is liveness: TLAPS does not prove properties under fairness. Every other property of a passing run
is stated by a theorem.

## 6. Not modelled

Planned parts are in section 2. Left out for good: network protocols of providers and
adapters, prompts and message wording, read-only aggregation (insights, briefing,
administration), single-statement CRUD (projects, memory, persona), syllabus ingestion (inserts in a row behind a remote model's answer),
the daily check-in sweep (it keeps no state), start-up checks, row-level security, logging and telemetry. CalDAV repeats the calendar's operations over
text parsing, and the router connects no account of it. `PROJECT.json` gives the reason for each.
